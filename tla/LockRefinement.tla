---- MODULE LockRefinement ----
(***************************************************************************)
(* Proofs that the lock manager implements the lock its clients rely on    *)
(* (SharedExclusive), and that it uses the log as Raft provides it         *)
(* (CommandLog), for any clients, resources and requests.                  *)
(***************************************************************************)
EXTENDS LockProofs, SequenceTheorems

\* How a table uses its resources, as clients see it.
UseOf(t, r) ==
    IF r \in DOMAIN t.locks
    THEN [type |-> t.locks[r].type, holders |-> t.locks[r].holders]
    ELSE [type |-> "free", holders |-> {}]

ClientsOf(ws) == {w.client : w \in ws}

\* What a step of SharedExclusive may do to one resource.
Entered(old, new) ==
    \E cs \in SUBSET Client :
        \/ old = Promise!Free /\ new \in Promise!Starts(cs)
        \/ old.type = "shared" /\ new = Promise!Read(old.holders \cup cs)

Left(old, new) ==
    \E c \in old.holders :
        LET left == old.holders \ {c} IN
        IF left # {}
        THEN new = Promise!Read(left)
        ELSE \E cs \in SUBSET Client : new \in Promise!Starts(cs)

\* A change of table that clients see as nothing, or as one step of a lock.
Seen(t, u) ==
    \/ \A r \in Resource : UseOf(u, r) = UseOf(t, r)
    \/ \E r \in Resource :
          /\ Entered(UseOf(t, r), UseOf(u, r)) \/ Left(UseOf(t, r), UseOf(u, r))
          /\ \A s \in Resource \ {r} : UseOf(u, s) = UseOf(t, s)

-----------------------------------------------------------------------------
(* The commands, as clients see them *)

\* Granting changes the use of the one resource only.
LEMMA GrantUse ==
    ASSUME NEW t, IsTable(t), NEW r \in Resource, NEW lock \in Lock, NEW type \in LockType,
           NEW ws \in SUBSET Wish
    PROVE  /\ UseOf(Grant(t, r, lock, type, ws), r) =
                  [type |-> type, holders |-> lock.holders \cup ClientsOf(ws)]
           /\ \A s \in Resource \ {r} : UseOf(Grant(t, r, lock, type, ws), s) = UseOf(t, s)
<1> DEFINE lock2 == [lock EXCEPT !.holders = lock.holders \cup ClientsOf(ws), !.type = type]
           u     == Grant(t, r, lock, type, ws)
<1>1. u.locks = Put(t.locks, r, lock2)
  BY DEF Grant, ClientsOf
<1>2. lock2.type = type /\ lock2.holders = lock.holders \cup ClientsOf(ws)
  BY DEF Lock
<1> HIDE DEF u, lock2
<1>3. /\ DOMAIN u.locks = DOMAIN t.locks \cup {r}
      /\ u.locks[r] = lock2
      /\ \A s \in DOMAIN t.locks \ {r} : u.locks[s] = t.locks[s]
  BY <1>1 DEF Put
<1>4. QED
  BY <1>2, <1>3 DEF UseOf, u

\* The clients of the wishes at the front can start together on a free resource.
LEMMA TogetherStart ==
    ASSUME NEW type \in LockType, NEW cs \in SUBSET Client, cs # {},
           type = Exclusive => \E c \in cs : cs = {c}
    PROVE  [type |-> type, holders |-> cs] \in Promise!Starts(cs)
<1>1. CASE type = Shared
  BY <1>1 DEF Promise!Starts, Promise!Read, Shared
<1>2. CASE type = Exclusive
  BY <1>2 DEF Promise!Starts, Promise!Write, Exclusive
<1>3. QED
  BY <1>1, <1>2 DEF LockType

LEMMA AcquireSeen ==
    ASSUME NEW t, Whole(t), NEW w \in Wish
    PROVE  Seen(t, ApplyAcquire(t, w))
<1> DEFINE r    == w.resource
           lock == LockOf(t, r, w.type)
           u    == ApplyAcquire(t, w)
<1>1. w.client \in Client /\ r \in Resource /\ w.type \in LockType
  BY DEF Wish
<1>2. lock \in Lock /\ lock.holders = HoldersOf(t, r) /\ IsTable(t)
  BY <1>1 DEF LockOf, NoLock, HoldersOf, Lock, Whole, IsTable
<1>3. r \in DOMAIN t.locks => lock = t.locks[r] /\ lock.holders # {}
  BY DEF LockOf, Whole
<1>4. CASE CanAcquire(lock, w.type)
  <2>1. u = Grant(t, r, lock, w.type, {w})
    BY <1>4 DEF ApplyAcquire
  <2>2. ClientsOf({w}) = {w.client}
    BY DEF ClientsOf
  <2>3. /\ UseOf(u, r) = [type |-> w.type, holders |-> lock.holders \cup {w.client}]
        /\ \A s \in Resource \ {r} : UseOf(u, s) = UseOf(t, s)
    <3> HIDE DEF u, lock, r
    <3>1. PICK ws \in SUBSET Wish : ws = {w}
      OBVIOUS
    <3>2. PICK type \in LockType : type = w.type
      BY <1>1
    <3>3. lock \in Lock /\ IsTable(t) /\ r \in Resource
      BY <1>1, <1>2
    <3>4. /\ UseOf(Grant(t, r, lock, type, ws), r) =
                [type |-> type, holders |-> lock.holders \cup ClientsOf(ws)]
          /\ \A s \in Resource \ {r} : UseOf(Grant(t, r, lock, type, ws), s) = UseOf(t, s)
      BY <3>3, GrantUse
    <3>5. QED
      BY <2>1, <2>2, <3>1, <3>2, <3>4
  <2>4. CASE r \in DOMAIN t.locks
    <3>1. lock.type = "shared" /\ w.type = "shared"
      BY <1>3, <1>4, <2>4 DEF CanAcquire, Shared
    <3>2. UseOf(t, r).type = "shared" /\ UseOf(t, r).holders = lock.holders
      BY <1>3, <2>4, <3>1 DEF UseOf
    <3>3. Entered(UseOf(t, r), UseOf(u, r))
      <4> HIDE DEF u, lock
      <4>1. UseOf(u, r) = Promise!Read(UseOf(t, r).holders \cup {w.client})
        BY <2>3, <3>1, <3>2 DEF Promise!Read
      <4>2. {w.client} \in SUBSET Client
        BY <1>1
      <4>3. QED
        BY <3>2, <4>1, <4>2 DEF Entered
    <3>4. QED
      BY <1>1, <2>3, <3>3 DEF Seen
  <2>5. CASE r \notin DOMAIN t.locks
    <3>1. lock.holders = {} /\ UseOf(t, r) = Promise!Free
      BY <1>2, <2>5 DEF HoldersOf, UseOf, Promise!Free
    <3>2. UseOf(u, r) = [type |-> w.type, holders |-> {w.client}]
      BY <2>3, <3>1
    <3>3. {w.client} \in SUBSET Client /\ {w.client} # {} /\ \E c \in {w.client} : {w.client} = {c}
      BY <1>1
    <3>4. UseOf(u, r) \in Promise!Starts({w.client})
      BY <1>1, <3>2, <3>3, TogetherStart
    <3>5. Entered(UseOf(t, r), UseOf(u, r))
      BY <3>1, <3>3, <3>4 DEF Entered
    <3>6. QED
      BY <1>1, <2>3, <3>5 DEF Seen
  <2>6. QED
    BY <2>4, <2>5
<1>5. CASE ~CanAcquire(lock, w.type)
  <2> DEFINE lock2 == [lock EXCEPT !.waiters = Append(@, w)]
  <2>1. r \in DOMAIN t.locks
    BY <1>2, <1>5 DEF CanAcquire, HoldersOf
  <2>2. lock2.holders = lock.holders /\ lock2.type = lock.type
    BY <1>2 DEF Lock
  <2>3. u.locks = Put(t.locks, r, lock2)
    BY <1>2, <1>5 DEF ApplyAcquire, IsTable
  <2> HIDE DEF u, lock2, lock
  <2>4. /\ DOMAIN u.locks = DOMAIN t.locks
        /\ \A s \in DOMAIN t.locks : /\ u.locks[s].type = t.locks[s].type
                                     /\ u.locks[s].holders = t.locks[s].holders
    BY <1>3, <2>1, <2>2, <2>3 DEF Put
  <2>5. QED
    BY <2>4 DEF Seen, UseOf, u
<1>6. QED
  BY <1>4, <1>5

LEMMA CancelSeen ==
    ASSUME NEW t, Whole(t), NEW id, NEW r
    PROVE  Seen(t, ApplyCancel(t, id, r))
<1> DEFINE u == ApplyCancel(t, id, r)
<1>1. CASE r \notin DOMAIN t.locks
  BY <1>1 DEF ApplyCancel, Seen
<1>2. CASE r \in DOMAIN t.locks
  <2> DEFINE lock2 == [t.locks[r] EXCEPT !.waiters = Without(@, id)]
  <2>1. t.locks[r] \in Lock
    BY <1>2 DEF Whole, IsTable
  <2>2. lock2.holders = t.locks[r].holders /\ lock2.type = t.locks[r].type
    BY <2>1 DEF Lock
  <2>3. u.locks = [t.locks EXCEPT ![r] = lock2]
    BY <1>2 DEF Whole, IsTable, ApplyCancel
  <2> HIDE DEF u, lock2
  <2>4. /\ DOMAIN u.locks = DOMAIN t.locks
        /\ \A s \in DOMAIN t.locks : /\ u.locks[s].type = t.locks[s].type
                                     /\ u.locks[s].holders = t.locks[s].holders
    BY <1>2, <2>2, <2>3 DEF Whole, IsTable
  <2>5. QED
    BY <2>4 DEF Seen, UseOf, u
<1>3. QED
  BY <1>1, <1>2

\* What is left when a client has let go: fewer readers, or nobody.
LEMMA LetGoUse ==
    ASSUME NEW t, Whole(t), NEW c \in Client, NEW r \in DOMAIN t.locks
    PROVE  LET u == LetGo(t, c, r) IN
           /\ IsTable(u) /\ DOMAIN u.locks = DOMAIN t.locks
           /\ u.locks[r].type = t.locks[r].type
           /\ u.locks[r].holders = t.locks[r].holders \ {c}
           /\ \A s \in Resource \ {r} : UseOf(u, s) = UseOf(t, s)
<1> DEFINE u == LetGo(t, c, r)
           lock2 == [t.locks[r] EXCEPT !.holders = @ \ {c}]
<1>1. t.locks[r] \in Lock
  BY DEF Whole, IsTable
<1>2. lock2.holders = t.locks[r].holders \ {c} /\ lock2.type = t.locks[r].type
  BY <1>1 DEF Lock
<1>3. u.locks = [t.locks EXCEPT ![r] = lock2]
  BY DEF Whole, IsTable, LetGo
<1>4. IsTable(u) /\ DOMAIN u.locks = DOMAIN t.locks
  BY LetGoKeepsAlmost DEF Almost
<1> HIDE DEF u, lock2
<1>5. u.locks[r] = lock2 /\ \A s \in DOMAIN t.locks \ {r} : u.locks[s] = t.locks[s]
  BY <1>3
<1>6. QED
  BY <1>2, <1>4, <1>5 DEF UseOf, u

\* The use after a handover: clients that can start together.
LEMMA HandoverUse ==
    ASSUME NEW t, IsTable(t), NEW r \in DOMAIN t.locks,
           t.locks[r].holders = {}, t.locks[r].waiters # <<>>
    PROVE  /\ \E cs \in SUBSET Client : UseOf(GrantNext(t, r), r) \in Promise!Starts(cs)
           /\ \A s \in Resource \ {r} : UseOf(GrantNext(t, r), s) = UseOf(t, s)
<1> DEFINE lock == t.locks[r]
           n    == Front(lock.waiters)
           rest == [lock EXCEPT !.waiters = SubSeq(@, n + 1, Len(@))]
           type == lock.waiters[1].type
           ws   == {lock.waiters[i] : i \in 1..n}
           cs   == ClientsOf(ws)
<1>1. lock \in Lock /\ lock.waiters \in Seq(Wish) /\ r \in Resource
  BY DEF IsTable, Lock
<1>2. n \in 1..Len(lock.waiters) /\ (type = Exclusive => n = 1)
  BY <1>1, FrontBounds
<1>3. \A i \in 1..Len(lock.waiters) : lock.waiters[i] \in Wish
  BY <1>1
<1>4. n \in Nat /\ Len(lock.waiters) \in Nat
  BY <1>1, <1>2
<1> HIDE DEF n
<1>5. ws \in SUBSET Wish /\ lock.waiters[1] \in ws
  BY <1>2, <1>3, <1>4
<1>6. type \in LockType
  BY <1>2, <1>3, <1>4 DEF Wish
<1>7. type = Exclusive => ws = {lock.waiters[1]}
  BY <1>2
<1>8. rest \in Lock /\ rest.holders = {}
  <2>1. SubSeq(lock.waiters, n + 1, Len(lock.waiters)) \in Seq(Wish)
    BY <1>1, <1>4
  <2>2. QED
    BY <1>1, <2>1 DEF Lock
<1>9. GrantNext(t, r) = Grant(t, r, rest, type, ws)
  BY DEF GrantNext, n
<1> HIDE DEF lock, rest, type, ws
<1>10. /\ UseOf(GrantNext(t, r), r) = [type |-> type, holders |-> cs]
       /\ \A s \in Resource \ {r} : UseOf(GrantNext(t, r), s) = UseOf(t, s)
  <2>1. \A s \in Resource \ {r} : UseOf(Grant(t, r, rest, type, ws), s) = UseOf(t, s)
    BY <1>1, <1>5, <1>6, <1>8, GrantUse
  <2>2. UseOf(Grant(t, r, rest, type, ws), r) =
            [type |-> type, holders |-> rest.holders \cup ClientsOf(ws)]
    <3>1. \A l \in Lock, p \in LockType, vs \in SUBSET Wish :
             UseOf(Grant(t, r, l, p, vs), r) =
                 [type |-> p, holders |-> l.holders \cup ClientsOf(vs)]
      BY <1>1, GrantUse
    <3>2. QED
      BY <1>5, <1>6, <1>8, <3>1
  <2>3. QED
    BY <1>8, <1>9, <2>1, <2>2
<1>11. cs \in SUBSET Client /\ cs # {}
  BY <1>5 DEF Wish, ClientsOf
<1>12. type = Exclusive => \E c \in cs : cs = {c}
  <2>1. type = Exclusive => cs = {lock.waiters[1].client}
    BY <1>7 DEF ClientsOf
  <2>2. QED
    BY <2>1
<1>13. [type |-> type, holders |-> cs] \in Promise!Starts(cs)
  <2> HIDE DEF cs
  <2>1. QED
    BY <1>6, <1>11, <1>12, TogetherStart
<1>14. QED
  BY <1>10, <1>11, <1>13

LEMMA ReleaseSeen ==
    ASSUME NEW t, Whole(t), NEW c \in Client, NEW r \in Resource
    PROVE  Seen(t, ApplyRelease(t, c, r))
<1> DEFINE u == LetGo(t, c, r)
           v == ApplyRelease(t, c, r)
<1>1. CASE r \notin DOMAIN t.locks
  BY <1>1 DEF ApplyRelease, Seen
<1>2. CASE r \in DOMAIN t.locks
  <2> DEFINE old == t.locks[r].holders
  <2>1. /\ IsTable(u) /\ DOMAIN u.locks = DOMAIN t.locks
        /\ u.locks[r].type = t.locks[r].type
        /\ u.locks[r].holders = old \ {c}
        /\ \A s \in Resource \ {r} : UseOf(u, s) = UseOf(t, s)
    BY <1>2, LetGoUse
  <2>2. v = IF old \ {c} # {} THEN u
            ELSE IF u.locks[r].waiters # <<>> THEN GrantNext(u, r)
            ELSE Drop(u, r)
    BY <1>2, <2>1 DEF ApplyRelease
  <2>3. t.locks[r] \in Lock /\ old # {}
    BY <1>2 DEF Whole, IsTable
  <2>4. UseOf(t, r) = [type |-> t.locks[r].type, holders |-> old]
    BY <1>2 DEF UseOf
  <2>5. UseOf(t, r).holders = old
    BY <2>4
  <2> HIDE DEF u, v, old
  <2>6. CASE c \notin old
    <3>1. old \ {c} = old /\ v = u
      BY <2>2, <2>3, <2>6
    <3>2. UseOf(u, r) = UseOf(t, r)
      BY <1>2, <2>1, <2>4, <3>1 DEF UseOf
    <3>3. QED
      BY <2>1, <3>1, <3>2 DEF Seen, v
  <2>7. CASE c \in old /\ old \ {c} # {}
    <3>1. t.locks[r].type = "shared"
      BY <1>2, <2>3, <2>7 DEF Whole, OneWriter, Lock, LockType, Shared, old
    <3>2. UseOf(v, r) = Promise!Read(old \ {c})
      BY <1>2, <2>1, <2>2, <2>7, <3>1 DEF UseOf, Promise!Read
    <3>3. Left(UseOf(t, r), UseOf(v, r))
      BY <2>5, <2>7, <3>2 DEF Left
    <3>4. QED
      BY <2>1, <2>2, <2>7, <3>3 DEF Seen, v
  <2>8. CASE c \in old /\ old \ {c} = {}
    <3>1. /\ \E cs \in SUBSET Client : UseOf(v, r) \in Promise!Starts(cs)
          /\ \A s \in Resource \ {r} : UseOf(v, s) = UseOf(u, s)
      <4>1. CASE u.locks[r].waiters # <<>>
        BY <1>2, <2>1, <2>2, <2>8, <4>1, HandoverUse
      <4>2. CASE u.locks[r].waiters = <<>>
        <5>1. v = Drop(u, r)
          BY <2>2, <2>8, <4>2
        <5>2. v.locks = [s \in DOMAIN u.locks \ {r} |-> u.locks[s]]
          BY <2>1, <5>1 DEF Drop, IsTable
        <5>3. UseOf(v, r) = Promise!Free
          BY <5>2 DEF UseOf, Promise!Free
        <5>4. Promise!Free \in Promise!Starts({}) /\ {} \in SUBSET Client
          BY DEF Promise!Starts
        <5>5. \A s \in Resource \ {r} : UseOf(v, s) = UseOf(u, s)
          BY <5>2 DEF UseOf
        <5>6. QED
          BY <5>3, <5>4, <5>5
      <4>3. QED
        BY <4>1, <4>2
    <3>2. Left(UseOf(t, r), UseOf(v, r))
      BY <2>5, <2>8, <3>1 DEF Left
    <3>3. QED
      BY <2>1, <3>1, <3>2 DEF Seen, v
  <2>9. QED
    BY <2>6, <2>7, <2>8
<1>3. QED
  BY <1>1, <1>2

LEMMA CommandSeen ==
    ASSUME NEW t, Whole(t), NEW cmd \in Command
    PROVE  Seen(t, ApplyCommand(t, cmd))
<1>1. CASE cmd.op = "acquire"
  <2>1. cmd.wish \in Wish
    BY <1>1 DEF Command
  <2>2. QED
    BY <1>1, <2>1, AcquireSeen DEF ApplyCommand
<1>2. CASE cmd.op = "cancel"
  BY <1>2, CancelSeen DEF ApplyCommand
<1>3. CASE cmd.op = "release"
  <2>1. cmd.client \in Client /\ cmd.resource \in Resource
    BY <1>3 DEF Command
  <2>2. QED
    BY <1>3, <2>1, ReleaseSeen DEF ApplyCommand
<1>4. QED
  BY <1>1, <1>2, <1>3 DEF Command

-----------------------------------------------------------------------------
(* The lock the clients rely on *)

LEMMA InitSeen == Init => Promise!Init
<1>1. \A s : s \notin DOMAIN <<>>
  OBVIOUS
<1>2. QED
  BY <1>1 DEF Init, EmptyTable, usedBy, Promise!Init, Promise!Free

\* A table that clients see one step of a lock in makes a step of SharedExclusive.
LEMMA SeenIsStep ==
    ASSUME Seen(table, table')
    PROVE  [Promise!Next]_usedBy
<1>1. /\ usedBy = [r \in Resource |-> UseOf(table, r)]
      /\ usedBy' = [r \in Resource |-> UseOf(table', r)]
  BY DEF usedBy, UseOf
<1>2. CASE \A r \in Resource : UseOf(table', r) = UseOf(table, r)
  BY <1>1, <1>2
<1>3. ASSUME NEW r \in Resource,
             Entered(UseOf(table, r), UseOf(table', r)) \/ Left(UseOf(table, r), UseOf(table', r)),
             \A s \in Resource \ {r} : UseOf(table', s) = UseOf(table, s)
      PROVE  Promise!Next
  <2>1. usedBy[r] = UseOf(table, r) /\ usedBy' = [usedBy EXCEPT ![r] = UseOf(table', r)]
    BY <1>1, <1>3
  <2>2. CASE Entered(UseOf(table, r), UseOf(table', r))
    <3>1. Promise!Enter(r)
      BY <2>1, <2>2 DEF Entered, Promise!Enter
    <3>2. QED
      BY <3>1 DEF Promise!Next
  <2>3. CASE Left(UseOf(table, r), UseOf(table', r))
    <3>1. Promise!Leave(r)
      BY <2>1, <2>3 DEF Left, Promise!Leave
    <3>2. QED
      BY <3>1 DEF Promise!Next
  <2>4. QED
    BY <1>3, <2>2, <2>3
<1>4. QED
  BY <1>2, <1>3 DEF Seen

LEMMA NextSeen == LockInvariant /\ [Next]_vars => [Promise!Next]_usedBy
<1> SUFFICES ASSUME LockInvariant, [Next]_vars PROVE [Promise!Next]_usedBy
  OBVIOUS
<1>1. CASE Apply
  <2>1. backlog # <<>> /\ Head(backlog) \in Command
    BY <1>1 DEF Apply, LockInvariant, TypeOK
  <2>2. Seen(table, table')
    BY <1>1, <2>1, CommandSeen DEF Apply, LockInvariant
  <2>3. QED
    BY <2>2, SeenIsStep
<1>2. CASE UNCHANGED table
  BY <1>2 DEF usedBy
<1>3. Apply \/ UNCHANGED table
  BY DEF Next, vars, StartAcquire, AcquireElsewhere, Release, CallStep, ProposeTimesOut,
         WaitTimesOut, CancelReturns, CancelElsewhere, RaftStep, LeaderCommits,
         FollowerCommits, ChangeLeader, Truncate, CutOff, TaskStep, DetectDeadlock, CheckTimeouts,
         AbortNext, ReleaseExpired
<1>4. QED
  BY <1>1, <1>2, <1>3

\* Whatever commands are committed in whatever order, every resource is used as a
\* shared/exclusive lock: nobody enters a resource that is written, readers join readers,
\* and only the last to leave hands it over (_apply_acquire, _apply_release, _grant_next).
THEOREM LockIsKept == Spec => KeepsPromise
<1>1. QED
  BY InitLock, NextLock, InitSeen, NextSeen, PTL DEF Spec, KeepsPromise, Promise!Spec

-----------------------------------------------------------------------------
(* The log the lock manager relies on *)

LEMMA InitLogged == Init => CommandQueue!Init
  BY DEF Init, CommandQueue!Init

\* A command behind the others leaves the committed ones alone.
LEMMA LogIsChange ==
    ASSUME TypeOK, NEW cmd \in Command, Log(cmd), UNCHANGED committed
    PROVE  CommandQueue!Change
<1>1. backlog \in Seq(Command) /\ committed \in Nat /\ committed <= Len(backlog)
  BY DEF TypeOK
<1>2. /\ backlog' \in Seq(Command)
      /\ Len(backlog') = Len(backlog) + 1
      /\ \A i \in 1..Len(backlog) : backlog'[i] = backlog[i]
  BY <1>1 DEF Log
<1>3. SubSeq(backlog', 1, committed) = SubSeq(backlog, 1, committed)
  BY <1>1, <1>2
<1>4. QED
  BY <1>1, <1>2, <1>3 DEF CommandQueue!Change

LEMMA NextLogged == LockInvariant /\ [Next]_vars => [CommandQueue!Next]_<<backlog, committed>>
<1> SUFFICES ASSUME LockInvariant, [Next]_vars
             PROVE  CommandQueue!Change \/ CommandQueue!Apply \/ UNCHANGED <<backlog, committed>>
  BY DEF CommandQueue!Next
<1>1. TypeOK /\ backlog \in Seq(Command) /\ committed \in Nat /\ committed <= Len(backlog)
  BY DEF LockInvariant, TypeOK
<1>2. \A w \in Wish : AcquireCommand(w) \in Command /\ CancelCommand(w) \in Command
  BY DEF AcquireCommand, CancelCommand, Command
<1>3. \A c \in Client, r \in Resource : ReleaseCommand(c, r) \in Command
  BY DEF ReleaseCommand, Command
<1>4. CASE \E cmd \in Command : Log(cmd) /\ UNCHANGED committed
  BY <1>1, <1>4, LogIsChange
<1>5. CASE LeaderCommits \/ FollowerCommits
  <2>1. backlog' = backlog /\ committed' = committed + 1 /\ committed < Len(backlog)
    BY <1>5 DEF LeaderCommits, FollowerCommits
  <2>2. QED
    BY <1>1, <2>1 DEF CommandQueue!Change
<1>6. CASE Truncate
  <2>1. PICK k \in committed .. Len(backlog) - 1 :
           backlog' = SubSeq(backlog, 1, k) /\ committed' = committed
    BY <1>6 DEF Truncate, CutOff
  <2>2. k \in Nat /\ committed <= k /\ k <= Len(backlog) /\ committed' = committed
    BY <1>1, <2>1
  <2>3. /\ backlog' \in Seq(Command)
        /\ Len(backlog') = k
        /\ \A i \in 1..k : backlog'[i] = backlog[i]
    BY <1>1, <2>1, <2>2
  <2>4. SubSeq(backlog', 1, committed) = SubSeq(backlog, 1, committed)
    BY <1>1, <2>2, <2>3
  <2>5. QED
    BY <1>1, <2>2, <2>3, <2>4 DEF CommandQueue!Change
<1>7. CASE Apply
  BY <1>7 DEF Apply, CommandQueue!Apply
<1>8. \/ \E cmd \in Command : Log(cmd) /\ UNCHANGED committed
      \/ LeaderCommits \/ FollowerCommits \/ Truncate \/ Apply
      \/ UNCHANGED <<backlog, committed>>
  <2> USE DEF raftVars
  <2>1. ASSUME NEW w \in Wish, StartAcquire(w) \/ AcquireElsewhere(w)
        PROVE  \E cmd \in Command : Log(cmd) /\ UNCHANGED committed
    BY <1>2, <2>1 DEF StartAcquire, AcquireElsewhere
  <2>2. ASSUME NEW c \in Client, NEW r \in Resource, Release(c, r)
        PROVE  \E cmd \in Command : Log(cmd) /\ UNCHANGED committed
    BY <1>3, <2>2 DEF Release
  <2>3. ASSUME NEW w \in calls, CallStep(w)
        PROVE  \/ \E cmd \in Command : Log(cmd) /\ UNCHANGED committed
               \/ UNCHANGED <<backlog, committed>>
    <3>1. w \in Wish
      BY <1>1 DEF TypeOK
    <3>2. QED
      BY <1>2, <2>3, <3>1 DEF CallStep, ProposeTimesOut, WaitTimesOut, CancelReturns, CancelElsewhere
  <2>4. CASE RaftStep
    BY <2>4 DEF RaftStep, ChangeLeader
  <2>5. CASE TaskStep
    <3>1. ASSUME NEW p \in Client \X Resource, ProposeRelease(p), UNCHANGED committed
          PROVE  \/ \E cmd \in Command : Log(cmd) /\ UNCHANGED committed
                 \/ UNCHANGED <<backlog, committed>>
      BY <1>3, <3>1 DEF ProposeRelease
    <3>2. aborting \subseteq Client \X Resource /\ expiring \subseteq Client \X Resource
      BY <1>1 DEF TypeOK
    <3>3. CASE DetectDeadlock \/ CheckTimeouts
      BY <3>3 DEF DetectDeadlock, CheckTimeouts
    <3>4. ASSUME NEW p \in aborting, AbortNext(p)
          PROVE  p \in Client \X Resource /\ ProposeRelease(p) /\ UNCHANGED committed
      BY <3>2, <3>4 DEF AbortNext
    <3>5. ASSUME NEW p \in expiring, ReleaseExpired(p)
          PROVE  p \in Client \X Resource /\ ProposeRelease(p) /\ UNCHANGED committed
      BY <3>2, <3>5 DEF ReleaseExpired
    <3>6. QED
      BY <2>5, <3>1, <3>3, <3>4, <3>5 DEF TaskStep
  <2>6. CASE UNCHANGED vars
    BY <2>6 DEF vars
  <2>7. QED
    BY <2>1, <2>2, <2>3, <2>4, <2>5, <2>6 DEF Next
<1>9. QED
  BY <1>4, <1>5, <1>6, <1>7, <1>8

\* The lock manager, its log and its periodic tasks never undo or reorder what is committed:
\* of Raft they use the contract CommandLog states, and nothing else.
THEOREM LogIsContract == Spec => LogOnlyCommits
<1>1. QED
  BY InitLock, NextLock, InitLogged, NextLogged, PTL
     DEF Spec, LogOnlyCommits, CommandQueue!Spec
====
