---- MODULE LockManager ----
(***************************************************************************)
(* DistributedLockManager (src/src/nodes/lock_manager.py) on one node: the *)
(* coroutines that wait in acquire, the deadlock detector and the timeout  *)
(* checker, around the lock table.                                         *)
(*                                                                         *)
(* Raft is here what the lock manager uses of it: a log of commands whose  *)
(* committed part only grows, and propose.  Propose keeps the index of a   *)
(* command, not the command: it answers True once the node, leading,       *)
(* commits up to that index, whatever is there by then, and False when     *)
(* the node does not lead or after five seconds, whatever becomes of the   *)
(* command later.                                                          *)
(***************************************************************************)
EXTENDS LockTable

CONSTANT
    MaxBacklog    \* bound: commands are proposed only while fewer than this wait to be applied

ASSUME BacklogAssumption == MaxBacklog \in Nat

VARIABLES
    table,      \* the lock table of this node
    backlog,    \* the commands of the Raft log after last_applied
    committed,  \* how many of them are committed
    leads,      \* raft.state = LEADER
    calls,      \* the wishes of the calls of acquire made so far, on any node
    phase,      \* how far the call with a request id is
    aborting,   \* _abort_client: the locks of victims still to be aborted
    expiring    \* _timeout_checker: the expired holders still to be released

raftVars == <<backlog, committed, leads>>
callVars == <<calls, phase>>
taskVars == <<aborting, expiring>>
vars == <<table, backlog, committed, leads, calls, phase, aborting, expiring>>

\* "proposing": propose has not returned; "unheard": nor has it, but the lock was granted;
\* "overwritten": nor has it, and another leader's log has replaced the command;
\* "waiting": propose answered True and the lock is not granted; "stranded": propose
\* answered True for the index of a command that was replaced; "cancelling":
\* wait_timeout is over; "elsewhere": the call was made on another node.
Phase == {"unused", "proposing", "unheard", "overwritten", "waiting", "stranded",
          "cancelling", "granted", "denied", "elsewhere"}

InPropose == {"proposing", "unheard", "overwritten"}
AfterTrue(p) ==
    CASE p = "proposing"   -> "waiting"
      [] p = "unheard"     -> "granted"
      [] p = "overwritten" -> "stranded"

AcquireCommand(w)    == [op |-> "acquire", wish |-> w]
CancelCommand(w)     == [op |-> "cancel", wish |-> w]
ReleaseCommand(c, r) == [op |-> "release", client |-> c, resource |-> r]

Command ==
    [op : {"acquire", "cancel"}, wish : Wish]
        \cup [op : {"release"}, client : Client, resource : Resource]

Room == Len(backlog) < MaxBacklog

Log(cmd) == backlog' = Append(backlog, cmd)

-----------------------------------------------------------------------------
Init ==
    /\ table = EmptyTable
    /\ backlog = <<>>
    /\ committed = 0
    /\ leads = TRUE
    /\ calls = {}
    /\ phase = [id \in Request |-> "unused"]
    /\ aborting = {}
    /\ expiring = {}

-----------------------------------------------------------------------------
(* acquire and release *)

\* The part of acquire before its first await (elsewhere than on a leader it
\* answers DENIED at once).
StartAcquire(w) ==
    /\ leads
    /\ Room
    /\ phase[w.id] = "unused"
    /\ calls' = calls \cup {w}
    /\ phase' = [phase EXCEPT ![w.id] = "proposing"]
    /\ Log(AcquireCommand(w))
    /\ UNCHANGED <<table, committed, leads, taskVars>>

\* propose answers False: the call is over, its command is not.
ProposeTimesOut(w) ==
    /\ phase[w.id] \in InPropose
    /\ phase' = [phase EXCEPT ![w.id] = "denied"]
    /\ UNCHANGED <<table, raftVars, calls, taskVars>>

OnlyLeaderGivesUp(w) ==
    /\ leads
    /\ phase[w.id] \in {"waiting", "stranded"}
    /\ phase' = [phase EXCEPT ![w.id] = "cancelling"]
    /\ Log(CancelCommand(w))
    /\ UNCHANGED <<table, committed, leads, calls, taskVars>>

\* wait_timeout is over: the future is forgotten and a cancellation proposed,
\* which a node that no longer leads refuses.
WaitTimesOut(w) ==
    /\ phase[w.id] \in {"waiting", "stranded"}
    /\ IF leads
       THEN /\ phase' = [phase EXCEPT ![w.id] = "cancelling"]
            /\ Log(CancelCommand(w))
       ELSE /\ phase' = [phase EXCEPT ![w.id] = "denied"]
            /\ UNCHANGED backlog
    /\ UNCHANGED <<table, committed, leads, calls, taskVars>>

\* The proposal of the cancellation returns, committed or timed out.
CancelReturns(w) ==
    /\ phase[w.id] = "cancelling"
    /\ phase' = [phase EXCEPT ![w.id] = "denied"]
    /\ UNCHANGED <<table, raftVars, calls, taskVars>>

\* A client asks for the release of a lock, whether it holds it or not, here or
\* at the node that leads now.
Release(c, r) ==
    /\ Room
    /\ Log(ReleaseCommand(c, r))
    /\ UNCHANGED <<table, committed, leads, callVars, taskVars>>

\* acquire is called, or gives up, on the node that leads now.
AcquireElsewhere(w) ==
    /\ ~leads
    /\ Room
    /\ phase[w.id] = "unused"
    /\ calls' = calls \cup {w}
    /\ phase' = [phase EXCEPT ![w.id] = "elsewhere"]
    /\ Log(AcquireCommand(w))
    /\ UNCHANGED <<table, committed, leads, taskVars>>

CancelElsewhere(w) ==
    /\ ~leads
    /\ Room
    /\ phase[w.id] = "elsewhere"
    /\ Log(CancelCommand(w))
    /\ UNCHANGED <<table, committed, leads, callVars, taskVars>>

-----------------------------------------------------------------------------
(* What Raft does *)

Queued(t) == UNION {{t.locks[r].waiters[i] : i \in DOMAIN t.locks[r].waiters}
                        : r \in DOMAIN t.locks}

\* The calls of this node whose command is in the log, at position i or later.
ProposedFrom(i) ==
    {w.id : w \in {v \in calls : \E j \in i..Len(backlog) : backlog[j] = AcquireCommand(v)}}

\* The leader commits one more command and sets the futures registered up to its
\* index. A command beyond it cannot be meant; a command that was replaced had an
\* index that may be reached; and a future may be gone, since a propose that times
\* out removes whatever is registered at its index.
LeaderCommits ==
    /\ leads
    /\ committed < Len(backlog)
    /\ committed' = committed + 1
    /\ \E told \in SUBSET {id \in Request : phase[id] \in InPropose} :
          /\ told \cap ProposedFrom(committed + 2) = {}
          /\ phase' = [id \in Request |->
                          IF id \in told THEN AfterTrue(phase[id]) ELSE phase[id]]
    /\ UNCHANGED <<table, backlog, leads, calls, taskVars>>

\* A follower learns of a commit; that sets no future.
FollowerCommits ==
    /\ ~leads
    /\ committed < Len(backlog)
    /\ committed' = committed + 1
    /\ UNCHANGED <<table, backlog, leads, callVars, taskVars>>

ChangeLeader ==
    /\ leads' = ~leads
    /\ UNCHANGED <<table, backlog, committed, callVars, taskVars>>

\* The log is cut off after position k; the futures of what is cut off stay registered.
CutOff(k) ==
    /\ backlog' = SubSeq(backlog, 1, k)
    /\ phase' = [id \in Request |->
                    IF phase[id] = "proposing" /\ id \in ProposedFrom(k + 1)
                    THEN "overwritten" ELSE phase[id]]
    /\ UNCHANGED <<table, committed, leads, calls, taskVars>>

TruncateCommitted == ~leads /\ \E k \in 0 .. Len(backlog) - 1 : CutOff(k)

\* Another leader's log replaces commands that were not committed; they do not come
\* back, which only a third leader could bring about that still has them.
Truncate == ~leads /\ \E k \in committed .. Len(backlog) - 1 : CutOff(k)

ApplyCommand(t, cmd) ==
    CASE cmd.op = "acquire" -> ApplyAcquire(t, cmd.wish)
      [] cmd.op = "cancel"  -> ApplyCancel(t, cmd.wish.id, cmd.wish.resource)
      [] cmd.op = "release" -> ApplyRelease(t, cmd.client, cmd.resource)

\* A future that acquire has given up is not in _pending_futures any more.
Hear(ids) ==
    phase' = [id \in Request |->
                CASE id \in ids /\ phase[id] = "proposing" -> "unheard"
                  [] id \in ids /\ phase[id] = "waiting" -> "granted"
                  [] OTHER -> phase[id]]

Apply ==
    /\ committed > 0
    /\ table' = ApplyCommand(table, Head(backlog))
    /\ Hear(table'.granted \ table.granted)
    /\ backlog' = Tail(backlog)
    /\ committed' = committed - 1
    /\ UNCHANGED <<leads, calls, taskVars>>

-----------------------------------------------------------------------------
(* The periodic tasks *)

\* The detector finds a cycle and lists the victim's locks; which client of the
\* cycle is its last depends on the order of dictionaries and sets.
DetectDeadlock ==
    /\ aborting = {}
    /\ \E c \in OnCycle(table.wfg) : aborting' = {c} \X table.clientLocks[c]
    /\ UNCHANGED <<table, raftVars, callVars, expiring>>

\* One release proposed for a lock on a task's list; without the lead it is skipped.
ProposeRelease(p) ==
    IF leads THEN Room /\ Log(ReleaseCommand(p[1], p[2])) ELSE UNCHANGED backlog

AbortNext(p) ==
    /\ aborting' = aborting \ {p}
    /\ ProposeRelease(p)
    /\ UNCHANGED <<table, committed, leads, callVars, expiring>>

\* The holders of some locks whose time is over, all listed before the first is released.
CheckTimeouts ==
    /\ expiring = {}
    /\ \E R \in SUBSET DOMAIN table.locks :
          expiring' = UNION {table.locks[r].holders \X {r} : r \in R}
    /\ UNCHANGED <<table, raftVars, callVars, aborting>>

ReleaseExpired(p) ==
    /\ expiring' = expiring \ {p}
    /\ ProposeRelease(p)
    /\ UNCHANGED <<table, committed, leads, callVars, aborting>>

-----------------------------------------------------------------------------
CallStep(w) ==
    \/ ProposeTimesOut(w)
    \/ WaitTimesOut(w)
    \/ CancelReturns(w)
    \/ CancelElsewhere(w)

RaftStep == LeaderCommits \/ FollowerCommits \/ ChangeLeader \/ Truncate \/ Apply

TaskStep ==
    \/ DetectDeadlock
    \/ CheckTimeouts
    \/ \E p \in aborting : AbortNext(p)
    \/ \E p \in expiring : ReleaseExpired(p)

Next ==
    \/ \E w \in Wish : StartAcquire(w) \/ AcquireElsewhere(w)
    \/ \E c \in Client, r \in Resource : Release(c, r)
    \/ \E w \in calls : CallStep(w)
    \/ RaftStep
    \/ TaskStep

Spec == Init /\ [][Next]_vars

\* Every wait of acquire has a timeout.
FairSpec ==
    /\ Spec
    /\ \A id \in Request :
          /\ WF_vars(\E w \in calls : w.id = id /\ ProposeTimesOut(w))
          /\ WF_vars(\E w \in calls : w.id = id /\ WaitTimesOut(w))
          /\ WF_vars(\E w \in calls : w.id = id /\ CancelReturns(w))

-----------------------------------------------------------------------------
(* Properties *)

TypeOK ==
    /\ IsTable(table)
    /\ backlog \in Seq(Command)
    /\ committed \in 0..Len(backlog)
    /\ leads \in BOOLEAN
    /\ calls \subseteq Wish
    /\ phase \in [Request -> Phase]
    /\ aborting \subseteq Client \X Resource
    /\ expiring \subseteq Client \X Resource

\* An exclusive lock has one holder, a lock in the table has at least one: a
\* lock nobody holds would keep its waiters for ever (_apply_release, _grant_next).
MutualExclusion ==
    \A r \in DOMAIN table.locks :
        LET lock == table.locks[r] IN
        /\ lock.holders # {}
        /\ lock.type = Exclusive => \A c, d \in lock.holders : c = d

\* _client_locks says the same as the holders: it is what a victim is made to release.
ClientLocksAgree ==
    \A c \in Client :
        table.clientLocks[c] = {r \in DOMAIN table.locks : c \in table.locks[r].holders}

\* Whoever an edge of the wait-for graph points at holds a lock, so that the
\* victim of any cycle has something to give up (remove_node, add_wait).
EdgesPointAtHolders == \A e \in table.wfg : table.clientLocks[e[2]] # {}

\* A call that waits is in a queue or its command is still to be applied: its
\* request is never dropped by a release, a cancellation or a handover. The calls
\* that wait for nothing are those whose command another leader's log replaced.
WaitingIsQueued ==
    \A w \in calls :
        LET inPlace == w \in Queued(table) \/ \E i \in 1..committed : backlog[i] = AcquireCommand(w)
        IN  /\ phase[w.id] = "waiting" => inPlace
            /\ phase[w.id] = "stranded" => ~inPlace

\* A request is in one queue once, and in none after it was granted.
QueuedOnce ==
    \A r, s \in DOMAIN table.locks :
        \A i \in DOMAIN table.locks[r].waiters, j \in DOMAIN table.locks[s].waiters :
            LET v == table.locks[r].waiters[i]
                w == table.locks[s].waiters[j]
            IN  /\ v.id \notin table.granted
                /\ v.id = w.id => r = s /\ i = j

\* The lock table implements the lock every client has in mind.
usedBy == [r \in Resource |->
              IF r \in DOMAIN table.locks
              THEN [type |-> table.locks[r].type, holders |-> table.locks[r].holders]
              ELSE [type |-> "free", holders |-> {}]]
Promise == INSTANCE SharedExclusive WITH held <- usedBy
KeepsPromise == Promise!Spec

\* Of the log this module assumes nothing but the contract Raft keeps on every node.
CommandQueue == INSTANCE CommandLog
LogOnlyCommits == CommandQueue!Spec

\* A call of acquire always gets an answer.
AcquireReturns ==
    \A id \in Request :
        phase[id] \in InPropose \cup {"waiting", "stranded", "cancelling"}
            ~> phase[id] \in {"granted", "denied"}

\* When two or more clients wait for each other in a circle, the wait-for graph
\* has a cycle (detect_cycle; the README's "Deadlock iff there is a cycle in G").
DeadlockIsCycle ==
    OnCycle({e \in Waits(table) : e[1] # e[2]}) # {} => OnCycle(table.wfg) # {}
====
