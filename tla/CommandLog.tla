---- MODULE CommandLog ----
(***************************************************************************)
(* The contract between Raft and the state machine above it, as one node   *)
(* sees it: a backlog of commands that are still to be applied, of which a *)
(* prefix is committed.  What is committed stays and is applied in order;  *)
(* what is not may be replaced by another leader's commands at any time.   *)
(* Raft provides this on every node, and LockManager is built on it.       *)
(***************************************************************************)
EXTENDS Naturals, Sequences

CONSTANT Command

VARIABLES
    backlog,     \* the commands behind the last one that was applied
    committed    \* how many of them are committed

Init == backlog = <<>> /\ committed = 0

\* The commands behind the committed ones change: a leader appends, a follower
\* follows another leader.  More of them may be committed, at once or alone.
Change ==
    /\ backlog' \in Seq(Command)
    /\ committed' \in committed .. Len(backlog')
    /\ SubSeq(backlog', 1, committed) = SubSeq(backlog, 1, committed)

Apply ==
    /\ committed > 0
    /\ backlog' = Tail(backlog)
    /\ committed' = committed - 1

Next == Change \/ Apply

Spec == Init /\ [][Next]_<<backlog, committed>>
====
