---- MODULE MCLockManager ----
(***************************************************************************)
(* Instances of LockManager for TLC.                                       *)
(***************************************************************************)
EXTENDS LockManager, TLC

\* Bounds of the lock run: one call on another node, and one periodic task with a
\* list at a time. What a task proposes is a release, and those any client may ask
\* for at any time as well.
OneElsewhere == Cardinality({id \in Request : phase[id] = "elsewhere"}) <= 1
OneTask      == expiring = {} \/ aborting = {}

Symmetry == Permutations(Client) \cup Permutations(Resource) \cup Permutations(Request)
====
