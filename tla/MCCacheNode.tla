---- MODULE MCCacheNode ----
(***************************************************************************)
(* Instances of CacheNode for TLC.                                         *)
(***************************************************************************)
EXTENDS CacheNode, TLC

\* What docker-compose.yml gives: no node finds its own address in CLUSTER_NODES.
AllNodes == [n \in Node |-> Node]

Symmetry == Permutations(Node) \cup Permutations(Key) \cup Permutations(CallId)
====
