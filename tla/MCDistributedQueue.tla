---- MODULE MCDistributedQueue ----
(***************************************************************************)
(* Instances of DistributedQueue for TLC.                                  *)
(***************************************************************************)
EXTENDS DistributedQueue, TLC

Symmetry == Permutations(Node) \cup Permutations(Message)
====
