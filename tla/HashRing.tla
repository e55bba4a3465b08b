---- MODULE HashRing ----
(***************************************************************************)
(* ConsistentHashRing (src/src/nodes/queue_node.py): nodes at the points   *)
(* of a circle that their virtual nodes hash to, and a key at the node     *)
(* that comes next.                                                        *)
(*                                                                         *)
(* An operator named for what it gets wrong is a slip the properties must  *)
(* notice; no other definition uses it.                                    *)
(***************************************************************************)
EXTENDS Naturals, FiniteSets, FiniteSetsExt

CONSTANTS
    Member,     \* node ids
    Size,       \* how many values _hash has
    Points,     \* Points[n]: the hashes of n's virtual nodes
    NoMember    \* get_node of an empty ring

Hash == 0 .. Size - 1

\* No two of MD5's hashes are taken to collide.
ASSUME RingAssumption ==
    /\ Size \in Nat \ {0}
    /\ Points \in [Member -> SUBSET Hash]
    /\ \A n \in Member : Points[n] # {}
    /\ \A m, n \in Member : m # n => Points[m] \cap Points[n] = {}
    /\ NoMember \notin Member

VARIABLES
    ring,       \* _ring: the node at each point; _sorted_keys is its domain
    members     \* the nodes that were added and not removed since

ringVars == <<ring, members>>

-----------------------------------------------------------------------------
Ahead(r, h) == {k \in DOMAIN r : h <= k}

NextPointOrLast(r, h) == IF Ahead(r, h) # {} THEN Min(Ahead(r, h)) ELSE Max(DOMAIN r)

\* The point with the number of h: modular instead of consistent hashing.
NumberedPoint(r, h) ==
    CHOOSE k \in DOMAIN r : Cardinality({j \in DOMAIN r : j < k}) = h % Cardinality(DOMAIN r)

\* The first point from h on; behind the last point the circle starts over.
NextPoint(r, h) == IF Ahead(r, h) # {} THEN Min(Ahead(r, h)) ELSE Min(DOMAIN r)

\* get_node for a key with hash h.
GetNode(r, h) == IF DOMAIN r = {} THEN NoMember ELSE r[NextPoint(r, h)]

-----------------------------------------------------------------------------
RingInit ==
    /\ ring = [h \in {} |-> NoMember]
    /\ members = {}

AddNode(n) ==
    /\ ring' = [h \in DOMAIN ring \cup Points[n] |-> IF h \in Points[n] THEN n ELSE ring[h]]
    /\ members' = members \cup {n}

RemoveNode(n) ==
    /\ ring' = [h \in {k \in DOMAIN ring : ring[k] # n} |-> ring[h]]
    /\ members' = members \ {n}

RingNext == \E n \in Member : AddNode(n) \/ RemoveNode(n)

RingSpec == RingInit /\ [][RingNext]_ringVars

-----------------------------------------------------------------------------
(* Properties *)

\* How far the circle leads from a to b.
Clockwise(a, b) == IF a <= b THEN b - a ELSE b + Size - a

\* In whatever order nodes have come and gone, a key is at the member that comes next
\* on the circle: all who know the same members agree (add_node, remove_node, get_node).
NearestMember ==
    members # {} => \A h \in Hash :
        /\ GetNode(ring, h) \in members
        /\ \E p \in Points[GetNode(ring, h)] :
              \A m \in members : \A q \in Points[m] : Clockwise(h, p) <= Clockwise(h, q)

\* A node that joins takes keys from others and moves none between them, and a node
\* that leaves gives up its own only (README: "Minimal data movement saat node join/leave").
MinimalMovement ==
    [][\A h \in Hash :
         LET old == GetNode(ring, h)
             new == GetNode(ring', h)
         IN  old # new => new \in members' \ members \/ old \in members \ members']_ringVars
====
