---- MODULE PartsProofs ----
(***************************************************************************)
(* Proofs about the three parts that share no state with others: the       *)
(* consistent hash ring, for any nodes and any placement of their virtual  *)
(* nodes; the failure detector, for any peers; and the LFU store, for any  *)
(* keys and capacity.                                                      *)
(***************************************************************************)
EXTENDS HashRing, LFUCache, FailureDetector, FiniteSetTheorems,
        WellFoundedInduction, TLAPS

-----------------------------------------------------------------------------
(* The hash ring *)

\* The ring has the points of the members, and each of them leads to its owner.
RingInvariant ==
    /\ members \subseteq Member
    /\ DOMAIN ring = UNION {Points[m] : m \in members}
    /\ ring = [h \in DOMAIN ring |-> ring[h]]
    /\ \A m \in members : \A h \in Points[m] : ring[h] = m

-----------------------------------------------------------------------------
(* The next point *)

LEMMA LeastExists ==
    ASSUME NEW S \in SUBSET Nat, S # {}
    PROVE  \E x \in S : \A y \in S : x <= y
<1> DEFINE R == OpToRel(<, Nat)
<1>1. \A x, y \in Nat : <<y, x>> \in R <=> y < x
  BY DEF OpToRel
<1>2. IsWellFoundedOn(R, Nat)
  BY NatLessThanWellFounded
<1> HIDE DEF R
<1>3. PICK x \in S : \A y \in S : ~(<<y, x>> \in R)
  BY <1>2, WFMin
<1>4. ASSUME NEW y \in S PROVE x <= y
  <2>1. x \in Nat /\ y \in Nat /\ ~(<<y, x>> \in R)
    BY <1>3
  <2>2. ~(y < x)
    BY <1>1, <2>1
  <2>3. QED
    BY <2>1, <2>2
<1>5. QED
  BY <1>4

LEMMA MinIsLeast ==
    ASSUME NEW S \in SUBSET Nat, S # {}
    PROVE  Min(S) \in S /\ \A y \in S : Min(S) <= y
BY LeastExists DEF Min

\* The next point is the one the circle leads to first.
LEMMA NextIsNearest ==
    ASSUME NEW r, DOMAIN r \subseteq Hash, DOMAIN r # {}, NEW h \in Hash
    PROVE  /\ NextPoint(r, h) \in DOMAIN r
           /\ \A q \in DOMAIN r : Clockwise(h, NextPoint(r, h)) <= Clockwise(h, q)
<1>1. Size \in Nat /\ \A k \in Hash : k \in Nat /\ k < Size
  BY RingAssumption DEF Hash
<1>2. Ahead(r, h) \in SUBSET Nat /\ DOMAIN r \in SUBSET Nat
  BY <1>1 DEF Ahead
<1>3. CASE Ahead(r, h) # {}
  <2> DEFINE p == Min(Ahead(r, h))
  <2>1. p \in Ahead(r, h) /\ \A q \in Ahead(r, h) : p <= q
    BY <1>2, <1>3, MinIsLeast
  <2>2. NextPoint(r, h) = p
    BY <1>3 DEF NextPoint
  <2> HIDE DEF p
  <2>3. p \in DOMAIN r /\ p \in Hash /\ h <= p
    BY <2>1 DEF Ahead
  <2>4. ASSUME NEW q \in DOMAIN r PROVE Clockwise(h, p) <= Clockwise(h, q)
    <3>1. q \in Hash /\ (h <= q => p <= q)
      BY <2>1 DEF Ahead
    <3>2. QED
      BY <1>1, <2>3, <3>1 DEF Clockwise
  <2>5. QED
    BY <2>2, <2>3, <2>4
<1>4. CASE Ahead(r, h) = {}
  <2> DEFINE p == Min(DOMAIN r)
  <2>1. p \in DOMAIN r /\ \A q \in DOMAIN r : p <= q
    BY <1>2, MinIsLeast
  <2>2. NextPoint(r, h) = p
    BY <1>4 DEF NextPoint
  <2> HIDE DEF p
  <2>3. ASSUME NEW q \in DOMAIN r PROVE Clockwise(h, p) <= Clockwise(h, q)
    <3>1. q \in Hash /\ p \in Hash /\ p <= q /\ ~(h <= q) /\ ~(h <= p)
      BY <1>4, <2>1 DEF Ahead
    <3>2. QED
      BY <1>1, <3>1 DEF Clockwise
  <2>4. QED
    BY <2>1, <2>2, <2>3
<1>5. QED
  BY <1>3, <1>4

\* No two points are equally far.
LEMMA NearestIsUnique ==
    ASSUME NEW h \in Hash, NEW p \in Hash, NEW q \in Hash, Clockwise(h, p) = Clockwise(h, q)
    PROVE  p = q
<1>1. Size \in Nat /\ \A k \in Hash : k \in Nat /\ k < Size
  BY RingAssumption DEF Hash
<1>2. QED
  BY <1>1 DEF Clockwise

\* When points come or go, the next one is the same as long as it is there before and after.
LEMMA SameNext ==
    ASSUME NEW r, NEW s, DOMAIN r \subseteq DOMAIN s, DOMAIN s \subseteq Hash,
           NEW h \in Hash, NextPoint(s, h) \in DOMAIN r
    PROVE  NextPoint(r, h) = NextPoint(s, h)
<1> DEFINE p == NextPoint(r, h)
           q == NextPoint(s, h)
<1>1. p \in DOMAIN r /\ Clockwise(h, p) <= Clockwise(h, q)
  <2>1. DOMAIN r # {} /\ DOMAIN r \subseteq Hash
    OBVIOUS
  <2>2. QED
    BY <2>1, NextIsNearest
<1>2. Clockwise(h, q) <= Clockwise(h, p)
  <2>1. DOMAIN s # {} /\ p \in DOMAIN s
    BY <1>1
  <2>2. QED
    BY <2>1, NextIsNearest
<1>3. p \in Hash /\ q \in Hash
  BY <1>1
<1> HIDE DEF p, q
<1>4. Clockwise(h, p) \in Int /\ Clockwise(h, q) \in Int
  BY <1>3, RingAssumption DEF Clockwise, Hash
<1>5. Clockwise(h, p) = Clockwise(h, q)
  BY <1>1, <1>2, <1>4
<1>6. QED
  BY <1>3, <1>5, NearestIsUnique DEF p, q

-----------------------------------------------------------------------------
(* The invariant *)

LEMMA PointsOnRing ==
    ASSUME RingInvariant
    PROVE  /\ DOMAIN ring \subseteq Hash
           /\ \A h \in DOMAIN ring : ring[h] \in members /\ h \in Points[ring[h]]
           /\ DOMAIN ring = {} => members = {}
BY RingAssumption DEF RingInvariant

LEMMA InitRing == RingInit => RingInvariant
BY DEF RingInit, RingInvariant

LEMMA AddKeepsRing ==
    ASSUME RingInvariant, NEW n \in Member, AddNode(n)
    PROVE  /\ RingInvariant'
           /\ DOMAIN ring' = DOMAIN ring \cup Points[n]
           /\ \A h \in Points[n] : ring'[h] = n
           /\ \A h \in DOMAIN ring : ring'[h] = ring[h] \/ h \in Points[n]
<1>1. /\ DOMAIN ring' = DOMAIN ring \cup Points[n]
      /\ ring' = [h \in DOMAIN ring' |-> ring'[h]]
      /\ \A h \in Points[n] : ring'[h] = n
      /\ \A h \in DOMAIN ring \ Points[n] : ring'[h] = ring[h]
      /\ members' = members \cup {n}
  BY DEF AddNode
<1>2. \A m \in members' : \A h \in Points[m] : ring'[h] = m
  <2> SUFFICES ASSUME NEW m \in members', NEW h \in Points[m], h \notin Points[n]
               PROVE  ring'[h] = m
    BY <1>1, RingAssumption DEF RingInvariant
  <2>1. m \in members /\ h \in DOMAIN ring
    BY <1>1 DEF RingInvariant
  <2>2. QED
    BY <1>1, <2>1 DEF RingInvariant
<1>3. DOMAIN ring' = UNION {Points[m] : m \in members'}
  BY <1>1 DEF RingInvariant
<1>4. QED
  BY <1>1, <1>2, <1>3 DEF RingInvariant

LEMMA RemoveKeepsRing ==
    ASSUME RingInvariant, NEW n \in Member, RemoveNode(n)
    PROVE  /\ RingInvariant'
           /\ DOMAIN ring' = {h \in DOMAIN ring : ring[h] # n}
           /\ \A h \in DOMAIN ring' : ring'[h] = ring[h]
<1>1. /\ DOMAIN ring' = {h \in DOMAIN ring : ring[h] # n}
      /\ ring' = [h \in DOMAIN ring' |-> ring'[h]]
      /\ \A h \in DOMAIN ring' : ring'[h] = ring[h]
      /\ members' = members \ {n}
  BY DEF RemoveNode
<1>2. ASSUME NEW m \in members', NEW h \in Points[m] PROVE h \in DOMAIN ring' /\ ring'[h] = m
  <2>1. m \in members /\ m # n /\ h \in DOMAIN ring /\ ring[h] = m
    BY <1>1, <1>2 DEF RingInvariant
  <2>2. QED
    BY <1>1, <2>1
<1>3. ASSUME NEW h \in DOMAIN ring' PROVE ring[h] \in members' /\ h \in Points[ring[h]]
  BY <1>1, PointsOnRing
<1>4. DOMAIN ring' = UNION {Points[m] : m \in members'}
  <2>1. \A h : h \in DOMAIN ring' <=> \E m \in members' : h \in Points[m]
    BY <1>2, <1>3
  <2>2. QED
    BY <2>1
<1>5. QED
  BY <1>1, <1>2, <1>4 DEF RingInvariant

LEMMA NextRing == RingInvariant /\ [RingNext]_ringVars => RingInvariant'
<1> SUFFICES ASSUME RingInvariant, [RingNext]_ringVars PROVE RingInvariant'
  OBVIOUS
<1>1. CASE UNCHANGED ringVars
  BY <1>1 DEF RingInvariant, ringVars
<1>2. QED
  BY <1>1, AddKeepsRing, RemoveKeepsRing DEF RingNext

-----------------------------------------------------------------------------
(* What a key can rely on *)

LEMMA InvariantIsNearest == RingInvariant => NearestMember
<1> SUFFICES ASSUME RingInvariant, members # {}, NEW h \in Hash
             PROVE  /\ GetNode(ring, h) \in members
                    /\ \E p \in Points[GetNode(ring, h)] :
                          \A m \in members : \A q \in Points[m] : Clockwise(h, p) <= Clockwise(h, q)
  BY DEF NearestMember
<1> DEFINE p == NextPoint(ring, h)
<1>1. DOMAIN ring \subseteq Hash /\ DOMAIN ring # {}
  BY PointsOnRing
<1>2. p \in DOMAIN ring /\ \A q \in DOMAIN ring : Clockwise(h, p) <= Clockwise(h, q)
  BY <1>1, NextIsNearest
<1>3. GetNode(ring, h) = ring[p]
  BY <1>1 DEF GetNode
<1> HIDE DEF p
<1>4. ring[p] \in members /\ p \in Points[ring[p]]
  BY <1>2, PointsOnRing
<1>5. \A m \in members : Points[m] \subseteq DOMAIN ring
  BY DEF RingInvariant
<1>6. QED
  BY <1>2, <1>3, <1>4, <1>5

\* Whatever nodes have joined and left in whatever order, get_node answers the member whose
\* virtual node comes next on the circle.
THEOREM KeysAreAtNearest == RingSpec => []NearestMember
<1>1. QED
  BY InitRing, NextRing, InvariantIsNearest, PTL DEF RingSpec

\* A key whose next point is there before and after a step does not move.
LEMMA StaysAtPoint ==
    ASSUME NEW r, NEW s, NEW h \in Hash, DOMAIN r # {}, DOMAIN s # {},
           NextPoint(r, h) = NextPoint(s, h), r[NextPoint(r, h)] = s[NextPoint(r, h)]
    PROVE  GetNode(r, h) = GetNode(s, h)
BY DEF GetNode

LEMMA AddMovesLittle ==
    ASSUME RingInvariant, NEW n \in Member, AddNode(n), NEW h \in Hash,
           GetNode(ring, h) # GetNode(ring', h)
    PROVE  GetNode(ring', h) \in members' \ members
<1> DEFINE q == NextPoint(ring', h)
<1>1. /\ RingInvariant'
      /\ DOMAIN ring' = DOMAIN ring \cup Points[n]
      /\ \A k \in Points[n] : ring'[k] = n
      /\ \A k \in DOMAIN ring : ring'[k] = ring[k] \/ k \in Points[n]
  BY AddKeepsRing
<1>2. members' = members \cup {n} /\ Points[n] # {} /\ Points[n] \subseteq Hash
  BY RingAssumption DEF AddNode
<1>3. DOMAIN ring' \subseteq Hash /\ DOMAIN ring' # {}
  BY <1>1, <1>2, PointsOnRing
<1>4. q \in DOMAIN ring' /\ GetNode(ring', h) = ring'[q]
  BY <1>3, NextIsNearest DEF GetNode
<1>5. q \in DOMAIN ring => NextPoint(ring, h) = q
  BY <1>1, <1>3, SameNext
<1> HIDE DEF q
<1>6. CASE q \in DOMAIN ring
  <2>1. ring[q] = ring'[q]
    <3>1. q \in Points[n] => ring[q] = n
      <4>1. ring[q] \in Member /\ q \in Points[ring[q]]
        BY <1>6, PointsOnRing DEF RingInvariant
      <4>2. QED
        BY <4>1, RingAssumption
    <3>2. QED
      BY <1>1, <1>6, <3>1
  <2>2. GetNode(ring, h) = ring[q]
    BY <1>5, <1>6 DEF GetNode
  <2>3. QED
    BY <1>4, <2>1, <2>2
<1>7. CASE q \notin DOMAIN ring
  <2>1. q \in Points[n] /\ ring'[q] = n
    BY <1>1, <1>4, <1>7
  <2>2. n \notin members
    BY <1>7, <2>1 DEF RingInvariant
  <2>3. QED
    BY <1>2, <1>4, <2>1, <2>2
<1>8. QED
  BY <1>6, <1>7

LEMMA RemoveMovesLittle ==
    ASSUME RingInvariant, NEW n \in Member, RemoveNode(n), NEW h \in Hash,
           GetNode(ring, h) # GetNode(ring', h)
    PROVE  GetNode(ring, h) \in members \ members'
<1> DEFINE q == NextPoint(ring, h)
<1>1. /\ DOMAIN ring' = {k \in DOMAIN ring : ring[k] # n}
      /\ \A k \in DOMAIN ring' : ring'[k] = ring[k]
      /\ members' = members \ {n}
  BY RemoveKeepsRing DEF RemoveNode
<1>2. DOMAIN ring # {}
  BY <1>1 DEF GetNode
<1>3. q \in DOMAIN ring /\ GetNode(ring, h) = ring[q] /\ ring[q] \in members
  BY <1>2, NextIsNearest, PointsOnRing DEF GetNode
<1>4. q \in DOMAIN ring' => NextPoint(ring', h) = q
  <2>1. DOMAIN ring' \subseteq DOMAIN ring /\ DOMAIN ring \subseteq Hash
    BY <1>1, PointsOnRing
  <2>2. QED
    BY <2>1, SameNext
<1> HIDE DEF q
<1>5. CASE ring[q] # n
  <2>1. q \in DOMAIN ring' /\ ring'[q] = ring[q]
    BY <1>1, <1>3, <1>5
  <2>2. GetNode(ring', h) = ring[q]
    BY <1>4, <2>1 DEF GetNode
  <2>3. QED
    BY <1>3, <2>2
<1>6. QED
  BY <1>1, <1>3, <1>5

LEMMA StepMovesLittle ==
    RingInvariant /\ [RingNext]_ringVars =>
        [\A h \in Hash :
           LET old == GetNode(ring, h)
               new == GetNode(ring', h)
           IN  old # new => new \in members' \ members \/ old \in members \ members']_ringVars
BY AddMovesLittle, RemoveMovesLittle DEF RingNext

\* A node that joins takes keys and moves none between the others; a node that leaves
\* gives up its own keys only (add_node, remove_node).
THEOREM LittleMoves == RingSpec => MinimalMovement
<1>1. QED
  BY InitRing, NextRing, StepMovesLittle, PTL DEF RingSpec, MinimalMovement

-----------------------------------------------------------------------------
(* The failure detector *)

\* A turn that waits has failures to report, of names that were known and not alive when it
\* began, and no other turn has any.
LoopConsistent ==
    /\ heard \subseteq Name
    /\ overdue \subseteq heard
    /\ known \subseteq Name
    /\ checking \in BOOLEAN
    /\ current \subseteq Name
    /\ failing \subseteq known \ current
    /\ checking <=> failing # {}
    /\ told \in [Name -> {"none", "failed", "recovered"}]

ToldInvariant == LoopConsistent /\ ToldIsKnown

LEMMA AliveIsNames == LoopConsistent => Alive \subseteq Name
BY DEF LoopConsistent, Alive, Monitored, Name

LEMMA FinishTells ==
    ASSUME LoopConsistent, NEW alive \in SUBSET Name, NEW fs \in SUBSET Name,
           Finish(alive, fs), fs \cap alive = {},
           UNCHANGED phiVars,
           \A x \in known \cap alive : told[x] = "recovered",
           \A x \in Name \ alive : x \in fs \/ told[x] \in {"none", "failed"}
    PROVE  ToldInvariant'
<1>1. told' = [x \in Name |-> IF x \in fs THEN "failed"
                              ELSE IF x \in alive \ known THEN "recovered" ELSE told[x]]
  BY DEF Finish
<1>2. known' = alive /\ checking' = FALSE /\ current' = {} /\ failing' = {}
  BY DEF Finish
<1>3. LoopConsistent'
  BY <1>1, <1>2 DEF LoopConsistent, phiVars
<1>4. ASSUME NEW x \in Name
      PROVE  IF x \in alive THEN told'[x] = "recovered" ELSE told'[x] \in {"none", "failed"}
  BY <1>1
<1> QED
  BY <1>2, <1>3, <1>4 DEF ToldInvariant, ToldIsKnown

LEMMA LoopStepTells ==
    ASSUME ToldInvariant, LoopStep
    PROVE  ToldInvariant'
<1>1. Alive \subseteq Name /\ LoopConsistent /\ ToldIsKnown
  BY AliveIsNames DEF ToldInvariant
<1>2. CASE Check /\ known \subseteq Alive
  <2>1. Finish(Alive, {}) /\ UNCHANGED phiVars /\ checking = FALSE
    BY <1>1, <1>2 DEF Check, LoopConsistent
  <2>2. \A x \in known : x \in Name /\ told[x] = "recovered"
    BY <1>1, <2>1 DEF LoopConsistent, ToldIsKnown
  <2>3. \A x \in Name \ Alive : told[x] \in {"none", "failed"}
    BY <1>1, <1>2 DEF ToldIsKnown
  <2> QED
    BY <1>1, <2>1, <2>2, <2>3, FinishTells
<1>3. CASE Check /\ ~(known \subseteq Alive)
  <2>1. /\ checking = FALSE /\ checking' = TRUE
        /\ current' = Alive /\ failing' = known \ Alive /\ known' = known /\ told' = told
        /\ heard' = heard /\ overdue' = overdue
    BY <1>1, <1>3 DEF Check, LoopConsistent, phiVars
  <2>2. LoopConsistent'
    BY <1>1, <1>3, <2>1 DEF LoopConsistent
  <2>3. \A x \in Name : x \in known => told[x] = "recovered"
    BY <1>1, <2>1 DEF ToldIsKnown
  <2>4. \A x \in Name : x \notin known => told[x] \in {"none", "failed"}
    BY <1>1 DEF ToldIsKnown
  <2> QED
    BY <2>1, <2>2, <2>3, <2>4 DEF ToldInvariant, ToldIsKnown
<1>4. ASSUME NEW y \in failing, ReportFailure(y)
      PROVE  ToldInvariant'
  <2>1. checking /\ y \in Name /\ y \in known /\ y \notin current /\ UNCHANGED phiVars
    BY <1>1, <1>4 DEF ReportFailure, LoopConsistent
  <2>2. CASE failing = {y}
    <3>1. Finish(current, {y})
      BY <1>4, <2>2 DEF ReportFailure
    <3>2. \A x \in known \cap current : told[x] = "recovered"
      BY <1>1 DEF LoopConsistent, ToldIsKnown
    <3>3. \A x \in Name \ current : x \in {y} \/ told[x] \in {"none", "failed"}
      BY <1>1, <2>1, <2>2 DEF ToldIsKnown
    <3> QED
      BY <1>1, <2>1, <3>1, <3>2, <3>3, FinishTells DEF LoopConsistent
  <2>3. CASE failing # {y}
    <3>1. /\ failing' = failing \ {y} /\ told' = [told EXCEPT ![y] = "failed"]
          /\ UNCHANGED <<known, checking, current, heard, overdue>>
      BY <1>4, <2>3 DEF ReportFailure, phiVars
    <3>2. failing' # {}
      BY <1>4, <2>3, <3>1
    <3>3. LoopConsistent'
      BY <1>1, <2>1, <3>1, <3>2 DEF LoopConsistent
    <3>4. /\ told'[y] = "failed" /\ \A x \in Name : x # y => told'[x] = told[x]
      BY <1>1, <2>1, <3>1 DEF LoopConsistent
    <3>5. ToldIsKnown'
      BY <1>1, <2>1, <3>1, <3>4 DEF ToldIsKnown
    <3> QED
      BY <3>3, <3>5 DEF ToldInvariant
  <2> QED
    BY <2>2, <2>3
<1> QED
  BY <1>2, <1>3, <1>4 DEF LoopStep

LEMMA HeartbeatTells ==
    ASSUME ToldInvariant,
           \/ \E p \in Peer : PeerStep(p)
           \/ \E x \in Name : FallSilent(x)
           \/ UNCHANGED detectorVars
    PROVE  ToldInvariant'
<1>1. UNCHANGED loopVars
  BY DEF PeerStep, SendHeartbeat, LoseHeartbeat, RecordHeartbeat, Crash, Restart, FallSilent,
     detectorVars, loopVars
<1>2. heard' \subseteq Name /\ overdue' \subseteq heard'
  <2>1. heard \subseteq Name /\ overdue \subseteq heard
    BY DEF ToldInvariant, LoopConsistent
  <2>2. CASE \E p \in Peer : RecordHeartbeat(p)
    BY <2>1, <2>2 DEF RecordHeartbeat, Name
  <2>3. CASE \E x \in Name : FallSilent(x)
    BY <2>1, <2>3 DEF FallSilent
  <2>4. CASE UNCHANGED phiVars
    BY <2>1, <2>4 DEF phiVars
  <2> QED
    BY <2>2, <2>3, <2>4
    DEF PeerStep, SendHeartbeat, LoseHeartbeat, Crash, Restart, detectorVars, phiVars
<1> QED
  BY <1>1, <1>2 DEF ToldInvariant, LoopConsistent, ToldIsKnown, loopVars

\* What the callbacks were last told of a node agrees with what the loop remembers, however
\* many nodes fail and recover, and although heartbeats arrive while a callback runs
\* (run_check_loop).
THEOREM DetectorTellsWhatItKnows == DetectorSpec => []ToldIsKnown
<1>1. DetectorInit => ToldInvariant
  BY DEF DetectorInit, ToldInvariant, LoopConsistent, ToldIsKnown
<1>2. ToldInvariant /\ [DetectorNext]_detectorVars => ToldInvariant'
  BY LoopStepTells, HeartbeatTells DEF DetectorNext
<1> QED
  BY <1>1, <1>2, PTL DEF DetectorSpec, ToldInvariant

-----------------------------------------------------------------------------
(* The LFU store *)

OnceIn(bucket) == \A i, j \in DOMAIN bucket : bucket[i] = bucket[j] => i = j

\* The bucket of a line with an access_count.
BucketOf(n) == IF n = 1 THEN 1 ELSE n - 1

\* Bucket 0 stays empty, a bucket has a key once, and every line is in its bucket and in none
\* of a lower frequency.
Sound(c, b) ==
    /\ c \in [Key -> 0 .. MaxCount + 1]
    /\ b \in [Frequency -> Seq(Key)]
    /\ b[0] = <<>>
    /\ \A f \in Frequency : OnceIn(b[f])
    /\ \A k \in Key : c[k] > 0 =>
          /\ k \in Listed(b[BucketOf(c[k])])
          /\ \A f \in Frequency : k \in Listed(b[f]) => f >= BucketOf(c[k])

LFUInvariant == minFreq \in Frequency /\ Sound(count, freqMap)

LEMMA JoinedKeys ==
    ASSUME NEW s \in Seq(Key), NEW t \in Seq(Key)
    PROVE  /\ s \o t \in Seq(Key) /\ Len(s \o t) = Len(s) + Len(t)
           /\ \A j \in 1 .. Len(s) + Len(t) :
                 (s \o t)[j] = IF j <= Len(s) THEN s[j] ELSE t[j - Len(s)]
BY SMTT(30)

LEMMA WithoutPosition ==
    ASSUME NEW b \in Seq(Key), NEW i \in DOMAIN b
    PROVE  /\ RemoveAt(b, i) \in Seq(Key)
           /\ DOMAIN RemoveAt(b, i) = 1 .. Len(b) - 1
           /\ \A j \in 1 .. Len(b) - 1 : RemoveAt(b, i)[j] = b[IF j < i THEN j ELSE j + 1]
<1> DEFINE s == SubSeq(b, 1, i - 1)
           t == SubSeq(b, i + 1, Len(b))
<1>1. Len(b) \in Nat /\ i \in 1 .. Len(b)
  OBVIOUS
<1>2. s \in Seq(Key) /\ Len(s) = i - 1 /\ \A j \in 1 .. i - 1 : s[j] = b[j]
  BY <1>1
<1>3. t \in Seq(Key) /\ Len(t) = Len(b) - i /\ \A j \in 1 .. Len(b) - i : t[j] = b[i + j]
  <2> HIDE DEF s
  <2> QED
    BY <1>1
<1> HIDE DEF s, t
<1>4. /\ s \o t \in Seq(Key) /\ Len(s \o t) = Len(s) + Len(t)
      /\ \A j \in 1 .. Len(s) + Len(t) :
            (s \o t)[j] = IF j <= Len(s) THEN s[j] ELSE t[j - Len(s)]
  BY <1>2, <1>3, JoinedKeys
<1>5. Len(s) + Len(t) = Len(b) - 1
  BY <1>1, <1>2, <1>3
<1>6. ASSUME NEW j \in 1 .. Len(b) - 1
      PROVE  (s \o t)[j] = b[IF j < i THEN j ELSE j + 1]
  <2>1. CASE j < i
    <3>1. j \in 1 .. i - 1 /\ j <= Len(s) /\ j \in 1 .. Len(s) + Len(t)
      BY <1>1, <1>2, <1>5, <2>1
    <3> QED
      BY <1>2, <1>4, <2>1, <3>1
  <2>2. CASE ~(j < i)
    <3>1. /\ ~(j <= Len(s)) /\ j \in 1 .. Len(s) + Len(t)
          /\ j - Len(s) \in 1 .. Len(b) - i /\ i + (j - Len(s)) = j + 1
      BY SMTT(30), <1>1, <1>2, <1>5, <2>2
    <3> QED
      BY <1>3, <1>4, <2>2, <3>1
  <2> QED
    BY <2>1, <2>2
<1>7. RemoveAt(b, i) = s \o t
  BY DEF RemoveAt, s, t
<1>8. DOMAIN (s \o t) = 1 .. Len(b) - 1
  BY <1>4, <1>5
<1> QED
  BY <1>4, <1>6, <1>7, <1>8

\* pop of an OrderedDict.
LEMMA DropFacts ==
    ASSUME NEW b \in Seq(Key), OnceIn(b), NEW k
    PROVE  /\ Drop(b, k) \in Seq(Key) /\ OnceIn(Drop(b, k))
           /\ \A x : x \in Listed(Drop(b, k)) <=> x \in Listed(b) /\ x # k
           /\ b = <<>> => Drop(b, k) = <<>>
<1>1. CASE k \notin Listed(b)
  BY <1>1 DEF Drop
<1>2. CASE k \in Listed(b)
  <2>1. PICK i \in DOMAIN b : i = (CHOOSE j \in DOMAIN b : b[j] = k) /\ b[i] = k
    BY <1>2 DEF Listed
  <2> DEFINE r == RemoveAt(b, i)
  <2>2. Drop(b, k) = r
    BY <1>2, <2>1 DEF Drop
  <2>3. /\ r \in Seq(Key) /\ DOMAIN r = 1 .. Len(b) - 1
        /\ \A j \in 1 .. Len(b) - 1 : r[j] = b[IF j < i THEN j ELSE j + 1]
    BY WithoutPosition
  <2>4. Len(b) \in Nat /\ i \in 1 .. Len(b) /\ DOMAIN b = 1 .. Len(b)
    OBVIOUS
  <2> HIDE DEF r
  <2>5. \A j \in DOMAIN r : /\ (IF j < i THEN j ELSE j + 1) \in DOMAIN b
                            /\ (IF j < i THEN j ELSE j + 1) # i
    BY <2>3, <2>4
  <2>6. ASSUME NEW j \in DOMAIN r, NEW l \in DOMAIN r, r[j] = r[l]
        PROVE  j = l
    <3>1. (IF j < i THEN j ELSE j + 1) = (IF l < i THEN l ELSE l + 1)
      BY <2>3, <2>5, <2>6 DEF OnceIn
    <3>2. j \in Int /\ l \in Int /\ i \in Int
      BY <2>3, <2>4
    <3> QED
      BY <3>1, <3>2
  <2>7. ASSUME NEW x
        PROVE  x \in Listed(r) <=> x \in Listed(b) /\ x # k
    <3>1. ASSUME x \in Listed(r)
          PROVE  x \in Listed(b) /\ x # k
      <4>1. PICK j \in DOMAIN r : r[j] = x
        BY <3>1 DEF Listed
      <4>2. PICK l \in DOMAIN b : l # i /\ b[l] = x
        BY <2>3, <2>5, <4>1
      <4>3. x # k
        BY <2>1, <4>2 DEF OnceIn
      <4> QED
        BY <4>2, <4>3 DEF Listed
    <3>2. ASSUME x \in Listed(b), x # k
          PROVE  x \in Listed(r)
      <4>1. PICK l \in DOMAIN b : b[l] = x
        BY <3>2 DEF Listed
      <4>2. l # i /\ l \in 1 .. Len(b)
        BY <2>1, <2>4, <3>2, <4>1
      <4>3. PICK j \in 1 .. Len(b) - 1 : (IF j < i THEN j ELSE j + 1) = l
        <5>1. CASE l < i
          <6>1. l \in 1 .. Len(b) - 1
            BY <2>4, <4>2, <5>1
          <6> QED
            BY <5>1, <6>1
        <5>2. CASE ~(l < i)
          <6>1. l - 1 \in 1 .. Len(b) - 1 /\ ~(l - 1 < i) /\ (l - 1) + 1 = l
            BY <2>4, <4>2, <5>2
          <6> QED
            BY <6>1
        <5> QED
          BY <5>1, <5>2
      <4>4. j \in DOMAIN r /\ r[j] = x
        BY <2>3, <4>1, <4>3
      <4> QED
        BY <4>4 DEF Listed
    <3> QED
      BY <3>1, <3>2
  <2>8. b # <<>>
    BY <1>2 DEF Listed
  <2> QED
    BY <2>2, <2>3, <2>6, <2>7, <2>8 DEF OnceIn
<1> QED
  BY <1>1, <1>2

\* Assigning to a key of an OrderedDict.
LEMMA EnlistFacts ==
    ASSUME NEW b \in Seq(Key), OnceIn(b), NEW k \in Key
    PROVE  /\ Enlist(b, k) \in Seq(Key) /\ OnceIn(Enlist(b, k))
           /\ \A x : x \in Listed(Enlist(b, k)) <=> x \in Listed(b) \/ x = k
<1>1. CASE k \in Listed(b)
  BY <1>1 DEF Enlist
<1>2. CASE k \notin Listed(b)
  <2> DEFINE r == Append(b, k)
  <2>1. /\ r \in Seq(Key) /\ Len(b) \in Nat /\ DOMAIN b = 1 .. Len(b)
        /\ DOMAIN r = 1 .. Len(b) + 1 /\ r[Len(b) + 1] = k /\ \A j \in 1 .. Len(b) : r[j] = b[j]
    OBVIOUS
  <2> HIDE DEF r
  <2>2. \A j \in DOMAIN r : \/ j \in DOMAIN b /\ r[j] = b[j] /\ r[j] # k
                            \/ j = Len(b) + 1 /\ r[j] = k
    BY <1>2, <2>1 DEF Listed
  <2>3. OnceIn(r)
    BY <2>2 DEF OnceIn
  <2>4. \A x : x \in Listed(r) <=> x \in Listed(b) \/ x = k
    <3>1. \A x \in Listed(r) : x \in Listed(b) \/ x = k
      BY <2>2 DEF Listed
    <3>2. \A j \in DOMAIN b : j \in DOMAIN r /\ r[j] = b[j]
      BY <2>1
    <3>3. Len(b) + 1 \in DOMAIN r
      BY <2>1
    <3> QED
      BY <2>1, <3>1, <3>2, <3>3 DEF Listed
  <2>5. Enlist(b, k) = r
    BY <1>2 DEF Enlist, r
  <2> QED
    BY <2>1, <2>3, <2>4, <2>5
<1> QED
  BY <1>1, <1>2

\* popitem(last=False).
LEMMA TailFacts ==
    ASSUME NEW b \in Seq(Key), OnceIn(b), b # <<>>
    PROVE  /\ Head(b) \in Key /\ Tail(b) \in Seq(Key) /\ OnceIn(Tail(b))
           /\ \A x : x \in Listed(Tail(b)) <=> x \in Listed(b) /\ x # Head(b)
<1> DEFINE r == Tail(b)
<1>1. /\ r \in Seq(Key) /\ Len(b) \in Nat /\ DOMAIN b = 1 .. Len(b) /\ 1 \in DOMAIN b
      /\ DOMAIN r = 1 .. Len(b) - 1 /\ \A j \in 1 .. Len(b) - 1 : r[j] = b[j + 1]
      /\ Head(b) = b[1] /\ Head(b) \in Key
  OBVIOUS
<1> HIDE DEF r
<1>2. \A j \in DOMAIN r : j \in Int /\ j + 1 \in DOMAIN b /\ j + 1 # 1 /\ r[j] = b[j + 1]
  BY <1>1
<1>3. \A j \in DOMAIN b : j # 1 => j - 1 \in DOMAIN r /\ r[j - 1] = b[j]
  BY <1>1
<1>4. OnceIn(r)
  <2> SUFFICES ASSUME NEW i \in DOMAIN r, NEW j \in DOMAIN r, r[i] = r[j]
               PROVE  i = j
    BY DEF OnceIn
  <2>1. i + 1 = j + 1 /\ i \in Int /\ j \in Int
    BY <1>2 DEF OnceIn
  <2> QED
    BY <2>1
<1>5. \A x \in Listed(r) : x \in Listed(b) /\ x # Head(b)
  BY <1>1, <1>2 DEF Listed, OnceIn
<1>6. \A x \in Listed(b) : x # Head(b) => x \in Listed(r)
  BY <1>1, <1>3 DEF Listed
<1> QED
  BY <1>1, <1>4, <1>5, <1>6 DEF r

LEMMA FrequencyType ==
    /\ MaxCount \in Nat \ {0} /\ 0 \in Frequency /\ 1 \in Frequency
    /\ \A n \in 1 .. MaxCount + 1 : BucketOf(n) \in Frequency /\ BucketOf(n) \in 1 .. MaxCount
BY LFUAssumption DEF Frequency, BucketOf

\* A new line goes to the first bucket.
LEMMA InsertSound ==
    ASSUME NEW c, NEW b, Sound(c, b), NEW k \in Key, c[k] = 0
    PROVE  Sound([c EXCEPT ![k] = 1], [b EXCEPT ![1] = Enlist(@, k)])
<1> DEFINE d == [c EXCEPT ![k] = 1]
           e == [b EXCEPT ![1] = Enlist(@, k)]
<1>1. /\ c \in [Key -> 0 .. MaxCount + 1] /\ b \in [Frequency -> Seq(Key)]
      /\ b[0] = <<>> /\ \A f \in Frequency : OnceIn(b[f])
  BY DEF Sound
<1>2. d \in [Key -> 0 .. MaxCount + 1] /\ d[k] = 1 /\ \A j \in Key : j # k => d[j] = c[j]
  BY <1>1, FrequencyType
<1>3. /\ e[1] = Enlist(b[1], k) /\ \A f \in Frequency : f # 1 => e[f] = b[f]
      /\ e \in [Frequency -> Seq(Key)]
  BY <1>1, FrequencyType, EnlistFacts
<1> HIDE DEF d, e
<1>4. /\ OnceIn(Enlist(b[1], k))
      /\ \A x : x \in Listed(Enlist(b[1], k)) <=> x \in Listed(b[1]) \/ x = k
  <2>1. b[1] \in Seq(Key) /\ OnceIn(b[1])
    BY <1>1, FrequencyType
  <2> QED
    BY <2>1, EnlistFacts
<1>5. \A f \in Frequency : \A x : x \in Listed(e[f]) <=> x \in Listed(b[f]) \/ (f = 1 /\ x = k)
  BY <1>3, <1>4
<1>6. e[0] = <<>> /\ \A f \in Frequency : OnceIn(e[f])
  <2>1. e[0] = b[0]
    BY <1>3, FrequencyType
  <2>2. \A f \in Frequency : OnceIn(e[f])
    BY <1>1, <1>3, <1>4
  <2> QED
    BY <1>1, <2>1, <2>2
<1>7. ASSUME NEW j \in Key, d[j] > 0
      PROVE  /\ j \in Listed(e[BucketOf(d[j])])
             /\ \A f \in Frequency : j \in Listed(e[f]) => f >= BucketOf(d[j])
  <2>1. CASE j = k
    <3>1. BucketOf(d[j]) = 1
      BY <1>2, <2>1 DEF BucketOf
    <3>2. \A f \in Frequency : j \in Listed(e[f]) => f >= 1
      <4>1. j \notin Listed(e[0])
        BY <1>6 DEF Listed
      <4> QED
        BY <4>1 DEF Frequency
    <3> QED
      BY <1>5, <2>1, <3>1, <3>2, FrequencyType
  <2>2. CASE j # k
    <3>1. d[j] = c[j] /\ c[j] \in 1 .. MaxCount + 1
      BY <1>1, <1>2, <1>7, <2>2, FrequencyType
    <3>2. BucketOf(c[j]) \in Frequency
      BY <3>1, FrequencyType
    <3> QED
      BY <1>5, <1>7, <2>2, <3>1, <3>2 DEF Sound
  <2> QED
    BY <2>1, <2>2
<1>8. Sound(d, e)
  BY <1>2, <1>3, <1>6, <1>7 DEF Sound
<1> QED
  BY <1>8 DEF d, e

\* The first key of a bucket goes, with its line if it has one.
LEMMA EvictSound ==
    ASSUME NEW c, NEW b, Sound(c, b), NEW g \in Frequency, b[g] # <<>>, NEW v, v = Head(b[g])
    PROVE  v \in Key /\ Sound([c EXCEPT ![v] = 0], [b EXCEPT ![g] = Tail(@)])
<1> DEFINE d == [c EXCEPT ![v] = 0]
           e == [b EXCEPT ![g] = Tail(@)]
<1>1. /\ c \in [Key -> 0 .. MaxCount + 1] /\ b \in [Frequency -> Seq(Key)]
      /\ b[0] = <<>> /\ \A f \in Frequency : OnceIn(b[f])
  BY DEF Sound
<1>2. /\ v \in Key /\ Tail(b[g]) \in Seq(Key) /\ OnceIn(Tail(b[g]))
      /\ \A x : x \in Listed(Tail(b[g])) <=> x \in Listed(b[g]) /\ x # v
  BY <1>1, TailFacts
<1>3. d \in [Key -> 0 .. MaxCount + 1] /\ d[v] = 0 /\ \A j \in Key : j # v => d[j] = c[j]
  BY <1>1, <1>2, FrequencyType
<1>4. /\ e[g] = Tail(b[g]) /\ \A f \in Frequency : f # g => e[f] = b[f]
      /\ e \in [Frequency -> Seq(Key)]
  BY <1>1, <1>2
<1> HIDE DEF d, e
<1>5. e[0] = <<>> /\ \A f \in Frequency : OnceIn(e[f])
  BY <1>1, <1>2, <1>4, FrequencyType
<1>6. \A f \in Frequency : \A x : x # v => (x \in Listed(e[f]) <=> x \in Listed(b[f]))
  BY <1>2, <1>4
<1>7. ASSUME NEW j \in Key, d[j] > 0
      PROVE  /\ j \in Listed(e[BucketOf(d[j])])
             /\ \A f \in Frequency : j \in Listed(e[f]) => f >= BucketOf(d[j])
  <2>1. j # v /\ d[j] = c[j] /\ c[j] \in 1 .. MaxCount + 1
    <3>1. j # v
      BY <1>3, <1>7
    <3>2. d[j] = c[j] /\ c[j] \in 0 .. MaxCount + 1
      BY <1>1, <1>3, <3>1
    <3> QED
      BY <1>7, <3>1, <3>2, FrequencyType
  <2>2. BucketOf(c[j]) \in Frequency
    BY <2>1, FrequencyType
  <2> QED
    BY <1>6, <1>7, <2>1, <2>2 DEF Sound
<1>8. Sound(d, e)
  BY <1>3, <1>4, <1>5, <1>7 DEF Sound
<1> QED
  BY <1>2, <1>8 DEF d, e

\* _update_freq takes a line that gets its access_count m from bucket n - 1 to bucket n.
LEMMA UpdateSound ==
    ASSUME NEW c, NEW b, Sound(c, b), NEW k \in Key, NEW n \in 1 .. MaxCount,
           NEW m \in 1 .. MaxCount + 1, BucketOf(m) = n,
           \A f \in Frequency : k \in Listed(b[f]) => f >= n - 1
    PROVE  Sound([c EXCEPT ![k] = m], [b EXCEPT ![n - 1] = Drop(@, k), ![n] = Enlist(@, k)])
<1> DEFINE d == [c EXCEPT ![k] = m]
           e == [b EXCEPT ![n - 1] = Drop(@, k), ![n] = Enlist(@, k)]
<1>1. /\ c \in [Key -> 0 .. MaxCount + 1] /\ b \in [Frequency -> Seq(Key)]
      /\ b[0] = <<>> /\ \A f \in Frequency : OnceIn(b[f])
  BY DEF Sound
<1>2. PICK l : l = n - 1
  OBVIOUS
<1>3. n \in Frequency /\ l \in Frequency /\ l # n /\ n # 0 /\ n \in Nat
  BY <1>2, FrequencyType DEF Frequency
<1>4. d \in [Key -> 0 .. MaxCount + 1] /\ d[k] = m /\ \A j \in Key : j # k => d[j] = c[j]
  BY <1>1, FrequencyType
<1>5. e = [b EXCEPT ![l] = Drop(b[l], k), ![n] = Enlist(b[n], k)]
  BY <1>1, <1>2, <1>3
<1>6. /\ b[l] \in Seq(Key) /\ OnceIn(b[l]) /\ b[n] \in Seq(Key) /\ OnceIn(b[n])
  BY <1>1, <1>3
<1>7. /\ Drop(b[l], k) \in Seq(Key) /\ OnceIn(Drop(b[l], k))
      /\ \A x : x \in Listed(Drop(b[l], k)) <=> x \in Listed(b[l]) /\ x # k
      /\ b[l] = <<>> => Drop(b[l], k) = <<>>
  BY <1>6, DropFacts
<1>8. /\ Enlist(b[n], k) \in Seq(Key) /\ OnceIn(Enlist(b[n], k))
      /\ \A x : x \in Listed(Enlist(b[n], k)) <=> x \in Listed(b[n]) \/ x = k
  BY <1>6, EnlistFacts
<1> HIDE DEF d, e
<1>9. /\ e[l] = Drop(b[l], k) /\ e[n] = Enlist(b[n], k)
      /\ \A f \in Frequency : f # l /\ f # n => e[f] = b[f]
  BY <1>1, <1>3, <1>5
<1>10. e \in [Frequency -> Seq(Key)]
  BY <1>1, <1>5, <1>7, <1>8
<1>11. e[0] = <<>> /\ \A f \in Frequency : OnceIn(e[f])
  BY <1>1, <1>3, <1>7, <1>8, <1>9, FrequencyType
<1>12. \A f \in Frequency : \A x :
          x \in Listed(e[f]) <=> (x \in Listed(b[f]) /\ ~(f = l /\ x = k)) \/ (f = n /\ x = k)
  BY <1>3, <1>7, <1>8, <1>9
<1>13. ASSUME NEW j \in Key, d[j] > 0
      PROVE  /\ j \in Listed(e[BucketOf(d[j])])
             /\ \A f \in Frequency : j \in Listed(e[f]) => f >= BucketOf(d[j])
  <2>1. CASE j = k
    <3>1. BucketOf(d[j]) = n
      BY <1>4, <2>1
    <3>2. j \in Listed(e[n])
      BY <1>3, <1>12, <2>1
    <3>3. ASSUME NEW f \in Frequency, j \in Listed(e[f])
          PROVE  f >= n
      <4>1. f = n \/ (f >= n - 1 /\ f # l)
        BY <1>12, <2>1, <3>3
      <4> QED
        BY <1>2, <1>3, <4>1 DEF Frequency
    <3> QED
      BY <3>1, <3>2, <3>3
  <2>2. CASE j # k
    <3>1. d[j] = c[j] /\ c[j] \in 1 .. MaxCount + 1
      BY <1>1, <1>4, <1>13, <2>2, FrequencyType
    <3>2. BucketOf(c[j]) \in Frequency
      BY <3>1, FrequencyType
    <3> QED
      BY <1>12, <1>13, <2>2, <3>1, <3>2 DEF Sound
  <2> QED
    BY <2>1, <2>2
<1>14. Sound(d, e)
  BY <1>4, <1>10, <1>11, <1>13 DEF Sound
<1> QED
  BY <1>14 DEF d, e

LEMMA SoundIsFindable == Sound(count, freqMap) => Findable
<1> SUFFICES ASSUME Sound(count, freqMap), NEW k \in Cached
             PROVE  /\ k \in Listed(freqMap[Uses(k)])
                    /\ \A f \in Frequency : k \in Listed(freqMap[f]) => f >= Uses(k)
  BY DEF Findable
<1>1. k \in Key /\ count[k] > 0
  BY DEF Cached
<1>2. Uses(k) = BucketOf(count[k])
  BY DEF Uses, BucketOf
<1> QED
  BY <1>1, <1>2 DEF Sound

LEMMA UseKeepsSound ==
    ASSUME LFUInvariant, NEW k \in Key, Get(k) \/ Replace(k)
    PROVE  LFUInvariant'
<1>1. Sound(count, freqMap) /\ minFreq \in Frequency /\ count \in [Key -> 0 .. MaxCount + 1]
  BY DEF LFUInvariant, Sound
<1>2. \A f \in Frequency : f >= 0 /\ f \in Nat
  BY FrequencyType DEF Frequency
<1>3. CASE Get(k)
  <2> DEFINE n == count[k]
             m == n + 1
  <2>1. /\ n \in 1 .. MaxCount /\ UpdateFreq(k, n) /\ count' = [count EXCEPT ![k] = m]
    BY <1>1, <1>3 DEF Get
  <2> HIDE DEF n
  <2>2. m \in 1 .. MaxCount + 1 /\ BucketOf(m) = n
    BY <2>1, FrequencyType DEF BucketOf
  <2>3. \A f \in Frequency : k \in Listed(freqMap[f]) => f >= BucketOf(n)
    <3>1. count[k] > 0
      BY <2>1, FrequencyType DEF n
    <3>2. \A f \in Frequency : k \in Listed(freqMap[f]) => f >= BucketOf(count[k])
      BY <1>1, <3>1 DEF Sound
    <3> QED
      BY <3>2 DEF n
  <2>4. \A f \in Frequency : k \in Listed(freqMap[f]) => f >= n - 1
    <3>1. n - 1 <= BucketOf(n) /\ BucketOf(n) \in Nat /\ n \in Nat
      BY <2>1 DEF BucketOf
    <3> QED
      BY <1>2, <2>3, <3>1
  <2> HIDE DEF m
  <2>5. freqMap' = [freqMap EXCEPT ![n - 1] = Drop(@, k), ![n] = Enlist(@, k)]
    BY <2>1 DEF UpdateFreq
  <2>6. Sound([count EXCEPT ![k] = m],
              [freqMap EXCEPT ![n - 1] = Drop(@, k), ![n] = Enlist(@, k)])
    BY <1>1, <2>1, <2>2, <2>4, UpdateSound
  <2>7. minFreq' \in Frequency
    BY <1>1, <2>1, FrequencyType DEF UpdateFreq, Frequency
  <2> QED
    BY <2>1, <2>5, <2>6, <2>7 DEF LFUInvariant, Sound
<1>4. CASE Replace(k)
  <2>1. UpdateFreq(k, 1) /\ count' = [count EXCEPT ![k] = 1]
    BY <1>4 DEF Replace
  <2>2. 1 \in 1 .. MaxCount /\ 1 \in 1 .. MaxCount + 1 /\ BucketOf(1) = 1
    BY FrequencyType DEF BucketOf
  <2>3. \A f \in Frequency : k \in Listed(freqMap[f]) => f >= 1 - 1
    BY <1>2
  <2>4. freqMap' = [freqMap EXCEPT ![1 - 1] = Drop(@, k), ![1] = Enlist(@, k)]
    BY <2>1 DEF UpdateFreq
  <2>5. Sound([count EXCEPT ![k] = 1],
              [freqMap EXCEPT ![1 - 1] = Drop(@, k), ![1] = Enlist(@, k)])
    BY <1>1, <2>2, <2>3, UpdateSound
  <2>6. minFreq' \in Frequency
    BY <1>1, <2>1, FrequencyType DEF UpdateFreq
  <2> QED
    BY <2>1, <2>4, <2>5, <2>6 DEF LFUInvariant, Sound
<1> QED
  BY <1>3, <1>4

LEMMA PutKeepsSound ==
    ASSUME LFUInvariant, NEW k \in Key, PutWithoutEviction(k) \/ PutEvicting(k)
    PROVE  LFUInvariant'
<1>1. Sound(count, freqMap) /\ minFreq \in Frequency /\ count \in [Key -> 0 .. MaxCount + 1]
  BY DEF LFUInvariant, Sound
<1>2. count[k] = 0 /\ k \notin Cached
  BY <1>1, FrequencyType DEF PutWithoutEviction, PutEvicting, Cached
<1>3. CASE PutWithoutEviction(k)
  <2>1. /\ count' = [count EXCEPT ![k] = 1] /\ minFreq' = 1
        /\ freqMap' = [freqMap EXCEPT ![1] = Enlist(@, k)]
    BY <1>3 DEF PutWithoutEviction, Insert
  <2>2. Sound([count EXCEPT ![k] = 1], [freqMap EXCEPT ![1] = Enlist(@, k)])
    BY <1>1, <1>2, InsertSound
  <2> QED
    BY <2>1, <2>2, FrequencyType DEF LFUInvariant, Sound
<1>4. CASE PutEvicting(k)
  <2> DEFINE v == Head(freqMap[minFreq])
             b == [freqMap EXCEPT ![minFreq] = Tail(@)]
             c == [count EXCEPT ![v] = 0]
  <2>1. freqMap[minFreq] # <<>>
    BY <1>4 DEF PutEvicting
  <2>2. v \in Key /\ Sound(c, b)
    BY <1>1, <2>1, EvictSound
  <2>3. CASE v \in Cached
    <3>1. /\ count' = [c EXCEPT ![k] = 1] /\ minFreq' = 1
          /\ freqMap' = [b EXCEPT ![1] = Enlist(@, k)]
      BY <1>4, <2>3 DEF PutEvicting, Insert
    <3>2. c[k] = 0
      BY <1>1, <1>2, <2>3
    <3> HIDE DEF c, b
    <3>3. Sound([c EXCEPT ![k] = 1], [b EXCEPT ![1] = Enlist(@, k)])
      BY <2>2, <3>2, InsertSound
    <3> QED
      BY <3>1, <3>3, FrequencyType DEF LFUInvariant, Sound
  <2>4. CASE v \notin Cached
    <3>1. freqMap' = b /\ count' = count /\ minFreq' = minFreq
      BY <1>4, <2>4 DEF PutEvicting
    <3>2. count[v] = 0
      <4>1. v \in Key /\ ~(count[v] > 0)
        BY <2>2, <2>4 DEF Cached
      <4>2. count[v] \in 0 .. MaxCount + 1
        BY <1>1, <4>1
      <4> HIDE DEF v
      <4>3. QED
        BY <4>1, <4>2, FrequencyType
    <3>3. c = count
      <4>1. count = [j \in Key |-> count[j]]
        BY <1>1
      <4>2. QED
        BY <3>2, <4>1
    <3> HIDE DEF c, b
    <3> QED
      BY <1>1, <2>2, <3>1, <3>3 DEF LFUInvariant, Sound
  <2> QED
    BY <2>3, <2>4
<1> QED
  BY <1>3, <1>4

LEMMA InvalidateKeepsSound ==
    ASSUME LFUInvariant, NEW k \in Key, Invalidate(k)
    PROVE  LFUInvariant'
<1>1. Sound(count, freqMap) /\ count \in [Key -> 0 .. MaxCount + 1]
  BY DEF LFUInvariant, Sound
<1>2. count' = [count EXCEPT ![k] = 0] /\ UNCHANGED <<freqMap, minFreq>>
  BY DEF Invalidate
<1>3. count' \in [Key -> 0 .. MaxCount + 1]
  BY <1>1, <1>2, FrequencyType
<1>4. \A j \in Key : count'[j] > 0 => count'[j] = count[j]
  BY <1>1, <1>2
<1> QED
  BY <1>2, <1>3, <1>4 DEF LFUInvariant, Sound

\* Every line is found for eviction in the bucket of its uses and in no lower one, also when
\* keys come back, when lines are replaced and when a put has raised (_update_freq, put).
THEOREM LinesAreFindable == LFUSpec => []Findable
<1>1. LFUInit => LFUInvariant
  BY FrequencyType DEF LFUInit, LFUInvariant, Sound, OnceIn
<1>2. LFUInvariant /\ [LFUNext]_lfuVars => LFUInvariant'
  BY UseKeepsSound, PutKeepsSound, InvalidateKeepsSound
  DEF LFUNext, lfuVars, LFUInvariant, Sound
<1>3. LFUInvariant => Findable
  BY SoundIsFindable DEF LFUInvariant
<1> QED
  BY <1>1, <1>2, <1>3, PTL DEF LFUSpec

-----------------------------------------------------------------------------
(* Which line a put evicts *)

\* A line that belongs below the bucket to evict from is also listed there or above, where its
\* predecessor was used more often.
Lingers(c, b, g) ==
    \A k \in Key : c[k] > 0 /\ BucketOf(c[k]) < g =>
        \E f \in Frequency : f >= g /\ k \in Listed(b[f])

\* Until a put fails, the bucket to evict from is empty only before the first line.
EvictInvariant ==
    /\ LFUInvariant
    /\ Lingers(count, freqMap, minFreq)
    /\ ~raised => IF minFreq = 0 THEN \A k \in Key : count[k] = 0 ELSE freqMap[minFreq] # <<>>

\* What _update_freq does to the buckets, of which it may leave the one to evict from.
LEMMA UpdateLingers ==
    ASSUME NEW c, NEW b, Sound(c, b), NEW k \in Key, NEW n \in 1 .. MaxCount,
           NEW m \in 1 .. MaxCount + 1, BucketOf(m) = n, c[k] > 0,
           NEW l, l = n - 1,
           NEW d, d[k] = m, \A j \in Key : j # k => d[j] = c[j],
           NEW e, e[l] = Drop(b[l], k), e[n] = Enlist(b[n], k),
           \A f \in Frequency : f # l /\ f # n => e[f] = b[f],
           NEW g \in Frequency, Lingers(c, b, g),
           NEW h, \/ h = n /\ g = l /\ e[l] = <<>>
                  \/ h = g /\ (n > 1 /\ g = l => e[l] # <<>>)
    PROVE  /\ Lingers(d, e, h)
           /\ b[g] # <<>> => h # 0 /\ e[h] # <<>>
<1>1. /\ c \in [Key -> 0 .. MaxCount + 1] /\ b \in [Frequency -> Seq(Key)]
      /\ b[0] = <<>> /\ \A f \in Frequency : OnceIn(b[f])
  BY DEF Sound
<1>2. n \in Frequency /\ l \in Frequency /\ l # n /\ n # 0 /\ n \in Nat /\ l < n /\ n = l + 1
  BY FrequencyType DEF Frequency
<1>3. d[k] = m /\ \A j \in Key : j # k => d[j] = c[j]
  OBVIOUS
<1>4. /\ b[l] \in Seq(Key) /\ OnceIn(b[l]) /\ b[n] \in Seq(Key) /\ OnceIn(b[n])
  BY <1>1, <1>2
<1>5. \A x : x \in Listed(Drop(b[l], k)) <=> x \in Listed(b[l]) /\ x # k
  BY <1>4, DropFacts
<1>6. \A x : x \in Listed(Enlist(b[n], k)) <=> x \in Listed(b[n]) \/ x = k
  BY <1>4, EnlistFacts
<1>7. /\ e[l] = Drop(b[l], k) /\ e[n] = Enlist(b[n], k)
      /\ \A f \in Frequency : f # l /\ f # n => e[f] = b[f]
  BY <1>1, <1>2
<1>8. \A f \in Frequency : \A x :
          x \in Listed(e[f]) <=> (x \in Listed(b[f]) /\ ~(f = l /\ x = k)) \/ (f = n /\ x = k)
  BY <1>2, <1>5, <1>6, <1>7
<1>9. \A x : x \notin Listed(<<>>)
  BY DEF Listed
<1>10. \A f \in Frequency : f \in Nat
  BY FrequencyType DEF Frequency
<1>11. h = g \/ (h = n /\ g = l /\ e[l] = <<>>)
  BY <1>2
<1>12. ASSUME NEW j \in Key, c[j] > 0
       PROVE  /\ BucketOf(c[j]) \in Frequency /\ j \in Listed(b[BucketOf(c[j])])
  <2>1. c[j] \in 1 .. MaxCount + 1
    BY <1>1, <1>12, FrequencyType
  <2>2. QED
    BY <1>12, <2>1, FrequencyType DEF Sound
<1>13. ASSUME NEW j \in Key, d[j] > 0, BucketOf(d[j]) < h
       PROVE  \E f \in Frequency : f >= h /\ j \in Listed(e[f])
  <2>1. CASE j = k
    <3>1. n < g /\ h = g
      BY <1>2, <1>3, <1>10, <1>11, <1>13, <2>1
    <3>2. PICK f \in Frequency : f >= g /\ k \in Listed(b[f])
      <4>1. CASE BucketOf(c[k]) < g
        BY <4>1 DEF Lingers
      <4>2. CASE ~(BucketOf(c[k]) < g)
        BY <1>10, <1>12, <4>2
      <4>3. QED
        BY <4>1, <4>2
    <3>3. f # l
      BY <1>2, <1>10, <3>1, <3>2
    <3>4. QED
      BY <1>8, <2>1, <3>1, <3>2, <3>3
  <2>2. CASE j # k /\ h = g
    <3>1. PICK f \in Frequency : f >= g /\ j \in Listed(b[f])
      BY <1>3, <1>13, <2>2 DEF Lingers
    <3>2. QED
      BY <1>8, <2>2, <3>1
  <2>3. CASE j # k /\ h = n /\ g = l /\ e[l] = <<>>
    <3>1. d[j] = c[j] /\ c[j] > 0
      BY <1>3, <1>13, <2>3
    <3>2. j \notin Listed(b[l])
      BY <1>2, <1>8, <1>9, <2>3
    <3>3. BucketOf(c[j]) \in Nat /\ BucketOf(c[j]) # l
      BY <1>10, <1>12, <3>1, <3>2
    <3>4. BucketOf(c[j]) < g
      BY <1>2, <1>13, <2>3, <3>1, <3>3
    <3>5. PICK f \in Frequency : f >= g /\ j \in Listed(b[f])
      BY <3>1, <3>4 DEF Lingers
    <3>6. f # l
      BY <3>2, <3>5
    <3>7. f >= n
      BY <1>2, <1>10, <2>3, <3>5, <3>6
    <3>8. QED
      BY <1>8, <2>3, <3>5, <3>7
  <2>4. QED
    BY <1>11, <2>1, <2>2, <2>3
<1>14. ASSUME b[g] # <<>> PROVE h # 0 /\ e[h] # <<>>
  <2>1. k \in Listed(e[n])
    BY <1>2, <1>8
  <2>2. e[n] # <<>>
    BY <1>9, <2>1
  <2>3. g # 0
    BY <1>1, <1>14
  <2>4. CASE h = n
    BY <1>2, <2>2, <2>4
  <2>5. CASE h = g /\ g # n
    <3>1. CASE g = l
      <4>1. n > 1
        BY <1>2, <1>10, <2>3, <3>1
      <4>2. e[l] # <<>>
        BY <1>2, <2>5, <3>1, <4>1
      <4>3. QED
        BY <2>3, <2>5, <3>1, <4>2
    <3>2. CASE g # l
      BY <1>7, <1>14, <2>3, <2>5, <3>2
    <3>3. QED
      BY <3>1, <3>2
  <2>6. QED
    BY <1>11, <2>4, <2>5
<1>15. QED
  BY <1>13, <1>14 DEF Lingers

LEMMA UseKeepsEvict ==
    ASSUME EvictInvariant, NEW k \in Key, Get(k) \/ Replace(k)
    PROVE  EvictInvariant'
<1>1. /\ Sound(count, freqMap) /\ minFreq \in Frequency /\ count \in [Key -> 0 .. MaxCount + 1]
      /\ Lingers(count, freqMap, minFreq)
  BY DEF EvictInvariant, LFUInvariant, Sound
<1>2. LFUInvariant' /\ raised' = raised
  BY UseKeepsSound DEF EvictInvariant, Get, Replace
<1>3. \E n \in 1 .. MaxCount, m \in 1 .. MaxCount + 1 :
         BucketOf(m) = n /\ UpdateFreq(k, n) /\ count' = [count EXCEPT ![k] = m]
  <2>1. CASE Get(k)
    <3> DEFINE n == count[k]
               m == n + 1
    <3>1. n \in 1 .. MaxCount /\ UpdateFreq(k, n) /\ count' = [count EXCEPT ![k] = m]
      BY <1>1, <2>1 DEF Get
    <3> HIDE DEF n
    <3>2. m \in 1 .. MaxCount + 1 /\ BucketOf(m) = n
      BY <3>1, FrequencyType DEF BucketOf
    <3>3. QED
      BY <3>1, <3>2
  <2>2. CASE Replace(k)
    <3>1. UpdateFreq(k, 1) /\ count' = [count EXCEPT ![k] = 1]
      BY <2>2 DEF Replace
    <3>2. 1 \in 1 .. MaxCount /\ 1 \in 1 .. MaxCount + 1 /\ BucketOf(1) = 1
      BY FrequencyType DEF BucketOf
    <3>3. QED
      BY <3>1, <3>2
  <2>3. QED
    BY <2>1, <2>2
<1>4. PICK n \in 1 .. MaxCount : \E m \in 1 .. MaxCount + 1 :
         BucketOf(m) = n /\ UpdateFreq(k, n) /\ count' = [count EXCEPT ![k] = m]
  BY <1>3
<1>5. PICK m \in 1 .. MaxCount + 1 :
         BucketOf(m) = n /\ UpdateFreq(k, n) /\ count' = [count EXCEPT ![k] = m]
  BY <1>4
<1>6. count[k] > 0
  BY <1>1, FrequencyType DEF Get, Replace, Cached
<1>7. /\ freqMap' = [freqMap EXCEPT ![n - 1] = Drop(@, k), ![n] = Enlist(@, k)]
      /\ minFreq' = IF n > 1 /\ Drop(freqMap[n - 1], k) = <<>> /\ minFreq = n - 1
                    THEN n ELSE minFreq
  BY <1>5 DEF UpdateFreq
<1>8. /\ Lingers(count', freqMap', minFreq')
      /\ freqMap[minFreq] # <<>> => minFreq' # 0 /\ freqMap'[minFreq'] # <<>>
  <2>1. count' = [count EXCEPT ![k] = m] /\ BucketOf(m) = n
    BY <1>5
  <2>2. PICK l : l = n - 1
    OBVIOUS
  <2>3. l \in Frequency /\ n \in Frequency /\ l # n
    BY <2>2, FrequencyType DEF Frequency
  <2>4. freqMap \in [Frequency -> Seq(Key)]
    BY <1>1 DEF Sound
  <2>5. freqMap' = [freqMap EXCEPT ![l] = Drop(freqMap[l], k), ![n] = Enlist(freqMap[n], k)]
    BY <1>7, <2>2, <2>3, <2>4
  <2>6. freqMap'[l] = Drop(freqMap[l], k)
    BY <2>3, <2>4, <2>5
  <2>7. \/ minFreq' = n /\ minFreq = l /\ freqMap'[l] = <<>>
        \/ minFreq' = minFreq /\ (n > 1 /\ minFreq = l => freqMap'[l] # <<>>)
    BY <1>7, <2>2, <2>6
  <2>8. PICK d : d = count'
    OBVIOUS
  <2>9. PICK e : e = freqMap'
    OBVIOUS
  <2>10. PICK h : h = minFreq'
    OBVIOUS
  <2>11. /\ d[k] = m /\ \A j \in Key : j # k => d[j] = count[j]
         /\ e[l] = Drop(freqMap[l], k) /\ e[n] = Enlist(freqMap[n], k)
         /\ \A f \in Frequency : f # l /\ f # n => e[f] = freqMap[f]
         /\ \/ h = n /\ minFreq = l /\ e[l] = <<>>
            \/ h = minFreq /\ (n > 1 /\ minFreq = l => e[l] # <<>>)
    BY <1>1, <2>1, <2>3, <2>4, <2>5, <2>7, <2>8, <2>9, <2>10
  <2>12. Lingers(d, e, h) /\ (freqMap[minFreq] # <<>> => h # 0 /\ e[h] # <<>>)
    <3>1. /\ Sound(count, freqMap) /\ Lingers(count, freqMap, minFreq)
          /\ minFreq \in Frequency /\ count[k] > 0
      BY <1>1, <1>6
    <3>2. QED
      BY ONLY <3>1, <2>1, <2>2, <2>11, k \in Key, n \in 1 .. MaxCount, m \in 1 .. MaxCount + 1,
              UpdateLingers
  <2>13. QED
    BY <2>8, <2>9, <2>10, <2>12
<1>9. ~raised => freqMap[minFreq] # <<>>
  BY <1>6 DEF EvictInvariant
<1>10. QED
  BY <1>2, <1>8, <1>9 DEF EvictInvariant

LEMMA FirstBucketLingers ==
    ASSUME NEW c \in [Key -> 0 .. MaxCount + 1], NEW b
    PROVE  Lingers(c, b, 1)
<1>1. \A k \in Key : c[k] > 0 => ~(BucketOf(c[k]) < 1)
  BY FrequencyType DEF BucketOf
<1>2. QED
  BY <1>1 DEF Lingers

LEMMA PutKeepsEvict ==
    ASSUME EvictInvariant, NEW k \in Key, PutWithoutEviction(k) \/ PutEvicting(k)
    PROVE  EvictInvariant'
<1>1. /\ Sound(count, freqMap) /\ minFreq \in Frequency /\ count \in [Key -> 0 .. MaxCount + 1]
      /\ freqMap \in [Frequency -> Seq(Key)] /\ \A f \in Frequency : OnceIn(freqMap[f])
      /\ Lingers(count, freqMap, minFreq)
  BY DEF EvictInvariant, LFUInvariant, Sound
<1>2. LFUInvariant' /\ Sound(count', freqMap')
  BY PutKeepsSound DEF EvictInvariant, LFUInvariant
<1>3. ASSUME NEW b, NEW c, Insert(k, b, c), b \in [Frequency -> Seq(Key)]
      PROVE  EvictInvariant'
  <2>1. minFreq' = 1 /\ freqMap'[1] = Enlist(b[1], k)
    BY <1>3, FrequencyType DEF Insert
  <2>2. Lingers(count', freqMap', minFreq')
    BY <1>2, <2>1, FirstBucketLingers DEF Sound
  <2>3. Enlist(b[1], k) # <<>>
    <3>1. b[1] \in Seq(Key)
      BY <1>3, FrequencyType
    <3>2. k \notin Listed(<<>>)
      BY DEF Listed
    <3>3. Append(b[1], k) # <<>>
      BY <3>1
    <3>4. QED
      BY <3>2, <3>3 DEF Enlist
  <2>4. QED
    BY <1>2, <2>1, <2>2, <2>3 DEF EvictInvariant
<1>4. CASE PutWithoutEviction(k)
  BY <1>1, <1>3, <1>4 DEF PutWithoutEviction
<1>5. CASE PutEvicting(k)
  <2> DEFINE v == Head(freqMap[minFreq])
             b == [freqMap EXCEPT ![minFreq] = Tail(@)]
             c == [count EXCEPT ![v] = 0]
  <2>1. freqMap[minFreq] # <<>>
    BY <1>5 DEF PutEvicting
  <2>2. /\ Tail(freqMap[minFreq]) \in Seq(Key)
        /\ \A x : x \in Listed(Tail(freqMap[minFreq])) <=> x \in Listed(freqMap[minFreq]) /\ x # v
    BY <1>1, <2>1, TailFacts
  <2>3. b \in [Frequency -> Seq(Key)]
    BY <1>1, <2>2
  <2>4. CASE v \in Cached
    <3>1. Insert(k, b, c)
      BY <1>5, <2>4 DEF PutEvicting
    <3> HIDE DEF c, b
    <3>2. QED
      BY <1>3, <2>3, <3>1
  <2>5. CASE v \notin Cached
    <3>1. freqMap' = b /\ raised' = TRUE /\ UNCHANGED <<count, minFreq>>
      BY <1>5, <2>5 DEF PutEvicting
    <3>2. \A f \in Frequency : \A x : x # v /\ x \in Listed(freqMap[f]) => x \in Listed(b[f])
      BY <1>1, <2>2
    <3>3. \A j \in Key : count[j] > 0 => j # v
      BY <2>5 DEF Cached
    <3>4. Lingers(count', freqMap', minFreq')
      BY <1>1, <3>1, <3>2, <3>3 DEF Lingers
    <3>5. QED
      BY <1>2, <3>1, <3>4 DEF EvictInvariant
  <2>6. QED
    BY <2>4, <2>5
<1>6. QED
  BY <1>4, <1>5

LEMMA InvalidateKeepsEvict ==
    ASSUME EvictInvariant, NEW k \in Key, Invalidate(k)
    PROVE  EvictInvariant'
<1>1. count \in [Key -> 0 .. MaxCount + 1] /\ Lingers(count, freqMap, minFreq)
  BY DEF EvictInvariant, LFUInvariant, Sound
<1>2. count' = [count EXCEPT ![k] = 0] /\ UNCHANGED <<freqMap, minFreq, raised>>
  BY DEF Invalidate
<1>3. \A j \in Key : count'[j] > 0 => count'[j] = count[j]
  BY <1>1, <1>2
<1>4. Lingers(count', freqMap', minFreq')
  BY <1>1, <1>2, <1>3 DEF Lingers
<1>5. \A j \in Key : count[j] = 0 => count'[j] = 0
  BY <1>1, <1>2
<1>6. QED
  BY <1>2, <1>4, <1>5, InvalidateKeepsSound DEF EvictInvariant

LEMMA EvictStep == EvictInvariant /\ [LFUNext]_lfuVars => EvictInvariant'
<1>1. CASE UNCHANGED lfuVars
  BY <1>1 DEF lfuVars, EvictInvariant, LFUInvariant, Sound, Lingers
<1>2. QED
  BY <1>1, UseKeepsEvict, PutKeepsEvict, InvalidateKeepsEvict DEF LFUNext

\* The victim is in the bucket to evict from. With no leftovers it belongs there, and no line
\* belongs below, since that would linger above.
LEMMA VictimIsLeastUsed ==
    ASSUME EvictInvariant, Leftovers = {}, NEW v \in Cached, v \in Listed(freqMap[minFreq]),
           NEW j \in Cached
    PROVE  Uses(v) <= Uses(j)
<1>1. /\ minFreq \in Frequency /\ count \in [Key -> 0 .. MaxCount + 1]
      /\ Lingers(count, freqMap, minFreq) /\ v \in Key /\ j \in Key /\ count[j] > 0
  BY DEF EvictInvariant, LFUInvariant, Sound, Cached
<1>2. \A x \in Key, f \in Frequency : x \in Cached /\ x \in Listed(freqMap[f]) => f = Uses(x)
  <2> SUFFICES ASSUME NEW x \in Key, NEW f \in Frequency, x \in Listed(freqMap[f]), f # Uses(x)
               PROVE  FALSE
    OBVIOUS
  <2>1. <<x, f>> \in Leftovers
    BY DEF Leftovers
  <2>2. QED
    BY <2>1
<1>3. Uses(v) = minFreq
  BY <1>1, <1>2
<1>4. Uses(j) = BucketOf(count[j]) /\ Uses(j) \in Nat
  BY <1>1, FrequencyType DEF Uses, BucketOf
<1>5. ~(Uses(j) < minFreq)
  <2> SUFFICES ASSUME Uses(j) < minFreq PROVE FALSE
    OBVIOUS
  <2>1. PICK f \in Frequency : f >= minFreq /\ j \in Listed(freqMap[f])
    BY <1>1, <1>4 DEF Lingers
  <2>2. f = Uses(j)
    BY <1>1, <1>2, <2>1
  <2>3. QED
    BY <1>1, <2>1, <2>2 DEF Frequency
<1>6. QED
  BY <1>1, <1>3, <1>4, <1>5 DEF Frequency

LEMMA PutTakesPlace ==
    ASSUME EvictInvariant, NEW k \in Key, PutWithoutEviction(k) \/ PutEvicting(k),
           NEW x \in Cached' \ Cached, ~raised
    PROVE  LET gone == Cached \ Cached' IN
           /\ Cardinality(gone) = IF Full THEN 1 ELSE 0
           /\ Leftovers = {} => \A g \in gone, j \in Cached : Uses(g) <= Uses(j)
<1>1. /\ count \in [Key -> 0 .. MaxCount + 1] /\ minFreq \in Frequency
      /\ freqMap \in [Frequency -> Seq(Key)]
  BY DEF EvictInvariant, LFUInvariant, Sound
<1> DEFINE gone == Cached \ Cached'
<1>2. CASE PutWithoutEviction(k)
  <2>1. count' = [count EXCEPT ![k] = 1] /\ (~Full \/ freqMap[minFreq] = <<>>)
    BY <1>2 DEF PutWithoutEviction, Insert
  <2>2. Cached \subseteq Cached'
    BY <1>1, <2>1 DEF Cached
  <2>3. gone = {} /\ Cardinality(gone) = 0
    BY <2>2, FS_EmptySet
  <2>4. ~Full
    <3> SUFFICES ASSUME Full PROVE FALSE
      OBVIOUS
    <3>1. \A j \in Key : count[j] = 0
      BY <2>1 DEF EvictInvariant
    <3>2. Cached = {}
      BY <3>1 DEF Cached
    <3>3. QED
      BY <3>2, FS_EmptySet, LFUAssumption DEF Full
  <2>5. QED
    BY <2>3, <2>4
<1>3. CASE PutEvicting(k)
  <2> DEFINE v == Head(freqMap[minFreq])
  <2>1. /\ freqMap[minFreq] # <<>> /\ Full /\ k \notin Cached
        /\ IF v \in Cached THEN count' = [[count EXCEPT ![v] = 0] EXCEPT ![k] = 1]
                           ELSE count' = count
    BY <1>3 DEF PutEvicting, Insert
  <2>2. v \in Listed(freqMap[minFreq])
    <3>1. freqMap[minFreq] \in Seq(Key)
      BY <1>1
    <3>2. 1 \in DOMAIN freqMap[minFreq] /\ v = freqMap[minFreq][1]
      BY <2>1, <3>1
    <3>3. QED
      BY <3>2 DEF Listed
  <2> HIDE DEF v
  <2>3. v \in Cached
    BY <2>1 DEF Cached
  <2>4. \A j \in Key : count'[j] = IF j = k THEN 1 ELSE IF j = v THEN 0 ELSE count[j]
    BY <1>1, <2>1, <2>3
  <2>5. gone = {v}
    <3>1. v # k /\ v \in Key
      BY <2>1, <2>3 DEF Cached
    <3>2. \A j \in Key : j \in Cached /\ j \notin Cached' <=> j = v
      BY <2>1, <2>3, <2>4, <3>1 DEF Cached
    <3>3. QED
      BY <3>1, <3>2 DEF Cached
  <2>6. Cardinality(gone) = 1
    BY <2>5, FS_Singleton
  <2> HIDE DEF gone
  <2>7. Leftovers = {} => \A g \in gone, j \in Cached : Uses(g) <= Uses(j)
    BY <2>2, <2>3, <2>5, VictimIsLeastUsed
  <2>8. QED
    BY <2>1, <2>6, <2>7 DEF gone
<1>4. QED
  BY <1>2, <1>3

LEMMA StepIsLFU ==
    EvictInvariant /\ [LFUNext]_lfuVars =>
        [\A k \in Cached' \ Cached :
            LET gone == Cached \ Cached' IN
            ~raised =>
                /\ Cardinality(gone) = IF Full THEN 1 ELSE 0
                /\ Leftovers = {} => \A g \in gone, j \in Cached : Uses(g) <= Uses(j)]_lfuVars
<1> SUFFICES ASSUME EvictInvariant, NEW k \in Key,
                    \/ Get(k) \/ Replace(k) \/ Invalidate(k)
                    \/ PutWithoutEviction(k) \/ PutEvicting(k),
                    NEW x \in Cached' \ Cached, ~raised
             PROVE  LET gone == Cached \ Cached' IN
                    /\ Cardinality(gone) = IF Full THEN 1 ELSE 0
                    /\ Leftovers = {} => \A g \in gone, j \in Cached : Uses(g) <= Uses(j)
  BY DEF LFUNext
<1>1. count \in [Key -> 0 .. MaxCount + 1]
  BY DEF EvictInvariant, LFUInvariant, Sound
<1>2. CASE Get(k) \/ Replace(k) \/ Invalidate(k)
  <2>1. k \in Cached
    BY <1>1, <1>2, FrequencyType DEF Get, Replace, Invalidate, Cached
  <2>2. \A j \in Key \ {k} : count'[j] = count[j]
    BY <1>1, <1>2 DEF Get, Replace, Invalidate
  <2>3. FALSE
    BY <2>1, <2>2 DEF Cached
  <2>4. QED
    BY <2>3
<1>3. CASE PutWithoutEviction(k) \/ PutEvicting(k)
  BY <1>3, PutTakesPlace
<1>4. QED
  BY <1>2, <1>3

\* Until a put fails, a new line takes the place of exactly one when the cache is full, and of
\* one used least if nothing was left behind in the buckets (put, _min_freq).
THEOREM PutsEvictLeastUsed == LFUSpec => PutIsLFU
<1>1. LFUInit => EvictInvariant
  <2>1. LFUInit => LFUInvariant
    BY FrequencyType DEF LFUInit, LFUInvariant, Sound, OnceIn
  <2>2. QED
    BY <2>1 DEF LFUInit, EvictInvariant, Lingers
<1>2. QED
  BY <1>1, EvictStep, StepIsLFU, PTL DEF LFUSpec, PutIsLFU
====
