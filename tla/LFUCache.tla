---- MODULE LFUCache ----
(***************************************************************************)
(* LFUCache (src/src/nodes/cache_node.py), the store of a cache node when  *)
(* CACHE_REPLACEMENT_POLICY is LFU, as CacheNode uses it: every line it    *)
(* puts is new, so its access_count is 1.                                  *)
(*                                                                         *)
(* Buckets are not always in step with lines: invalidate leaves the key in *)
(* its bucket, and a line that is put in the place of another appears in   *)
(* the first bucket and stays in the one the old line was in.              *)
(*                                                                         *)
(* An operator named for what it gets wrong is a slip the properties must  *)
(* notice; no other definition uses it.                                    *)
(***************************************************************************)
EXTENDS Naturals, FiniteSets, SequencesExt

CONSTANTS
    Key,        \* the keys
    Capacity,   \* capacity
    MaxCount    \* bound: no line is used more often than this

ASSUME LFUAssumption ==
    /\ Capacity \in Nat \ {0}
    /\ MaxCount \in Nat \ {0}

VARIABLES
    count,     \* access_count of the line of each key in _cache, 0 for an absent key
    freqMap,   \* _freq_map: the keys of each bucket in order, <<>> for an absent bucket
    minFreq,   \* _min_freq
    raised     \* whether a put has failed with a KeyError

lfuVars == <<count, freqMap, minFreq, raised>>

\* Bucket 0 is looked at, and never filled.
Frequency == 0..MaxCount

Cached == {k \in Key : count[k] > 0}

Listed(bucket) == {bucket[i] : i \in DOMAIN bucket}

-----------------------------------------------------------------------------
LFUInit ==
    /\ count = [k \in Key |-> 0]
    /\ freqMap = [f \in Frequency |-> <<>>]
    /\ minFreq = 0
    /\ raised = FALSE

-----------------------------------------------------------------------------
\* A bucket has a key once.
Drop(bucket, k) ==
    IF k \in Listed(bucket) THEN RemoveAt(bucket, CHOOSE i \in DOMAIN bucket : bucket[i] = k)
                           ELSE bucket

\* Assigning to a key of an OrderedDict leaves it in its place.
Enlist(bucket, k) == IF k \in Listed(bucket) THEN bucket ELSE Append(bucket, k)

KeepMinFreq(k, n) ==
    /\ freqMap' = [freqMap EXCEPT ![n - 1] = Drop(@, k), ![n] = Enlist(@, k)]
    /\ UNCHANGED minFreq

\* _update_freq for a line whose access_count is n.
UpdateFreq(k, n) ==
    LET left == Drop(freqMap[n - 1], k) IN
    /\ freqMap' = [freqMap EXCEPT ![n - 1] = left, ![n] = Enlist(@, k)]
    /\ minFreq' = IF n > 1 /\ left = <<>> /\ minFreq = n - 1 THEN n ELSE minFreq

\* get counts the use only after it has moved the key, so the bucket of a line
\* is one behind its count, and its first use is no move.
Get(k) ==
    /\ count[k] \in 1 .. MaxCount
    /\ UpdateFreq(k, count[k])
    /\ count' = [count EXCEPT ![k] = @ + 1]
    /\ UNCHANGED raised

ReplaceInPlace(k) ==
    /\ k \in Cached
    /\ count' = [count EXCEPT ![k] = 1]
    /\ UNCHANGED <<freqMap, minFreq, raised>>

\* put for a key that is there: the new line replaces the old one.
Replace(k) ==
    /\ k \in Cached
    /\ UpdateFreq(k, 1)
    /\ count' = [count EXCEPT ![k] = 1]
    /\ UNCHANGED raised

Insert(k, buckets, counts) ==
    /\ count' = [counts EXCEPT ![k] = 1]
    /\ freqMap' = [buckets EXCEPT ![1] = Enlist(@, k)]
    /\ minFreq' = 1

Full == Cardinality(Cached) >= Capacity

\* put for a new key when there is room, or when the bucket to evict from is empty.
PutWithoutEviction(k) ==
    /\ k \notin Cached
    /\ ~Full \/ freqMap[minFreq] = <<>>
    /\ Insert(k, freqMap, count)
    /\ UNCHANGED raised

\* put for a new key in a full cache: the first key of the bucket goes.  If it is not
\* cached any more, del raises, with the key out of the bucket and the new one not stored.
PutEvicting(k) ==
    LET bucket  == freqMap[minFreq]
        victim  == Head(bucket)
        buckets == [freqMap EXCEPT ![minFreq] = Tail(@)]
    IN
    /\ k \notin Cached
    /\ Full
    /\ bucket # <<>>
    /\ IF victim \in Cached
       THEN /\ Insert(k, buckets, [count EXCEPT ![victim] = 0])
            /\ UNCHANGED raised
       ELSE /\ freqMap' = buckets
            /\ raised' = TRUE
            /\ UNCHANGED <<count, minFreq>>

Invalidate(k) ==
    /\ k \in Cached
    /\ count' = [count EXCEPT ![k] = 0]
    /\ UNCHANGED <<freqMap, minFreq, raised>>

LFUNext ==
    \E k \in Key : Get(k) \/ Replace(k) \/ PutWithoutEviction(k) \/ PutEvicting(k) \/ Invalidate(k)

LFUSpec == LFUInit /\ [][LFUNext]_lfuVars

-----------------------------------------------------------------------------
(* Properties *)

\* The bucket a line belongs in.
Uses(k) == IF count[k] = 1 THEN 1 ELSE count[k] - 1

\* Every line can be found for eviction in the bucket it belongs in, and in none
\* of a lower frequency: a line is never evicted as one used less than it was
\* (_update_freq, through replacements, failures and keys that come back).
Findable ==
    \A k \in Cached :
        /\ k \in Listed(freqMap[Uses(k)])
        /\ \A f \in Frequency : k \in Listed(freqMap[f]) => f >= Uses(k)

\* What invalidations and replacements have left in the buckets.
Leftovers ==
    {x \in Key \X Frequency :
        x[1] \in Listed(freqMap[x[2]]) /\ (x[1] \notin Cached \/ x[2] # Uses(x[1]))}

\* Until a put fails, a new line takes the place of exactly one when the cache is
\* full; and if nothing was left behind in the buckets, of one that is used least
\* (put, _min_freq over gets, evictions, replacements and invalidations).
PutIsLFU ==
    [][\A k \in Cached' \ Cached :
         LET gone == Cached \ Cached' IN
         ~raised =>
             /\ Cardinality(gone) = IF Full THEN 1 ELSE 0
             /\ Leftovers = {} => \A g \in gone, j \in Cached : Uses(g) <= Uses(j)]_lfuVars
====
