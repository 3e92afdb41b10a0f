------------------------------ MODULE Routing -------------------------------
(***************************************************************************)
(* One Kademlia routing table (crates/rtfsn-core/src/dht/routing.rs).      *)
(* Ids are tuples of bits, most significant first, instead of the 256 bits *)
(* of a NodeId; bucket i holds the nodes whose distance has its highest    *)
(* one at bit i, counted from the least significant.                       *)
(***************************************************************************)
EXTENDS Integers, Sequences, FiniteSets, SequencesExt, Sorting

CONSTANTS
    KeyBits,    \* KEY_BITS
    BucketSize, \* K_BUCKET_SIZE
    Local,      \* local_id
    MaxCount    \* bound: nodes asked for in a lookup

Id == [1 .. KeyBits -> {0, 1}]

ASSUME RoutingAssumption ==
    /\ KeyBits \in Nat \ {0} /\ BucketSize \in Nat \ {0}
    /\ Local \in Id /\ MaxCount \in Nat

VARIABLES
    buckets,    \* RoutingTable.buckets
    inserted    \* by bucket, the nodes inserted and not removed since, most recent last

routingVars == <<buckets, inserted>>

Bucket == 0 .. KeyBits - 1

xor_distance(a, b) == [i \in 1 .. KeyBits |-> (a[i] + b[i]) % 2]

(* Arrays compare from the most significant byte on.                       *)
Closer(a, b) ==
    \E i \in 1 .. KeyBits : a[i] < b[i] /\ \A j \in 1 .. i - 1 : a[j] = b[j]

leading_zeros(d) ==
    IF \A i \in 1 .. KeyBits : d[i] = 0 THEN KeyBits
    ELSE (CHOOSE i \in 1 .. KeyBits : d[i] = 1 /\ \A j \in 1 .. i - 1 : d[j] = 0) - 1

bucket_index(a, b) ==
    LET lz == leading_zeros(xor_distance(a, b))
    IN  IF lz >= KeyBits THEN KeyBits - 1 ELSE KeyBits - 1 - lz

(* Vec::retain: the others, in their order.                                *)
retain(bucket, node) == Subsequence(bucket, {i \in DOMAIN bucket : bucket[i] # node})

RoutingInit == buckets = [i \in Bucket |-> <<>>] /\ inserted = buckets

(* Faulty variant: a node seen again is not moved.                         *)
SeenAgain(bucket, node) == bucket

MovedToEnd(bucket, node) == Append(retain(bucket, node), node)

BucketAfter(bucket, node) ==
    IF Contains(bucket, node) THEN MovedToEnd(bucket, node)
    ELSE IF Len(bucket) < BucketSize THEN Append(bucket, node)
    ELSE bucket

(* insert returns early for the node itself, and false for a full bucket.  *)
insert(node) ==
    /\ node # Local
    /\ buckets' = [buckets EXCEPT ![bucket_index(Local, node)] = BucketAfter(@, node)]
    /\ inserted' = [inserted EXCEPT ![bucket_index(Local, node)] =
                        Append(retain(@, node), node)]

remove(node) ==
    /\ buckets' = [i \in Bucket |-> retain(buckets[i], node)]
    /\ inserted' = [i \in Bucket |-> retain(inserted[i], node)]

RoutingNext == \E node \in Id : insert(node) \/ remove(node)

RoutingSpec == RoutingInit /\ [][RoutingNext]_routingVars

(* A slot is a place in a bucket.                                          *)
Slots == UNION {{i} \X (1 .. Len(buckets[i])) : i \in Bucket}
NodeAt(slot) == buckets[slot[1]][slot[2]]

(* sort_by is stable.                                                      *)
SortsBefore(a, b, target) ==
    LET d(slot) == xor_distance(NodeAt(slot), target)
    IN  \/ Closer(d(a), d(b))
        \/ d(a) = d(b) /\ (a[1] < b[1] \/ (a[1] = b[1] /\ a[2] < b[2]))

find_closest(target, count) ==
    LET all == Arranged(Slots, {e \in Slots \X Slots : SortsBefore(e[1], e[2], target)})
        n   == Cardinality(Slots)
    IN  [k \in 1 .. (IF count < n THEN count ELSE n) |-> NodeAt(all[k])]
-----------------------------------------------------------------------------
(* The nodes of b are nodes of s, each once and in the order of s.         *)
Follows(b, s) ==
    /\ \A k \in DOMAIN b : \E p \in DOMAIN s : b[k] = s[p]
    /\ \A k, l \in DOMAIN b, p, q \in DOMAIN s :
          k < l /\ b[k] = s[p] /\ b[l] = s[q] => p < q

(* Every bucket holds distinct nodes, in the order they were last seen,    *)
(* and no more than BucketSize.  A lookup misses a node that was inserted  *)
(* only for nearer ones or because its bucket was full, which never        *)
(* happens in the buckets near the own id, where there are no more than    *)
(* BucketSize ids.  What it returns is sorted, nearest first, each node    *)
(* once.                                                                   *)
KnowsNeighbours ==
    /\ \A i \in Bucket :
          /\ Len(buckets[i]) <= BucketSize
          /\ Follows(buckets[i], inserted[i])
    /\ \A target \in Id : \A count \in 1 .. MaxCount :
          LET found == find_closest(target, count)
              d(n)  == xor_distance(n, target)
          IN  /\ \A k \in 1 .. Len(found) - 1 : Closer(d(found[k]), d(found[k + 1]))
              /\ \A i \in Bucket : \A n \in ToSet(inserted[i]) \ ToSet(found) :
                    \/ Len(found) = count /\ Closer(d(Last(found)), d(n))
                    \/ ~ Contains(buckets[i], n) /\ 2 ^ i > BucketSize
=============================================================================
