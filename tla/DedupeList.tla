------------------------------ MODULE DedupeList ------------------------------
(* 020_dedupe_list.c: the later duplicates of a list are unlinked and freed, with a *)
(* hash set of separate chains that doubles before its load passes 3/4.  Nodes are  *)
(* numbered in the order they are allocated; what is freed has garbage for a link.  *)
EXTENDS Naturals, Sequences, FiniteSets, Functions

CONSTANTS
    Value,     \* ints
    hash_int,  \* hash_int[v], as seen through the buckets there can be
    nbuckets0, \* what set_init is given, 8 in the code
    MaxNodes   \* bound: nodes of the list

\* What the code takes for granted: hashes are unsigned, and a set has a bucket.
DedupeAssumption ==
    /\ hash_int \in [Value -> Nat]
    /\ nbuckets0 \in Nat \ {0}
    /\ MaxNodes \in Nat

VARIABLES
    phase,       \* "build", "scan", "free" or "end" of check
    val, next,   \* the nodes; 0 is NULL
    head, tail,
    prev, cur,   \* locals of remove_later_duplicates
    buckets,     \* the set: buckets[b] is the chain of bucket b
    count,
    freed        \* nodes given back, in order

dedupeVars == <<phase, val, next, head, tail, prev, cur, buckets, count, freed>>

NULL    == 0
Garbage == MaxNodes + 1

nbuckets(bs) == Cardinality(DOMAIN bs)
EmptyBuckets(n) == [b \in 0..n - 1 |-> <<>>]
\* The code masks the hash, which is this for its powers of two.
BucketOf(key, bs) == hash_int[key] % nbuckets(bs)

DedupeInit ==
    /\ phase = "build"
    /\ val = <<>> /\ next = <<>>
    /\ head = NULL /\ tail = NULL /\ prev = NULL /\ cur = NULL
    /\ buckets = EmptyBuckets(nbuckets0)
    /\ count = 0
    /\ freed = <<>>

-------------------------------------------------------------------------------
(* The hash set *)

set_contains(key) == key \in Range(buckets[BucketOf(key, buckets)])

\* A key goes to the front of its chain.
Chained(bs, key) == [bs EXCEPT ![BucketOf(key, bs)] = <<key>> \o @]

\* Mutant of Grown: the entries stay in the buckets they were in.
GrownInPlace(bs) ==
    [b \in 0..2 * nbuckets(bs) - 1 |-> IF b \in DOMAIN bs THEN bs[b] ELSE <<>>]

\* A chain is moved key after key, from its front.
Moved(bs, chain) ==
    LET after[k \in 0..Len(chain)] == IF k = 0 THEN bs ELSE Chained(after[k - 1], chain[k])
    IN  after[Len(chain)]

\* set_grow moves the chains one after the other.
Grown(bs) ==
    LET after[b \in 0..nbuckets(bs)] ==
          IF b = 0 THEN EmptyBuckets(2 * nbuckets(bs)) ELSE Moved(after[b - 1], bs[b - 1])
    IN  after[nbuckets(bs)]

MustGrow == (count + 1) * 4 > nbuckets(buckets) * 3

set_add(key) ==
    /\ buckets' = Chained(IF MustGrow THEN Grown(buckets) ELSE buckets, key)
    /\ count' = count + 1

-------------------------------------------------------------------------------
(* The list *)

push_back(v) ==
    LET node == Len(val) + 1 IN
    /\ phase = "build"
    /\ node <= MaxNodes
    /\ val' = Append(val, v)
    /\ next' = Append(IF tail # NULL THEN [next EXCEPT ![tail] = node] ELSE next, NULL)
    /\ head' = IF tail # NULL THEN head ELSE node
    /\ tail' = node
    /\ UNCHANGED <<phase, prev, cur, buckets, count, freed>>

\* check calls remove_later_duplicates.
StartScan ==
    /\ phase = "build"
    /\ phase' = "scan"
    /\ cur' = head
    /\ UNCHANGED <<val, next, head, tail, prev, buckets, count, freed>>

\* cur repeats an earlier value: it is bypassed and freed, and prev stays.
RemoveDuplicate ==
    /\ phase = "scan"
    /\ cur # NULL
    /\ set_contains(val[cur])
    /\ next' = [next EXCEPT ![prev] = next[cur], ![cur] = Garbage]
    /\ freed' = Append(freed, cur)
    /\ cur' = next[cur]
    /\ UNCHANGED <<phase, val, head, tail, prev, buckets, count>>

KeepFirst ==
    /\ phase = "scan"
    /\ cur # NULL
    /\ ~set_contains(val[cur])
    /\ set_add(val[cur])
    /\ prev' = cur
    /\ cur' = next[cur]
    /\ UNCHANGED <<phase, val, next, head, tail, freed>>

\* set_free, and free_list starts at the head.
EndScan ==
    /\ phase = "scan"
    /\ cur = NULL
    /\ phase' = "free"
    /\ buckets' = EmptyBuckets(0)
    /\ UNCHANGED <<val, next, head, tail, prev, cur, count, freed>>

\* free_list reads the link before it frees the node.
FreeHead ==
    /\ phase = "free"
    /\ head # NULL
    /\ freed' = Append(freed, head)
    /\ next' = [next EXCEPT ![head] = Garbage]
    /\ head' = next[head]
    /\ UNCHANGED <<phase, val, tail, prev, cur, buckets, count>>

EndCheck ==
    /\ phase = "free"
    /\ head = NULL
    /\ phase' = "end"
    /\ UNCHANGED <<val, next, head, tail, prev, cur, buckets, count, freed>>

DedupeNext ==
    \/ \E v \in Value : push_back(v)
    \/ StartScan \/ RemoveDuplicate \/ KeepFirst \/ EndScan \/ FreeHead \/ EndCheck

-------------------------------------------------------------------------------

\* The nodes from the head on, as far as the links lead.
Nodes ==
    LET walk[k \in 0..MaxNodes] ==
          IF k = 0 THEN <<head>>
          ELSE LET w == walk[k - 1] IN
               IF w[Len(w)] \in {NULL, Garbage} THEN w ELSE Append(w, next[w[Len(w)]])
    IN  walk[MaxNodes]

\* How many nodes the scan has passed.
Passed == IF cur = NULL THEN Len(val) ELSE cur - 1

\* While the list is scanned, its nodes are the first occurrences among those passed and
\* all from cur on.
Remaining ==
    {m \in 1..Len(val) : m > Passed \/ \A e \in 1..m - 1 : val[e] # val[m]}

\* The set holds the value of every node passed once, in the chain where it is looked
\* for, and within its load.
SetIsExact ==
    LET seen == {val[m] : m \in 1..Passed} IN
    /\ \A b \in DOMAIN buckets :
         /\ Range(buckets[b]) = {v \in seen : BucketOf(v, buckets) = b}
         /\ IsInjective(buckets[b])
    /\ count = Cardinality(seen)
    /\ count * 4 <= nbuckets(buckets) * 3

\* remove_later_duplicates keeps exactly the first occurrences, in order; no link of
\* the list leads to a freed node, no node is freed twice, and none is left at the end.
FirstOccurrencesAreKept ==
    /\ phase = "scan" =>
         /\ Nodes[Len(Nodes)] = NULL
         /\ Range(Nodes) = Remaining \cup {NULL}
         /\ \A k \in 1..Len(Nodes) - 2 : Nodes[k] < Nodes[k + 1]
         /\ SetIsExact
    /\ phase # "build" =>
         /\ Range(freed) \cup (Range(Nodes) \ {NULL}) = 1..Len(val)
         /\ Range(freed) \cap Range(Nodes) = {}
         /\ IsInjective(freed)
    /\ phase = "end" => Range(freed) = 1..Len(val)

===============================================================================
