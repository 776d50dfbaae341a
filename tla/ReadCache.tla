------------------------------- MODULE ReadCache -------------------------------
(* The third experiment of read_path_lab: one stream of requests, skewed towards the *)
(* first items, is read through LRU caches of several capacities.                    *)
EXTENDS Integers, Sequences, SequencesExt, FiniteSets, FiniteSetsExt

CONSTANTS
    Weights,     \* Weights[k]: parts of the requests that go to item k - 1, 1 / k^s
    Capacities,  \* the capacities tried
    MaxRequests  \* bound: requests of the stream

CacheAssumption ==
    /\ Weights \in Seq(Nat) /\ Capacities \subseteq Nat /\ MaxRequests \in Nat

VARIABLES
    data,    \* data[c]: keys of the OrderedDict of the cache of capacity c, oldest first
    hits,    \* hits[c]: requests answered by it
    stream   \* the requests made

cacheVars == <<data, hits, stream>>

CacheInit ==
    /\ data = [c \in Capacities |-> <<>>]
    /\ hits = [c \in Capacities |-> 0]
    /\ stream = <<>>

\* zipf_sampler: the first item whose cumulative weight reaches r.
cumulative(k) == MapThenSumSet(LAMBDA j : Weights[j], 1..k)
draw(r) == Min({k \in DOMAIN Weights : cumulative(k) >= r}) - 1

\* move_to_end of an OrderedDict, and of a new key: its insertion.
MovedToEnd(keys, k) == Append(RemoveFirst(keys, k), k)

\* Mutant of get: a hit leaves the order as it is.
getInPlace(keys, k) == [hit |-> Contains(keys, k), keys |-> keys]

\* LRU.get
get(keys, k) ==
    IF Contains(keys, k) THEN [hit |-> TRUE,  keys |-> MovedToEnd(keys, k)]
                         ELSE [hit |-> FALSE, keys |-> keys]

\* LRU.put: the oldest goes when there is one too many.
put(keys, k, capacity) ==
    LET held == MovedToEnd(keys, k)
    IN  IF Len(held) > capacity THEN Tail(held) ELSE held

\* The loop of exp_cache: what a cache does not have is put into it.
Request(k) ==
    LET got == [c \in Capacities |-> get(data[c], k)]
    IN  /\ hits' = [c \in Capacities |-> IF got[c].hit THEN hits[c] + 1 ELSE hits[c]]
        /\ data' = [c \in Capacities |->
                       IF got[c].hit THEN got[c].keys ELSE put(got[c].keys, k, c)]
        /\ stream' = Append(stream, k)

CacheNext ==
    /\ Len(stream) < MaxRequests
    /\ \E r \in 0..cumulative(Len(Weights)) - 1 : Request(draw(r))

-------------------------------------------------------------------------------

\* Keys requested since the key of request i was last, that one included.
Reuse(i) ==
    LET last == Max({j \in 1..i - 1 : stream[j] = stream[i]})
    IN  Cardinality({stream[j] : j \in last..i - 1})

\* A request is a hit exactly when fewer other keys than the capacity were requested since
\* its last use, at every capacity and over the whole stream; so a larger cache never hits
\* less often, which the table of hit rates takes for granted (LRU, exp_cache).
HitsFollowReuse ==
    \A c \in Capacities :
        hits[c] = Cardinality({i \in DOMAIN stream :
                                  /\ \E j \in 1..i - 1 : stream[j] = stream[i]
                                  /\ Reuse(i) <= c})

================================================================================
