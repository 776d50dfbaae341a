------------------------------ MODULE ChainedSet ------------------------------
(* 020_hash_table_demo: a hash set of chains that doubles its buckets, with the     *)
(* count of what its lookups compare.                                                *)
EXTENDS Integers, Sequences, FiniteSets, Functions

CONSTANTS
    Key,        \* the keys
    HashFns,    \* the hash functions tried, [Key -> Nat]
    Buckets0,   \* buckets at first, 8 in the code
    MaxAdds     \* bound: calls of add

ChainsAssumption ==
    /\ HashFns \subseteq [Key -> Nat]
    /\ Buckets0 \in Nat \ {0} /\ MaxAdds \in Nat

VARIABLES
    hash_fn, chains,    \* chains[b]: the chain of bucket b (buckets in the code)
    size, compares, resizes,
    keys                \* history: the keys add was called with

chainsVars == <<hash_fn, chains, size, compares, resizes, keys>>

Buckets(table) == Cardinality(DOMAIN table)
Empty(length)  == [b \in 0..length - 1 |-> <<>>]

ChainsInit ==
    /\ hash_fn \in HashFns
    /\ chains = Empty(Buckets0)
    /\ size = 0 /\ compares = 0 /\ resizes = 0
    /\ keys = <<>>

Bucket(key, table) == hash_fn[key] % Buckets(table)

\* Keys that __contains__ compares: up to the one it looks for, or the whole chain.
Compared(key) ==
    LET chain == chains[Bucket(key, chains)]
    IN  IF key \in Range(chain)
        THEN CHOOSE i \in 1..Len(chain) : chain[i] = key /\ \A j \in 1..i - 1 : chain[j] # key
        ELSE Len(chain)

Appended(table, key) == [table EXCEPT ![Bucket(key, table)] = Append(@, key)]

\* Mutant of Doubled: chains move to the new table as they are.
DoubledInPlace ==
    [b \in 0..2 * Buckets(chains) - 1 |-> IF b \in DOMAIN chains THEN chains[b] ELSE <<>>]

\* _grow: chain by chain into twice as many buckets, and key by key.
Moved(table, chain) ==
    LET after[k \in 0..Len(chain)] ==
          IF k = 0 THEN table ELSE Appended(after[k - 1], chain[k])
    IN  after[Len(chain)]

Doubled ==
    LET after[b \in 0..Buckets(chains)] ==
          IF b = 0 THEN Empty(2 * Buckets(chains)) ELSE Moved(after[b - 1], chains[b - 1])
    IN  after[Buckets(chains)]

\* (size + 1) / len(buckets) > 0.75
Overloaded == 4 * (size + 1) > 3 * Buckets(chains)

add(key) ==
    /\ compares' = compares + Compared(key)
    /\ keys' = Append(keys, key)
    /\ UNCHANGED hash_fn
    /\ IF key \in Range(chains[Bucket(key, chains)])
       THEN UNCHANGED <<chains, size, resizes>>
       ELSE /\ chains' = Appended(IF Overloaded THEN Doubled ELSE chains, key)
            /\ size' = size + 1
            /\ resizes' = IF Overloaded THEN resizes + 1 ELSE resizes

ChainsNext == Len(keys) < MaxAdds /\ \E key \in Key : add(key)

-------------------------------------------------------------------------------

\* Whatever the hash function does and whenever the table grows, a bucket holds exactly the
\* keys that were added and are looked for in it, each once; the size that decides over
\* growth is the number of keys, and the load is at most 0.75.  No pair of calls costs more
\* than one comparison (add, _grow).
KeysAreFound ==
    /\ \A b \in DOMAIN chains :
          /\ Range(chains[b]) = {k \in Range(keys) : Bucket(k, chains) = b}
          /\ IsInjective(chains[b])
    /\ size = Cardinality(Range(keys))
    /\ 4 * size <= 3 * Buckets(chains)
    /\ 2 * compares <= Len(keys) * (Len(keys) - 1)

===============================================================================
