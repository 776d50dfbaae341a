------------------------------ MODULE LRUCache ------------------------------
(***************************************************************************)
(* The LRU cache of 001_practice_medium.py: a dictionary from keys to the  *)
(* nodes of a doubly linked list whose ends are two sentinel nodes.  A     *)
(* used entry is not moved but unlinked and replaced by a fresh node at    *)
(* the top, so the program's whole state is in the pointers.               *)
(*                                                                         *)
(* A node is a member of the pool Nodes; Python's collector makes a node   *)
(* available again once neither the dictionary nor the list refers to it.  *)
(***************************************************************************)
EXTENDS Integers, Sequences, FiniteSets

CONSTANTS
    Keys, Values,
    Capacity,
    Nodes,          \* the nodes a run may allocate: a pool, Capacity + 1 of them are enough
    head, tail,     \* the two sentinels
    None            \* Python's None

ASSUME CapacityAssumption == Capacity \in Nat
ASSUME ValuesAssumption == Values \subseteq Nat
ASSUME PoolAssumption == IsFiniteSet(Nodes) /\ Cardinality(Nodes) > Capacity
ASSUME SentinelAssumption ==
    /\ head # tail
    /\ {head, tail, None} \cap Nodes = {}
    /\ None \notin {head, tail}

VARIABLES
    next, prev,     \* the links of every node, sentinels included
    key, value,     \* what a node was constructed with
    key_dict,       \* the dictionary: a function from the keys held to nodes
    size,
    answer          \* what the last call returned

heap == <<next, prev, key, value>>
vars == <<next, prev, key, value, key_dict, size, answer>>

AllNodes == Nodes \cup {head, tail}
Pointers == AllNodes \cup {None}

Miss == -1          \* the answer of get when the key is not held

InUse == {key_dict[k] : k \in DOMAIN key_dict}

-----------------------------------------------------------------------------
(* Pointer surgery, on the pair of link fields *)

Links == [next |-> next, prev |-> prev]

\* node.next.prev = node.prev; node.prev.next = node.next
Unlink(l, n) ==
    [next |-> [l.next EXCEPT ![l.prev[n]] = l.next[n]],
     prev |-> [l.prev EXCEPT ![l.next[n]] = l.prev[n]]]

\* Mutant: the old top still points back to head.
InsertAtTopOneWay(l, n) ==
    LET top == l.next[head]
    IN  [next |-> [l.next EXCEPT ![head] = n, ![n] = top],
         prev |-> [l.prev EXCEPT ![n] = head]]

\* A node put between head and what was at the top.
InsertAtTop(l, n) ==
    LET top == l.next[head]
    IN  [next |-> [l.next EXCEPT ![head] = n, ![n] = top],
         prev |-> [l.prev EXCEPT ![n] = head, ![top] = n]]

SetLinks(l) == next' = l.next /\ prev' = l.prev

\* Node(k, v): any node that nothing refers to.
NewNode(n, k, v) ==
    /\ n \in Nodes \ InUse
    /\ key' = [key EXCEPT ![n] = k]
    /\ value' = [value EXCEPT ![n] = v]

Without(f, k) == [x \in DOMAIN f \ {k} |-> f[x]]
With(f, k, n) == [x \in DOMAIN f \cup {k} |-> IF x = k THEN n ELSE f[x]]

-----------------------------------------------------------------------------
(* The class *)

Init ==
    /\ next = [n \in AllNodes |-> IF n = head THEN tail ELSE None]
    /\ prev = [n \in AllNodes |-> IF n = tail THEN head ELSE None]
    /\ key = [n \in AllNodes |-> None]
    /\ value = [n \in AllNodes |-> 0]
    /\ key_dict = [k \in {} |-> None]
    /\ size = 0
    /\ answer = None

GetMiss(k) ==
    /\ k \notin DOMAIN key_dict
    /\ answer' = Miss
    /\ UNCHANGED <<heap, key_dict, size>>

GetHit(k) ==
    /\ k \in DOMAIN key_dict
    /\ \E n \in Nodes :
          LET old == key_dict[k]
          IN  /\ NewNode(n, k, value[old])
              /\ SetLinks(InsertAtTop(Unlink(Links, old), n))
              /\ key_dict' = With(key_dict, k, n)
              /\ answer' = value[old]
    /\ UNCHANGED size

\* What put does when the new node is one too many: the node before tail
\* leaves the list, and the dictionary forgets the key it was made with.
Evict(l, dict, names) ==
    LET last == l.prev[tail]
    IN  /\ SetLinks(Unlink(l, last))
        /\ key_dict' = Without(dict, names[last])

PutNew(k, v) ==
    /\ k \notin DOMAIN key_dict
    /\ \E n \in Nodes :
          LET linked == InsertAtTop(Links, n)
              dict == With(key_dict, k, n)
          IN  /\ NewNode(n, k, v)
              /\ IF size + 1 > Capacity
                 THEN Evict(linked, dict, key') /\ size' = size
                 ELSE SetLinks(linked) /\ key_dict' = dict /\ size' = size + 1
    /\ answer' = None

\* Mutant: an update that writes the value where it is, and is no use of it.
PutHeldInPlace(k, v) ==
    /\ k \in DOMAIN key_dict
    /\ value' = [value EXCEPT ![key_dict[k]] = v]
    /\ answer' = None
    /\ UNCHANGED <<next, prev, key, key_dict, size>>

PutHeld(k, v) ==
    /\ k \in DOMAIN key_dict
    /\ \E n \in Nodes :
          /\ NewNode(n, k, v)
          /\ SetLinks(InsertAtTop(Unlink(Links, key_dict[k]), n))
          /\ key_dict' = With(key_dict, k, n)
    /\ answer' = None
    /\ UNCHANGED size

Get(k) == GetMiss(k) \/ GetHit(k)
Put(k, v) == PutNew(k, v) \/ PutHeld(k, v)

Next == \E k \in Keys : Get(k) \/ \E v \in Values : Put(k, v)

Spec == Init /\ [][Next]_vars

-----------------------------------------------------------------------------
(* Properties *)

\* Types, and the two ends of the list stay what __init__ made them.
TypeOK ==
    /\ next \in [AllNodes -> Pointers]
    /\ prev \in [AllNodes -> Pointers]
    /\ key \in [AllNodes -> Keys \cup {None}]
    /\ value \in [AllNodes -> Values \cup {0}]
    /\ key_dict \in [DOMAIN key_dict -> Nodes]
    /\ DOMAIN key_dict \subseteq Keys
    /\ \A n \in InUse : value[n] \in Values
    /\ size \in 0..Capacity
    /\ answer \in Values \cup {Miss, None}

\* A list that holds exactly the nodes of U: whichever way a node is left, the
\* link back leads to it again, and no link leads out of U and the sentinels.
SoundList(l, U) ==
    /\ \A n \in U \cup {head} : l.next[n] \in U \cup {tail} /\ l.prev[l.next[n]] = n
    /\ \A n \in U \cup {tail} : l.prev[n] \in U \cup {head} /\ l.next[l.prev[n]] = n

\* The dictionary and the nodes name each other: the node found under a key was
\* made for that key, so evicting the node forgets the right key.
DictNamesItsNodes == \A k \in DOMAIN key_dict : key[key_dict[k]] = k

\* The pointers that get and put rewrite never leave a half-linked node, and the
\* dictionary never keeps a key whose node was evicted (get, put).
ListMatchesDictionary == SoundList(Links, InUse) /\ DictNamesItsNodes

\* size is counted by hand in put: it is the number of keys held, so the test
\* size > capacity is a test of the dictionary.
SizeIsExact == size = Cardinality(DOMAIN key_dict)

\* The three copies of what the cache holds, the linked list, the dictionary and
\* the counter, agree after every get and put.
BookkeepingAgrees == ListMatchesDictionary /\ SizeIsExact

-----------------------------------------------------------------------------
(* Refinement of RecencyCache *)

Hop[i \in 0..Cardinality(Nodes) + 1] ==
    IF i = 0 THEN head
    ELSE IF Hop[i - 1] \in Nodes \cup {head} THEN next[Hop[i - 1]] ELSE Hop[i - 1]

ListLength == Cardinality({i \in DOMAIN Hop : Hop[i] \in Nodes})

WalkFromHead ==
    [i \in 1..ListLength |-> [key |-> key[Hop[i]], value |-> value[Hop[i]]]]

Recency == INSTANCE RecencyCache WITH entries <- WalkFromHead

\* The cache answers every get and evicts at every put as a sequence of entries
\* ordered by last use would: the list read from head to tail is that sequence.
RefinesRecencyCache == Recency!RcSpec
=============================================================================
