--------------------------- MODULE PracticeProofs ---------------------------
(***************************************************************************)
(* Practice solutions, and Euler's steps, do what they are asked for every *)
(* value of the constants.                                                 *)
(*                                                                         *)
(* LRUCache: the pointers, the dictionary and the size agree, and the      *)
(* class implements RecencyCache.  That the list is linked soundly needs   *)
(* no order: SoundList speaks of a node and its two neighbours only, and   *)
(* the two pieces of pointer surgery the class is built from preserve it.  *)
(* The refinement does: the second invariant says that some sequence of    *)
(* nodes is the list, and each piece of surgery is shown to do to that     *)
(* sequence what RecencyCache does to its entries.  That the walk from     *)
(* head reads this sequence is the one induction, over the places of the   *)
(* list.                                                                   *)
(*                                                                         *)
(* CourseSchedule: the courses whose search has ended never lead back to   *)
(* themselves, whatever else has been visited, so a verdict is right when  *)
(* it is given.                                                            *)
(*                                                                         *)
(* OnePass: each loop has an invariant that says what the part of the list *)
(* it has passed over has been turned into.                                *)
(*                                                                         *)
(* MeetingBounds: what lies outside the borders of the spiral is written;  *)
(* the latest time so far is when the last car passed arrives.             *)
(*                                                                         *)
(* EulerSteps: a step multiplies what is left to the source by a number.   *)
(***************************************************************************)
EXTENDS LRUCache, CourseSchedule, OnePass, MeetingBounds, EulerSteps,
        FiniteSetTheorems, SequenceTheorems, WellFoundedInduction, TLAPS

LinkRecords == [next : [AllNodes -> Pointers], prev : [AllNodes -> Pointers]]

-----------------------------------------------------------------------------
(* The pointer surgery *)

\* Unlinking a node of a sound list leaves a sound list of the others.
LEMMA UnlinkIsSound ==
    ASSUME NEW l \in LinkRecords, NEW U \in SUBSET Nodes, NEW n \in U, SoundList(l, U)
    PROVE  Unlink(l, n) \in LinkRecords /\ SoundList(Unlink(l, n), U \ {n})
<1> DEFINE u == Unlink(l, n)
<1>0. n \in Nodes /\ n # head /\ n # tail /\ head # tail
  BY SentinelAssumption
<1>1. /\ l.next[n] \in U \cup {tail} /\ l.prev[l.next[n]] = n
      /\ l.prev[n] \in U \cup {head} /\ l.next[l.prev[n]] = n
  BY DEF SoundList
<1>2. /\ l.next[n] \in AllNodes /\ l.prev[n] \in AllNodes
      /\ l.next \in [AllNodes -> Pointers] /\ l.prev \in [AllNodes -> Pointers]
  BY <1>1 DEF AllNodes, LinkRecords
<1>3. /\ u.next = [l.next EXCEPT ![l.prev[n]] = l.next[n]]
      /\ u.prev = [l.prev EXCEPT ![l.next[n]] = l.prev[n]]
  BY DEF Unlink
<1>4. u \in LinkRecords
  BY <1>2, <1>3 DEF Unlink, LinkRecords, Pointers
<1>5. \A m \in (U \ {n}) \cup {head} :
          u.next[m] \in (U \ {n}) \cup {tail} /\ u.prev[u.next[m]] = m
  <2> SUFFICES ASSUME NEW m \in (U \ {n}) \cup {head}
               PROVE  u.next[m] \in (U \ {n}) \cup {tail} /\ u.prev[u.next[m]] = m
    OBVIOUS
  <2>1. /\ m \in AllNodes /\ m # n
        /\ l.next[m] \in U \cup {tail} /\ l.prev[l.next[m]] = m
        /\ l.next[m] \in AllNodes
    BY <1>0 DEF SoundList, AllNodes
  <2>2. CASE m = l.prev[n]
    BY <1>0, <1>1, <1>2, <1>3, <2>1, <2>2
  <2>3. CASE m # l.prev[n]
    BY <1>0, <1>1, <1>2, <1>3, <2>1, <2>3
  <2> QED BY <2>2, <2>3
<1>6. \A m \in (U \ {n}) \cup {tail} :
          u.prev[m] \in (U \ {n}) \cup {head} /\ u.next[u.prev[m]] = m
  <2> SUFFICES ASSUME NEW m \in (U \ {n}) \cup {tail}
               PROVE  u.prev[m] \in (U \ {n}) \cup {head} /\ u.next[u.prev[m]] = m
    OBVIOUS
  <2>1. /\ m \in AllNodes /\ m # n
        /\ l.prev[m] \in U \cup {head} /\ l.next[l.prev[m]] = m
        /\ l.prev[m] \in AllNodes
    BY <1>0 DEF SoundList, AllNodes
  <2>2. CASE m = l.next[n]
    BY <1>0, <1>1, <1>2, <1>3, <2>1, <2>2
  <2>3. CASE m # l.next[n]
    BY <1>0, <1>1, <1>2, <1>3, <2>1, <2>3
  <2> QED BY <2>2, <2>3
<1> QED BY <1>4, <1>5, <1>6 DEF SoundList

\* A node that is not in a sound list may be put at its top.
LEMMA InsertIsSound ==
    ASSUME NEW l \in LinkRecords, NEW U \in SUBSET Nodes, NEW n \in Nodes \ U,
           SoundList(l, U)
    PROVE  InsertAtTop(l, n) \in LinkRecords /\ SoundList(InsertAtTop(l, n), U \cup {n})
<1> DEFINE u == InsertAtTop(l, n)
           upmost == l.next[head]
<1>0. n # head /\ n # tail /\ head # tail
  BY SentinelAssumption
<1>1. upmost \in U \cup {tail} /\ l.prev[upmost] = head
  BY DEF SoundList
<1>2. /\ upmost \in AllNodes /\ upmost # n /\ upmost # head
      /\ n \in AllNodes /\ head \in AllNodes /\ tail \in AllNodes
      /\ l.next \in [AllNodes -> Pointers] /\ l.prev \in [AllNodes -> Pointers]
  BY <1>0, <1>1, SentinelAssumption DEF AllNodes, LinkRecords
<1>3. /\ u.next = [l.next EXCEPT ![head] = n, ![n] = upmost]
      /\ u.prev = [l.prev EXCEPT ![n] = head, ![upmost] = n]
  BY DEF InsertAtTop
<1>4. u \in LinkRecords
  BY <1>2, <1>3 DEF InsertAtTop, LinkRecords, Pointers
<1>5. /\ u.next[head] = n /\ u.next[n] = upmost
      /\ u.prev[n] = head /\ u.prev[upmost] = n
      /\ \A m \in AllNodes \ {head, n} : u.next[m] = l.next[m]
      /\ \A m \in AllNodes \ {upmost, n} : u.prev[m] = l.prev[m]
  BY <1>0, <1>2, <1>3
<1>6. \A m \in U \cup {n, head} : u.next[m] \in U \cup {n, tail} /\ u.prev[u.next[m]] = m
  <2> SUFFICES ASSUME NEW m \in U \ {n, head}
               PROVE  u.next[m] \in U \cup {n, tail} /\ u.prev[u.next[m]] = m
    BY <1>1, <1>5
  <2>1. /\ m \in AllNodes \ {head, n}
        /\ l.next[m] \in U \cup {tail} /\ l.prev[l.next[m]] = m
    BY DEF SoundList, AllNodes
  <2>2. l.next[m] \in AllNodes \ {upmost, n}
    BY <1>0, <1>1, <2>1 DEF AllNodes
  <2> QED BY <1>5, <2>1, <2>2
<1>7. \A m \in U \cup {n, tail} : u.prev[m] \in U \cup {n, head} /\ u.next[u.prev[m]] = m
  <2> SUFFICES ASSUME NEW m \in (U \cup {tail}) \ {n, upmost}
               PROVE  u.prev[m] \in U \cup {n, head} /\ u.next[u.prev[m]] = m
    BY <1>1, <1>5
  <2>1. /\ m \in AllNodes \ {upmost, n}
        /\ l.prev[m] \in U \cup {head} /\ l.next[l.prev[m]] = m
    BY DEF SoundList, AllNodes
  <2>2. l.prev[m] \in AllNodes \ {head, n}
    BY <1>0, <2>1 DEF AllNodes
  <2> QED BY <1>5, <2>1, <2>2
<1> QED BY <1>4, <1>6, <1>7 DEF SoundList

-----------------------------------------------------------------------------
(* The invariant *)

Inv ==
    /\ TypeOK
    /\ ListMatchesDictionary
    /\ SizeIsExact
    /\ IsFiniteSet(DOMAIN key_dict)

LEMMA LinksType == ASSUME TypeOK PROVE Links \in LinkRecords /\ InUse \in SUBSET Nodes
BY DEF TypeOK, Links, LinkRecords, InUse

LEMMA InitInv == Init => Inv
<1> SUFFICES ASSUME Init PROVE Inv
  OBVIOUS
<1>1. InUse = {} /\ DOMAIN key_dict = {}
  BY DEF Init, InUse
<1>2. TypeOK
  BY <1>1, CapacityAssumption, SentinelAssumption DEF Init, TypeOK, AllNodes, Pointers
<1>3. ListMatchesDictionary
  <2>1. SoundList(Links, {})
    BY SentinelAssumption DEF Init, SoundList, Links, AllNodes
  <2> QED BY <1>1, <2>1 DEF ListMatchesDictionary, DictNamesItsNodes
<1>4. SizeIsExact /\ IsFiniteSet(DOMAIN key_dict)
  BY <1>1, FS_EmptySet DEF Init, SizeIsExact
<1> QED BY <1>2, <1>3, <1>4 DEF Inv

\* The nodes in use when the node of a key is replaced: the names of the nodes
\* keep every other key's node.
LEMMA ReplacedNode ==
    ASSUME DictNamesItsNodes, NEW k \in DOMAIN key_dict, NEW n,
           key_dict' = With(key_dict, k, n)
    PROVE  InUse' = (InUse \ {key_dict[k]}) \cup {n}
<1>1. DOMAIN key_dict' = DOMAIN key_dict
  BY DEF With
<1>2. key_dict'[k] = n
  BY DEF With
<1>3. \A j \in DOMAIN key_dict \ {k} : key_dict'[j] = key_dict[j] /\ key_dict[j] # key_dict[k]
  BY DEF With, DictNamesItsNodes
<1> QED BY <1>1, <1>2, <1>3 DEF InUse

\* get of a key that is held, and put of one: its node makes way for a new one
\* with the key and some value.
LEMMA ReplaceInv ==
    ASSUME Inv,
           NEW k \in DOMAIN key_dict, NEW n, NEW v \in Values, NewNode(n, k, v),
           SetLinks(InsertAtTop(Unlink(Links, key_dict[k]), n)),
           key_dict' = With(key_dict, k, n), size' = size,
           answer' \in Values \cup {Miss, None}
    PROVE  Inv'
<1> DEFINE old == key_dict[k]
           l == InsertAtTop(Unlink(Links, old), n)
<1> USE DEF Inv
<1>1. /\ InUse' = (InUse \ {old}) \cup {n}
      /\ DOMAIN key_dict' = DOMAIN key_dict
  BY ReplacedNode DEF ListMatchesDictionary, With
<1>2. n \in Nodes \ InUse /\ old \in InUse /\ InUse \in SUBSET Nodes
  BY LinksType DEF NewNode, InUse
<1>3. l \in LinkRecords /\ SoundList(l, InUse')
  <2>1. Unlink(Links, old) \in LinkRecords /\ SoundList(Unlink(Links, old), InUse \ {old})
    BY <1>2, LinksType, UnlinkIsSound DEF ListMatchesDictionary
  <2> QED BY <1>1, <1>2, <2>1, InsertIsSound
<1>4. next' = l.next /\ prev' = l.prev
  BY DEF SetLinks
<1>5. /\ key' = [key EXCEPT ![n] = k] /\ value' = [value EXCEPT ![n] = v]
      /\ n \in AllNodes /\ k \in Keys
  BY <1>2 DEF NewNode, AllNodes, TypeOK
<1>6. \A j \in DOMAIN key_dict' : key_dict'[j] \in Nodes /\ key'[key_dict'[j]] = j
  <2> SUFFICES ASSUME NEW j \in DOMAIN key_dict
               PROVE  key_dict'[j] \in Nodes /\ key'[key_dict'[j]] = j
    BY <1>1
  <2>1. CASE j = k
    BY <1>2, <1>5, <2>1 DEF With, TypeOK
  <2>2. CASE j # k
    <3>1. key_dict'[j] = key_dict[j] /\ key_dict[j] \in InUse
      BY <2>2 DEF With, InUse
    <3>2. key[key_dict[j]] = j /\ key_dict[j] \in AllNodes
      BY <1>2, <3>1 DEF ListMatchesDictionary, DictNamesItsNodes, AllNodes
    <3> QED BY <1>2, <1>5, <3>1, <3>2 DEF TypeOK
  <2> QED BY <2>1, <2>2
<1>7. TypeOK'
  <2>1. next' \in [AllNodes -> Pointers] /\ prev' \in [AllNodes -> Pointers]
    BY <1>3, <1>4 DEF LinkRecords
  <2>2. key' \in [AllNodes -> Keys \cup {None}] /\ value' \in [AllNodes -> Values \cup {0}]
    BY <1>5 DEF TypeOK
  <2>3. key_dict' \in [DOMAIN key_dict' -> Nodes] /\ DOMAIN key_dict' \subseteq Keys
    BY <1>1, <1>6 DEF TypeOK, With
  <2>4. \A m \in InUse' : value'[m] \in Values
    BY <1>1, <1>2, <1>5 DEF TypeOK, AllNodes
  <2>5. size' \in 0..Capacity
    BY DEF TypeOK
  <2> QED BY <2>1, <2>2, <2>3, <2>4, <2>5 DEF TypeOK
<1>8. ListMatchesDictionary'
  BY <1>3, <1>4, <1>6 DEF ListMatchesDictionary, SoundList, Links, DictNamesItsNodes
<1>9. SizeIsExact' /\ IsFiniteSet(DOMAIN key_dict')
  BY <1>1 DEF SizeIsExact
<1> QED BY <1>7, <1>8, <1>9

\* A new node under a key that is not held: the dictionary with it and the nodes
\* still name each other.
LEMMA NewNames ==
    ASSUME Inv, NEW k \in Keys, k \notin DOMAIN key_dict, NEW v, NEW n, NewNode(n, k, v)
    PROVE  /\ \A j \in DOMAIN With(key_dict, k, n) :
                 /\ With(key_dict, k, n)[j] \in InUse \cup {n}
                 /\ key'[With(key_dict, k, n)[j]] = j
           /\ \A m \in InUse \cup {n} :
                 \E j \in DOMAIN With(key_dict, k, n) : With(key_dict, k, n)[j] = m
<1> DEFINE dict == With(key_dict, k, n)
<1> USE DEF Inv
<1>1. /\ n \in Nodes \ InUse /\ InUse \in SUBSET Nodes /\ n \in AllNodes
      /\ key' = [key EXCEPT ![n] = k]
  BY LinksType DEF NewNode, AllNodes
<1>2. DOMAIN dict = DOMAIN key_dict \cup {k}
  BY DEF With
<1>3. \A j \in DOMAIN dict : dict[j] \in InUse \cup {n} /\ key'[dict[j]] = j
  <2> SUFFICES ASSUME NEW j \in DOMAIN dict
               PROVE  dict[j] \in InUse \cup {n} /\ key'[dict[j]] = j
    OBVIOUS
  <2>1. CASE j = k
    BY <1>1, <1>2, <2>1 DEF With, TypeOK
  <2>2. CASE j # k
    <3>1. j \in DOMAIN key_dict /\ dict[j] = key_dict[j] /\ key_dict[j] \in InUse
      BY <1>2, <2>2 DEF With, InUse
    <3>2. key[key_dict[j]] = j /\ key_dict[j] \in AllNodes
      BY <1>1, <3>1 DEF ListMatchesDictionary, DictNamesItsNodes, AllNodes
    <3> QED BY <1>1, <3>1, <3>2 DEF TypeOK
  <2> QED BY <2>1, <2>2
<1>4. \A m \in InUse \cup {n} : \E j \in DOMAIN dict : dict[j] = m
  BY <1>2 DEF With, InUse
<1> QED BY <1>3, <1>4

\* The node that leaves is the only one the dictionary forgets.
LEMMA EvictedName ==
    ASSUME NEW U, NEW dict, NEW lowest \in U,
           \A j \in DOMAIN dict : dict[j] \in U /\ key'[dict[j]] = j,
           \A m \in U : \E j \in DOMAIN dict : dict[j] = m,
           key_dict' = Without(dict, key'[lowest])
    PROVE  InUse' = U \ {lowest}
<1>1. PICK i \in DOMAIN dict : dict[i] = lowest /\ key'[lowest] = i
  OBVIOUS
<1>2. DOMAIN key_dict' = DOMAIN dict \ {i}
  BY <1>1 DEF Without
<1>3. \A j \in DOMAIN dict \ {i} : key_dict'[j] = dict[j] /\ dict[j] # lowest
  BY <1>1 DEF Without
<1> QED BY <1>1, <1>2, <1>3 DEF InUse

\* put of a key that is not held.  The node that is evicted is never head, even
\* when the capacity is 0: the new node stands between head and tail.
LEMMA PutNewInv ==
    ASSUME Inv, NEW k \in Keys, NEW v \in Values, PutNew(k, v)
    PROVE  Inv'
<1> USE DEF Inv
<1>1. PICK n \in Nodes :
          LET linked == InsertAtTop(Links, n)
              dict == With(key_dict, k, n)
          IN  /\ NewNode(n, k, v)
              /\ IF size + 1 > Capacity
                 THEN Evict(linked, dict, key') /\ size' = size
                 ELSE SetLinks(linked) /\ key_dict' = dict /\ size' = size + 1
  BY DEF PutNew
<1> DEFINE linked == InsertAtTop(Links, n)
           dict == With(key_dict, k, n)
           used == InUse \cup {n}
<1>2. /\ k \notin DOMAIN key_dict /\ answer' = None
      /\ n \in Nodes \ InUse /\ InUse \in SUBSET Nodes /\ used \in SUBSET Nodes
      /\ n \in AllNodes /\ n # head /\ n # tail
  BY <1>1, LinksType, SentinelAssumption DEF PutNew, NewNode, AllNodes
<1>3. linked \in LinkRecords /\ SoundList(linked, used)
  BY <1>2, LinksType, InsertIsSound DEF ListMatchesDictionary
<1>4. key' = [key EXCEPT ![n] = k] /\ value' = [value EXCEPT ![n] = v]
  BY <1>1 DEF NewNode
<1>5. key' \in [AllNodes -> Keys \cup {None}] /\ value' \in [AllNodes -> Values \cup {0}]
  BY <1>2, <1>4 DEF TypeOK
<1>6. \A m \in used : value'[m] \in Values
  BY <1>2, <1>4 DEF TypeOK, AllNodes
<1>7. DOMAIN dict = DOMAIN key_dict \cup {k} /\ DOMAIN dict \subseteq Keys
  BY DEF With, TypeOK
<1>8. \A j \in DOMAIN dict : dict[j] \in used /\ key'[dict[j]] = j
  BY <1>1, <1>2, NewNames
<1>9. \A m \in used : \E j \in DOMAIN dict : dict[j] = m
  BY <1>1, <1>2, NewNames
<1>10. /\ IsFiniteSet(DOMAIN dict)
       /\ Cardinality(DOMAIN dict) = size + 1
  BY <1>2, <1>7, FS_AddElement DEF SizeIsExact
<1>11. size \in 0..Capacity /\ Capacity \in Nat
  BY CapacityAssumption DEF TypeOK
<1>12. CASE size + 1 > Capacity
  <2> DEFINE lowest == linked.prev[tail]
  <2>1. /\ SetLinks(Unlink(linked, lowest)) /\ size' = size
        /\ key_dict' = Without(dict, key'[lowest])
    BY <1>1, <1>12 DEF Evict
  <2>2. lowest \in used
    <3>1. linked.next[head] = n
      BY <1>2, LinksType, SentinelAssumption
         DEF InsertAtTop, LinkRecords, AllNodes
    <3>2. lowest \in used \cup {head} /\ linked.next[lowest] = tail
      BY <1>3 DEF SoundList
    <3> QED BY <1>2, <3>1, <3>2
  <2>3. PICK j \in DOMAIN dict : dict[j] = lowest
    BY <1>9, <2>2
  <2>4. key'[lowest] = j
    BY <1>8, <2>3
  <2>5. DOMAIN key_dict' = DOMAIN dict \ {j}
    BY <2>1, <2>4 DEF Without
  <2>6. \A i \in DOMAIN key_dict' : key_dict'[i] = dict[i] /\ dict[i] # lowest
    BY <1>8, <2>1, <2>4, <2>5 DEF Without
  <2>7. InUse' = used \ {lowest}
    <3> HIDE DEF dict, used, lowest
    <3> QED BY <1>8, <1>9, <2>1, <2>2, EvictedName
  <2>8. Unlink(linked, lowest) \in LinkRecords /\ SoundList(Unlink(linked, lowest), InUse')
    BY <1>2, <1>3, <2>2, <2>7, UnlinkIsSound
  <2>9. next' = Unlink(linked, lowest).next /\ prev' = Unlink(linked, lowest).prev
    BY <2>1 DEF SetLinks
  <2>10. \A i \in DOMAIN key_dict' : key_dict'[i] \in Nodes /\ key'[key_dict'[i]] = i
    BY <1>2, <1>8, <2>5, <2>6
  <2>11. TypeOK'
    <3>1. next' \in [AllNodes -> Pointers] /\ prev' \in [AllNodes -> Pointers]
      BY <2>8, <2>9 DEF LinkRecords
    <3>2. key_dict' \in [DOMAIN key_dict' -> Nodes] /\ DOMAIN key_dict' \subseteq Keys
      BY <1>7, <2>1, <2>5, <2>10 DEF Without
    <3>3. \A m \in InUse' : value'[m] \in Values
      BY <1>6, <2>7
    <3> QED BY <1>2, <1>5, <1>11, <2>1, <3>1, <3>2, <3>3 DEF TypeOK
  <2>12. ListMatchesDictionary'
    BY <2>8, <2>9, <2>10 DEF ListMatchesDictionary, SoundList, Links, DictNamesItsNodes
  <2>13. SizeIsExact' /\ IsFiniteSet(DOMAIN key_dict')
    <3>1. /\ IsFiniteSet(DOMAIN dict \ {j})
          /\ Cardinality(DOMAIN dict \ {j}) = Cardinality(DOMAIN dict) - 1
      BY <1>10, <2>3, FS_RemoveElement
    <3> QED BY <1>10, <1>11, <2>1, <2>5, <3>1 DEF SizeIsExact
  <2> QED BY <2>11, <2>12, <2>13
<1>13. CASE ~(size + 1 > Capacity)
  <2>1. SetLinks(linked) /\ key_dict' = dict /\ size' = size + 1
    BY <1>1, <1>13
  <2>2. InUse' = used
    BY <1>8, <1>9, <2>1 DEF InUse
  <2>3. next' = linked.next /\ prev' = linked.prev
    BY <2>1 DEF SetLinks
  <2>4. TypeOK'
    <3>1. next' \in [AllNodes -> Pointers] /\ prev' \in [AllNodes -> Pointers]
      BY <1>3, <2>3 DEF LinkRecords
    <3>2. key_dict' \in [DOMAIN key_dict' -> Nodes] /\ DOMAIN key_dict' \subseteq Keys
      BY <1>2, <1>7, <1>8, <2>1 DEF With
    <3>3. \A m \in InUse' : value'[m] \in Values
      BY <1>6, <2>2
    <3>4. size' \in 0..Capacity
      BY <1>11, <1>13, <2>1
    <3> QED BY <1>2, <1>5, <3>1, <3>2, <3>3, <3>4 DEF TypeOK
  <2>5. ListMatchesDictionary'
    BY <1>3, <1>8, <2>1, <2>2, <2>3
       DEF ListMatchesDictionary, SoundList, Links, DictNamesItsNodes
  <2>6. SizeIsExact' /\ IsFiniteSet(DOMAIN key_dict')
    BY <1>10, <2>1 DEF SizeIsExact
  <2> QED BY <2>4, <2>5, <2>6
<1> QED BY <1>12, <1>13

LEMMA NextInv == Inv /\ [Next]_vars => Inv'
<1> SUFFICES ASSUME Inv, [Next]_vars PROVE Inv'
  OBVIOUS
<1>1. CASE UNCHANGED vars
  BY <1>1 DEF vars, Inv, TypeOK, ListMatchesDictionary, SoundList, Links, InUse,
              DictNamesItsNodes, SizeIsExact
<1>2. ASSUME NEW k \in Keys, GetMiss(k) PROVE Inv'
  BY <1>2 DEF GetMiss, heap, Inv, TypeOK, ListMatchesDictionary, SoundList, Links, InUse,
              DictNamesItsNodes, SizeIsExact
<1>3. ASSUME NEW k \in Keys, GetHit(k) PROVE Inv'
  <2>1. PICK n \in Nodes :
            LET old == key_dict[k]
            IN  /\ NewNode(n, k, value[old])
                /\ SetLinks(InsertAtTop(Unlink(Links, old), n))
                /\ key_dict' = With(key_dict, k, n)
                /\ answer' = value[old]
    BY <1>3 DEF GetHit
  <2>2. k \in DOMAIN key_dict /\ size' = size /\ value[key_dict[k]] \in Values
    BY <1>3 DEF GetHit, Inv, TypeOK, InUse
  <2> QED BY <2>1, <2>2, ReplaceInv
<1>4. ASSUME NEW k \in Keys, NEW v \in Values, PutNew(k, v) PROVE Inv'
  BY <1>4, PutNewInv
<1>5. ASSUME NEW k \in Keys, NEW v \in Values, PutHeld(k, v) PROVE Inv'
  <2>1. PICK n \in Nodes :
            /\ NewNode(n, k, v)
            /\ SetLinks(InsertAtTop(Unlink(Links, key_dict[k]), n))
            /\ key_dict' = With(key_dict, k, n)
    BY <1>5 DEF PutHeld
  <2>2. k \in DOMAIN key_dict /\ size' = size /\ answer' \in Values \cup {Miss, None}
    BY <1>5 DEF PutHeld
  <2> QED BY <2>1, <2>2, ReplaceInv
<1> QED BY <1>1, <1>2, <1>3, <1>4, <1>5 DEF Next, Get, Put

\* Every variable keeps its type, and size never exceeds the capacity.
THEOREM TypeCorrect == Spec => []TypeOK
<1>1. Inv => TypeOK
  BY DEF Inv
<1> QED BY <1>1, InitInv, NextInv, PTL DEF Spec

\* The doubly linked list and the dictionary agree after every get and put.
THEOREM ListMatchesDictionaryHolds == Spec => []ListMatchesDictionary
<1>1. Inv => ListMatchesDictionary
  BY DEF Inv
<1> QED BY <1>1, InitInv, NextInv, PTL DEF Spec

\* size counts the keys of the dictionary.
THEOREM SizeIsExactHolds == Spec => []SizeIsExact
<1>1. Inv => SizeIsExact
  BY DEF Inv
<1> QED BY <1>1, InitInv, NextInv, PTL DEF Spec

\* The list, the dictionary and the counter agree after every get and put.
THEOREM BookkeepingAgreesHolds == Spec => []BookkeepingAgrees
<1>1. Inv => BookkeepingAgrees
  BY DEF Inv, BookkeepingAgrees
<1> QED BY <1>1, InitInv, NextInv, PTL DEF Spec

-----------------------------------------------------------------------------
(* The order of the list *)

\* The i-th node of a list whose nodes, from the top, are s.
Place(s, i) == IF i = 0 THEN head ELSE IF i <= Len(s) THEN s[i] ELSE tail

\* s is the list of links l, node by node, and has exactly the nodes of U.
Ordered(l, s, U) ==
    /\ \A i \in 1..Len(s) : s[i] \in U
    /\ \A m \in U : \E i \in 1..Len(s) : s[i] = m
    /\ \A i, j \in 1..Len(s) : s[i] = s[j] => i = j
    /\ \A i \in 0..Len(s) : /\ l.next[Place(s, i)] = Place(s, i + 1)
                            /\ l.prev[Place(s, i + 1)] = Place(s, i)

\* No place of a list is another.
LEMMA PlacesDiffer ==
    ASSUME NEW l, NEW s \in Seq(Nodes), NEW U \in SUBSET Nodes, Ordered(l, s, U),
           NEW i \in 0..Len(s) + 1, NEW j \in 0..Len(s) + 1, Place(s, i) = Place(s, j)
    PROVE  i = j
  BY SentinelAssumption DEF Ordered, Place

LEMMA PlacesAreNodes ==
    ASSUME NEW s \in Seq(Nodes), NEW i \in Nat
    PROVE  Place(s, i) \in AllNodes
  BY DEF Place, AllNodes

LEMMA RemoveAtIs ==
    ASSUME NEW S, NEW s \in Seq(S), NEW p \in 1..Len(s)
    PROVE  /\ Recency!RemoveAt(s, p) \in Seq(S)
           /\ Len(Recency!RemoveAt(s, p)) = Len(s) - 1
           /\ \A i \in 1..Len(s) - 1 :
                 Recency!RemoveAt(s, p)[i] = IF i < p THEN s[i] ELSE s[i + 1]
<1> DEFINE a == SubSeq(s, 1, p - 1)
           b == SubSeq(s, p + 1, Len(s))
<1>1. p \in Nat /\ Len(s) \in Nat /\ 1 <= p /\ p <= Len(s)
  OBVIOUS
<1>2. a \in Seq(S) /\ Len(a) = p - 1 /\ \A i \in 1..p - 1 : a[i] = s[i]
  BY <1>1
<1>3. b \in Seq(S) /\ Len(b) = Len(s) - p /\ \A i \in 1..Len(s) - p : b[i] = s[p + i]
  BY <1>1
<1>4. Recency!RemoveAt(s, p) = a \o b
  BY DEF Recency!RemoveAt
<1> HIDE DEF a, b
<1>5. a \o b \in Seq(S) /\ Len(a \o b) = Len(s) - 1
  <2>1. a \o b \in Seq(S) /\ Len(a \o b) = Len(a) + Len(b)
    BY <1>2, <1>3, ConcatProperties
  <2> QED
    BY <1>1, <1>2, <1>3, <2>1
<1>6. ASSUME NEW i \in 1..Len(s) - 1 PROVE (a \o b)[i] = IF i < p THEN s[i] ELSE s[i + 1]
  <2>1. CASE i < p
    BY <1>1, <1>2, <1>3, <2>1
  <2>2. CASE ~(i < p)
    <3>1. i - (p - 1) \in 1..Len(s) - p /\ p + (i - (p - 1)) = i + 1
      BY <1>1, <2>2
    <3>2. (a \o b)[i] = b[i - (p - 1)]
      BY <1>1, <1>2, <1>3, <2>2
    <3> QED
      BY <1>3, <2>2, <3>1, <3>2
  <2> QED
    BY <2>1, <2>2
<1> QED
  BY <1>4, <1>5, <1>6

LEMMA ConsIs ==
    ASSUME NEW S, NEW s \in Seq(S), NEW m \in S
    PROVE  /\ <<m>> \o s \in Seq(S)
           /\ Len(<<m>> \o s) = Len(s) + 1
           /\ \A i \in 1..Len(s) + 1 : (<<m>> \o s)[i] = IF i = 1 THEN m ELSE s[i - 1]
  OBVIOUS

\* Unlinking a node takes it out of the order.
LEMMA UnlinkKeepsOrder ==
    ASSUME NEW l \in LinkRecords, NEW s \in Seq(Nodes), NEW U \in SUBSET Nodes,
           Ordered(l, s, U), NEW p \in 1..Len(s)
    PROVE  Ordered(Unlink(l, s[p]), Recency!RemoveAt(s, p), U \ {s[p]})
<1> DEFINE n == s[p]
           u == Unlink(l, n)
           r == Recency!RemoveAt(s, p)
<1>1. /\ r \in Seq(Nodes) /\ Len(r) = Len(s) - 1 /\ Len(s) \in Nat
      /\ \A i \in 1..Len(s) - 1 : r[i] = IF i < p THEN s[i] ELSE s[i + 1]
  BY RemoveAtIs
<1>2. \A i \in 0..Len(s) : Place(r, i) = IF i < p THEN Place(s, i) ELSE Place(s, i + 1)
  BY <1>1 DEF Place
<1>3. Place(s, p) = n /\ l.prev[n] = Place(s, p - 1) /\ l.next[n] = Place(s, p + 1)
  <2>1. Place(s, p) = n /\ p - 1 \in 0..Len(s) /\ p \in 0..Len(s) /\ (p - 1) + 1 = p
    BY DEF Place
  <2> QED
    BY <2>1 DEF Ordered
<1>4. /\ u.next = [l.next EXCEPT ![Place(s, p - 1)] = Place(s, p + 1)]
      /\ u.prev = [l.prev EXCEPT ![Place(s, p + 1)] = Place(s, p - 1)]
  BY <1>3 DEF Unlink
<1>5. l.next \in [AllNodes -> Pointers] /\ l.prev \in [AllNodes -> Pointers]
  BY DEF LinkRecords
<1> HIDE DEF r, u, n
<1>6. ASSUME NEW i \in 0..Len(r)
      PROVE  u.next[Place(r, i)] = Place(r, i + 1) /\ u.prev[Place(r, i + 1)] = Place(r, i)
  <2>1. /\ i \in 0..Len(s) - 1 /\ i + 1 \in 0..Len(s)
        /\ \A j \in 0..Len(s) + 1 : Place(s, j) \in AllNodes
        /\ \A j, k \in 0..Len(s) + 1 : Place(s, j) = Place(s, k) => j = k
    BY <1>1, PlacesAreNodes, PlacesDiffer
  <2>2. \A j \in 0..Len(s) : /\ l.next[Place(s, j)] = Place(s, j + 1)
                             /\ l.prev[Place(s, j + 1)] = Place(s, j)
    BY DEF Ordered
  <2>3. \A j \in 0..Len(s) + 1 :
           /\ u.next[Place(s, j)] = IF j = p - 1 THEN Place(s, p + 1) ELSE l.next[Place(s, j)]
           /\ u.prev[Place(s, j)] = IF j = p + 1 THEN Place(s, p - 1) ELSE l.prev[Place(s, j)]
    BY <1>1, <1>4, <1>5, <2>1
  <2>4. CASE i < p - 1
    <3>1. Place(r, i) = Place(s, i) /\ Place(r, i + 1) = Place(s, i + 1)
      BY <1>1, <1>2, <2>1, <2>4
    <3>2. i \in 0..Len(s) /\ i \in 0..Len(s) + 1 /\ i + 1 \in 0..Len(s) + 1
      BY <1>1, <2>1
    <3>3. i # p - 1 /\ i + 1 # p + 1
      BY <2>4
    <3>4. u.next[Place(s, i)] = l.next[Place(s, i)]
      BY <2>3, <3>2, <3>3
    <3>5. u.prev[Place(s, i + 1)] = l.prev[Place(s, i + 1)]
      BY <2>3, <3>2, <3>3
    <3>6. l.next[Place(s, i)] = Place(s, i + 1) /\ l.prev[Place(s, i + 1)] = Place(s, i)
      BY <2>2, <3>2
    <3> QED
      BY <3>1, <3>4, <3>5, <3>6
  <2>5. CASE i = p - 1
    <3>1. Place(r, i) = Place(s, p - 1) /\ Place(r, i + 1) = Place(s, p + 1)
      BY <1>1, <1>2, <2>1, <2>5
    <3>2. p - 1 \in 0..Len(s) + 1 /\ p + 1 \in 0..Len(s) + 1
      BY <1>1
    <3>3. u.next[Place(s, p - 1)] = Place(s, p + 1)
      BY <2>3, <3>2
    <3>4. u.prev[Place(s, p + 1)] = Place(s, p - 1)
      BY <2>3, <3>2
    <3> QED
      BY <3>1, <3>3, <3>4
  <2>6. CASE i > p - 1
    <3>1. Place(r, i) = Place(s, i + 1) /\ Place(r, i + 1) = Place(s, i + 2)
      BY <1>1, <1>2, <2>1, <2>6
    <3>2. i + 1 \in 0..Len(s) /\ (i + 1) + 1 = i + 2 /\ i + 2 \in 0..Len(s) + 1
      BY <1>1, <2>1
    <3>3. i + 1 # p - 1 /\ i + 2 # p + 1
      BY <1>1, <2>1, <2>6
    <3>4. /\ u.next[Place(s, i + 1)] = l.next[Place(s, i + 1)]
          /\ u.prev[Place(s, i + 2)] = l.prev[Place(s, i + 2)]
      BY <2>3, <3>2, <3>3
    <3>5. /\ l.next[Place(s, i + 1)] = Place(s, i + 2)
          /\ l.prev[Place(s, i + 2)] = Place(s, i + 1)
      BY <2>2, <3>2
    <3> QED
      BY <3>1, <3>4, <3>5
  <2> QED
    BY <1>1, <2>4, <2>5, <2>6
<1>7. \A i \in 1..Len(r) : r[i] \in U \ {n}
  <2> SUFFICES ASSUME NEW i \in 1..Len(r) PROVE r[i] \in U \ {n}
    OBVIOUS
  <2>1. PICK j \in 1..Len(s) : j # p /\ r[i] = s[j]
    BY <1>1
  <2> QED
    BY <2>1 DEF Ordered, n
<1>8. \A m \in U \ {n} : \E i \in 1..Len(r) : r[i] = m
  <2> SUFFICES ASSUME NEW m \in U \ {n} PROVE \E i \in 1..Len(r) : r[i] = m
    OBVIOUS
  <2>1. PICK j \in 1..Len(s) : s[j] = m
    BY DEF Ordered
  <2>2. j # p
    BY <2>1 DEF n
  <2>3. CASE j < p
    <3>1. j \in 1..Len(r) /\ r[j] = m
      BY <1>1, <2>1, <2>3
    <3> QED
      BY <3>1
  <2>4. CASE j > p
    <3>1. j - 1 \in 1..Len(r) /\ r[j - 1] = m
      BY <1>1, <2>1, <2>4
    <3> QED
      BY <3>1
  <2> QED
    BY <2>2, <2>3, <2>4
<1>9. ASSUME NEW i \in 1..Len(r), NEW j \in 1..Len(r), r[i] = r[j] PROVE i = j
  <2> DEFINE From(k) == IF k < p THEN k ELSE k + 1
  <2>1. /\ From(i) \in 1..Len(s) /\ r[i] = s[From(i)]
        /\ From(j) \in 1..Len(s) /\ r[j] = s[From(j)]
        /\ From(i) = From(j) => i = j
    BY <1>1
  <2> HIDE DEF From
  <2> QED
    BY <1>9, <2>1 DEF Ordered
<1> QED
  BY <1>6, <1>7, <1>8, <1>9 DEF Ordered, r, u, n

\* A node put at the top becomes the first of the order.
LEMMA InsertAtTopKeepsOrder ==
    ASSUME NEW l \in LinkRecords, NEW s \in Seq(Nodes), NEW U \in SUBSET Nodes,
           Ordered(l, s, U), NEW n \in Nodes \ U
    PROVE  Ordered(InsertAtTop(l, n), <<n>> \o s, U \cup {n})
<1> DEFINE u == InsertAtTop(l, n)
           r == <<n>> \o s
<1>1. /\ r \in Seq(Nodes) /\ Len(r) = Len(s) + 1 /\ Len(s) \in Nat
      /\ \A i \in 1..Len(s) + 1 : r[i] = IF i = 1 THEN n ELSE s[i - 1]
  BY ConsIs
<1>2. /\ Place(s, 0) = head /\ Place(r, 0) = head /\ Place(r, 1) = n
      /\ \A i \in 1..Len(s) + 1 : Place(r, i + 1) = Place(s, i)
  BY <1>1 DEF Place
<1>3. l.next[head] = Place(s, 1)
  BY <1>1, <1>2 DEF Ordered
<1>4. /\ u.next = [l.next EXCEPT ![head] = n, ![n] = Place(s, 1)]
      /\ u.prev = [l.prev EXCEPT ![n] = head, ![Place(s, 1)] = n]
  BY <1>3 DEF InsertAtTop
<1>5. /\ l.next \in [AllNodes -> Pointers] /\ l.prev \in [AllNodes -> Pointers]
      /\ n \in AllNodes /\ n # head /\ n # tail /\ head \in AllNodes
  BY SentinelAssumption DEF LinkRecords, AllNodes
<1>6. /\ \A j \in 0..Len(s) + 1 : Place(s, j) \in AllNodes /\ Place(s, j) # n
      /\ \A j, k \in 0..Len(s) + 1 : Place(s, j) = Place(s, k) => j = k
  <2>1. ASSUME NEW j \in 0..Len(s) + 1 PROVE Place(s, j) # n
    BY <1>5, <2>1 DEF Place, Ordered
  <2> QED
    BY <1>1, <2>1, PlacesAreNodes, PlacesDiffer
<1> HIDE DEF r, u
<1>7. /\ u.next[head] = n /\ u.next[n] = Place(s, 1)
      /\ u.prev[n] = head /\ u.prev[Place(s, 1)] = n
      /\ \A j \in 1..Len(s) + 1 : u.next[Place(s, j)] = l.next[Place(s, j)]
      /\ \A j \in 2..Len(s) + 1 : u.prev[Place(s, j)] = l.prev[Place(s, j)]
  BY <1>1, <1>2, <1>4, <1>5, <1>6
<1>8. ASSUME NEW i \in 0..Len(r)
      PROVE  u.next[Place(r, i)] = Place(r, i + 1) /\ u.prev[Place(r, i + 1)] = Place(r, i)
  <2>1. CASE i = 0
    BY <1>2, <1>7, <2>1
  <2>2. CASE i = 1
    <3>1. Place(r, 2) = Place(s, 1)
      BY <1>1, <1>2
    <3> QED
      BY <1>2, <1>7, <2>2, <3>1
  <2>3. CASE i > 1
    <3>1. PICK j \in 1..Len(s) : i = j + 1
      <4>1. Len(s) \in Nat /\ Len(r) = Len(s) + 1
        BY <1>1
      <4>2. i - 1 \in 1..Len(s) /\ i = (i - 1) + 1
        BY <2>3, <4>1
      <4> QED
        BY <4>2
    <3>2. Place(r, i) = Place(s, j) /\ Place(r, i + 1) = Place(s, j + 1)
      BY <1>1, <1>2, <3>1
    <3>3. l.next[Place(s, j)] = Place(s, j + 1) /\ l.prev[Place(s, j + 1)] = Place(s, j)
      BY <1>1, <3>1 DEF Ordered
    <3>4. j \in 1..Len(s) + 1 /\ j + 1 \in 2..Len(s) + 1
      BY <1>1, <3>1
    <3>5. u.next[Place(s, j)] = l.next[Place(s, j)]
      BY <1>7, <3>4
    <3>6. u.prev[Place(s, j + 1)] = l.prev[Place(s, j + 1)]
      BY <1>7, <3>4
    <3> QED
      BY <3>2, <3>3, <3>5, <3>6
  <2> QED
    BY <2>1, <2>2, <2>3
<1>9. ASSUME NEW i \in 1..Len(r)
      PROVE  r[i] \in U \cup {n} /\ \A j \in 1..Len(r) : r[i] = r[j] => i = j
  <2> SUFFICES ASSUME NEW j \in 1..Len(r)
               PROVE  r[i] \in U \cup {n} /\ (r[i] = r[j] => i = j)
    OBVIOUS
  <2>1. /\ \A k \in 1..Len(s) : s[k] \in U
        /\ \A k, m \in 1..Len(s) : s[k] = s[m] => k = m
    BY DEF Ordered
  <2>2. /\ IF i = 1 THEN r[i] = n ELSE r[i] = s[i - 1] /\ i - 1 \in 1..Len(s)
        /\ IF j = 1 THEN r[j] = n ELSE r[j] = s[j - 1] /\ j - 1 \in 1..Len(s)
    BY <1>1
  <2>3. i - 1 = j - 1 => i = j
    OBVIOUS
  <2> QED
    BY <2>1, <2>2, <2>3
<1>10. \A m \in U \cup {n} : \E i \in 1..Len(r) : r[i] = m
  <2> SUFFICES ASSUME NEW m \in U \cup {n} PROVE \E i \in 1..Len(r) : r[i] = m
    OBVIOUS
  <2>1. CASE m = n
    BY <1>1, <2>1
  <2>2. CASE m \in U
    <3>1. PICK j \in 1..Len(s) : s[j] = m
      BY <2>2 DEF Ordered
    <3>2. j + 1 \in 1..Len(r) /\ r[j + 1] = m
      BY <1>1, <3>1
    <3> QED
      BY <3>2
  <2> QED
    BY <2>1, <2>2
<1> QED
  BY <1>8, <1>9, <1>10 DEF Ordered, r, u

-----------------------------------------------------------------------------
(* Reading the list from its head *)

\* Induction, on a set: the prover does not instantiate a predicate.
LEMMA NatSetInduction ==
    ASSUME NEW S, 0 \in S, \A m \in Nat : m \in S => m + 1 \in S
    PROVE  Nat \subseteq S
<1> DEFINE T == Nat \ S
           R == OpToRel(<, Nat)
<1>1. SUFFICES ASSUME T # {} PROVE FALSE
  OBVIOUS
<1>2. IsWellFoundedOn(R, Nat)
  BY NatLessThanWellFounded
<1>3. PICK x \in T : \A y \in T : ~(<<y, x>> \in R)
  BY <1>1, <1>2, WFMin
<1>4. \A a, b \in Nat : <<a, b>> \in R <=> a < b
  BY DEF OpToRel
<1>5. x \in Nat /\ x # 0 /\ x - 1 \in Nat /\ x - 1 < x
  OBVIOUS
<1>6. x - 1 \in S
  BY <1>3, <1>4, <1>5
<1> QED BY <1>5, <1>6

LEMMA IntervalSize == ASSUME NEW n \in Nat PROVE Cardinality(1..n) = n
<1>1. 1 \in Int /\ n \in Int
  OBVIOUS
<1>2. Cardinality(1..n) = IF 1 > n THEN 0 ELSE n - 1 + 1
  BY ONLY <1>1, FS_Interval
<1> QED
  BY <1>2

\* There are no more places in the order than nodes in the pool.
LEMMA OrderFits ==
    ASSUME NEW l, NEW s \in Seq(Nodes), NEW U \in SUBSET Nodes, Ordered(l, s, U)
    PROVE  Len(s) \in Nat /\ Cardinality(Nodes) \in Nat /\ Len(s) <= Cardinality(Nodes)
<1>1. IsFiniteSet(Nodes) /\ Cardinality(Nodes) \in Nat /\ Len(s) \in Nat
  BY PoolAssumption, FS_CardinalityType
<1>2. s \in Injection(1..Len(s), Nodes)
  <2>1. s \in [1..Len(s) -> Nodes]
    OBVIOUS
  <2>2. \A i, j \in 1..Len(s) : s[i] = s[j] => i = j
    BY DEF Ordered
  <2> QED
    BY <2>1, <2>2 DEF Injection, IsInjective
<1>3. Cardinality(1..Len(s)) <= Cardinality(Nodes)
  BY <1>1, <1>2, FS_Injection
<1>4. Cardinality(1..Len(s)) = Len(s)
  BY <1>1, IntervalSize
<1> QED
  BY <1>1, <1>3, <1>4

\* Hop goes from place to place, and stays at tail.
LEMMA HopsArePlaces ==
    ASSUME NEW s \in Seq(Nodes), NEW U \in SUBSET Nodes, Ordered(Links, s, U)
    PROVE  Hop = [i \in 0..Cardinality(Nodes) + 1 |-> Place(s, i)]
<1> DEFINE D == 0..Cardinality(Nodes) + 1
           Go(h) == [i \in D |-> IF i = 0 THEN head
                                 ELSE IF h[i - 1] \in Nodes \cup {head} THEN next[h[i - 1]]
                                                                        ELSE h[i - 1]]
           places == [i \in D |-> Place(s, i)]
<1>1. Len(s) \in Nat /\ Cardinality(Nodes) \in Nat /\ Len(s) <= Cardinality(Nodes)
  BY OrderFits
<1>2. ASSUME NEW i \in D, i # 0
      PROVE  Place(s, i) = IF Place(s, i - 1) \in Nodes \cup {head}
                           THEN next[Place(s, i - 1)] ELSE Place(s, i - 1)
  <2>1. i - 1 \in Nat /\ (i - 1) + 1 = i
    BY <1>1, <1>2
  <2>2. CASE i - 1 <= Len(s)
    <3>1. next[Place(s, i - 1)] = Place(s, i)
      BY <1>1, <2>1, <2>2 DEF Ordered, Links
    <3>2. Place(s, i - 1) \in Nodes \cup {head}
      BY <1>1, <2>1, <2>2 DEF Place
    <3> QED
      BY <3>1, <3>2
  <2>3. CASE i - 1 > Len(s)
    <3>1. Place(s, i - 1) = tail /\ Place(s, i) = tail
      BY <1>1, <1>2, <2>1, <2>3 DEF Place
    <3> QED
      BY <3>1, SentinelAssumption
  <2> QED
    BY <1>1, <2>1, <2>2, <2>3
<1>3. places = Go(places)
  <2>1. \A i \in D : i # 0 => i - 1 \in D
    BY <1>1
  <2>2. Place(s, 0) = head
    BY DEF Place
  <2> QED
    BY <1>2, <2>1, <2>2
<1>4. Hop = CHOOSE h : h = Go(h)
  BY DEF Hop
<1>5. Hop = Go(Hop)
  BY <1>3, <1>4
<1>6. Nat \subseteq {i \in Nat : i \in D => Hop[i] = Place(s, i)}
  <2> DEFINE S == {i \in Nat : i \in D => Hop[i] = Place(s, i)}
  <2>1. 0 \in S
    BY <1>1, <1>5 DEF Place
  <2>2. ASSUME NEW i \in Nat, i \in S PROVE i + 1 \in S
    <3>1. SUFFICES ASSUME i + 1 \in D PROVE Hop[i + 1] = Place(s, i + 1)
      OBVIOUS
    <3>2. i \in D /\ i + 1 # 0 /\ (i + 1) - 1 = i
      BY <1>1, <3>1
    <3>3. Hop[i] = Place(s, i)
      BY <2>2, <3>2
    <3>4. Hop[i + 1] = IF Hop[i] \in Nodes \cup {head} THEN next[Hop[i]] ELSE Hop[i]
      BY <1>5, <3>1, <3>2
    <3> HIDE DEF D
    <3> QED
      BY <1>2, <3>1, <3>2, <3>3, <3>4
  <2> HIDE DEF S
  <2> QED
    BY <2>1, <2>2, NatSetInduction DEF S
<1>7. DOMAIN Hop = D /\ Hop = [i \in D |-> Hop[i]]
  BY <1>5
<1>8. \A i \in D : Hop[i] = Place(s, i)
  BY <1>1, <1>6
<1> HIDE DEF D
<1>9. Hop = places
  BY <1>7, <1>8
<1> QED
  BY <1>9 DEF D

\* What is held, in the order of s.
EntriesOf(s) == [i \in 1..Len(s) |-> [key |-> key[s[i]], value |-> value[s[i]]]]

LEMMA WalkIsOrder ==
    \A s \in Seq(Nodes), U \in SUBSET Nodes :
        Ordered(Links, s, U) => WalkFromHead = EntriesOf(s)
<1> SUFFICES ASSUME NEW s \in Seq(Nodes), NEW U \in SUBSET Nodes, Ordered(Links, s, U)
             PROVE  WalkFromHead = EntriesOf(s)
  OBVIOUS
<1>1. Len(s) \in Nat /\ Cardinality(Nodes) \in Nat /\ Len(s) <= Cardinality(Nodes)
  BY OrderFits
<1>2. Hop = [i \in 0..Cardinality(Nodes) + 1 |-> Place(s, i)]
  BY HopsArePlaces
<1>3. {i \in DOMAIN Hop : Hop[i] \in Nodes} = 1..Len(s)
  BY <1>1, <1>2, SentinelAssumption DEF Place
<1>4. ListLength = Len(s)
  BY <1>1, <1>3, IntervalSize DEF ListLength
<1>5. \A i \in 1..Len(s) : Hop[i] = s[i]
  BY <1>1, <1>2 DEF Place
<1> QED
  BY <1>4, <1>5 DEF WalkFromHead, EntriesOf

-----------------------------------------------------------------------------
(* The steps, on the order of the list *)

\* A node of the list is the node of the key it was made for.
LEMMA NodesNameKeys ==
    ASSUME Inv, NEW s \in Seq(Nodes), Ordered(Links, s, InUse), NEW i \in 1..Len(s)
    PROVE  key[s[i]] \in DOMAIN key_dict /\ key_dict[key[s[i]]] = s[i]
<1>1. PICK k \in DOMAIN key_dict : key_dict[k] = s[i]
  BY DEF Ordered, InUse
<1> QED
  BY <1>1 DEF Inv, ListMatchesDictionary, DictNamesItsNodes

\* A key of the dictionary has its node in the list.
LEMMA KeysHavePlaces ==
    ASSUME NEW s, Ordered(Links, s, InUse), NEW k \in DOMAIN key_dict
    PROVE  \E p \in 1..Len(s) : s[p] = key_dict[k]
  BY DEF Ordered, InUse

\* The list is as long as size says.
LEMMA OrderLength ==
    ASSUME Inv, NEW s \in Seq(Nodes), Ordered(Links, s, InUse)
    PROVE  Len(s) = size
<1> DEFINE f == [i \in 1..Len(s) |-> key[s[i]]]
<1>1. \A i \in 1..Len(s) : key[s[i]] \in DOMAIN key_dict /\ key_dict[key[s[i]]] = s[i]
  BY NodesNameKeys
<1>2. f \in Injection(1..Len(s), DOMAIN key_dict)
  <2>1. f \in [1..Len(s) -> DOMAIN key_dict]
    BY <1>1
  <2>2. \A i, j \in 1..Len(s) : f[i] = f[j] => i = j
    BY <1>1 DEF Ordered
  <2> HIDE DEF f
  <2> QED
    BY <2>1, <2>2 DEF Injection, IsInjective
<1>3. \A k \in DOMAIN key_dict : \E i \in 1..Len(s) : f[i] = k
  <2> SUFFICES ASSUME NEW k \in DOMAIN key_dict PROVE \E i \in 1..Len(s) : f[i] = k
    OBVIOUS
  <2>1. PICK p \in 1..Len(s) : s[p] = key_dict[k]
    BY KeysHavePlaces
  <2> QED
    BY <2>1 DEF Inv, ListMatchesDictionary, DictNamesItsNodes
<1>4. f \in Surjection(1..Len(s), DOMAIN key_dict)
  BY <1>2, <1>3 DEF Surjection, Injection
<1>5. Cardinality(1..Len(s)) = Cardinality(DOMAIN key_dict)
  <2> HIDE DEF f
  <2> QED
    BY <1>2, <1>4, FS_Injection DEF Inv
<1> QED
  BY <1>5, IntervalSize DEF Inv, SizeIsExact

\* get of a key that is held, and put of one: the place of its node becomes the first.
LEMMA ReplaceOrder ==
    ASSUME Inv, NEW s \in Seq(Nodes), Ordered(Links, s, InUse),
           NEW k \in DOMAIN key_dict, NEW n, NEW v, NewNode(n, k, v),
           SetLinks(InsertAtTop(Unlink(Links, key_dict[k]), n)),
           key_dict' = With(key_dict, k, n),
           NEW p \in 1..Len(s), s[p] = key_dict[k]
    PROVE  Ordered(Links', <<n>> \o Recency!RemoveAt(s, p), InUse')
<1> DEFINE l == Unlink(Links, s[p])
           r == Recency!RemoveAt(s, p)
           U == InUse \ {s[p]}
<1>1. /\ InUse \in SUBSET Nodes /\ Links \in LinkRecords /\ n \in Nodes \ InUse
      /\ s[p] \in InUse
  BY LinksType DEF Inv, NewNode, InUse
<1>2. Ordered(l, r, U)
  BY <1>1, UnlinkKeepsOrder
<1>3. l \in LinkRecords
  BY <1>1, UnlinkIsSound DEF Inv, ListMatchesDictionary
<1>4. r \in Seq(Nodes)
  BY RemoveAtIs
<1>5. Ordered(InsertAtTop(l, n), <<n>> \o r, U \cup {n})
  <2> HIDE DEF l, r
  <2> QED
    BY <1>1, <1>2, <1>3, <1>4, InsertAtTopKeepsOrder
<1>6. Links' = InsertAtTop(l, n)
  BY DEF Links, SetLinks, InsertAtTop
<1>7. InUse' = U \cup {n}
  BY ReplacedNode DEF Inv, ListMatchesDictionary
<1> QED
  BY <1>5, <1>6, <1>7

\* put of a key that is not held, with room for it: its node is the new first.
LEMMA NewOrder ==
    ASSUME Inv, NEW s \in Seq(Nodes), Ordered(Links, s, InUse),
           NEW k \in Keys, k \notin DOMAIN key_dict, NEW n, NEW v, NewNode(n, k, v),
           SetLinks(InsertAtTop(Links, n)), key_dict' = With(key_dict, k, n)
    PROVE  Ordered(Links', <<n>> \o s, InUse')
<1>1. InUse \in SUBSET Nodes /\ Links \in LinkRecords /\ n \in Nodes \ InUse
  BY LinksType DEF Inv, NewNode
<1>2. Ordered(InsertAtTop(Links, n), <<n>> \o s, InUse \cup {n})
  BY <1>1, InsertAtTopKeepsOrder
<1>3. Links' = InsertAtTop(Links, n)
  BY DEF Links, SetLinks, InsertAtTop
<1>4. InUse' = InUse \cup {n}
  <2>1. /\ \A i \in DOMAIN key_dict' : key_dict'[i] \in InUse \cup {n}
        /\ \A m \in InUse \cup {n} : \E i \in DOMAIN key_dict' : key_dict'[i] = m
    BY NewNames
  <2> QED
    BY <2>1 DEF InUse
<1> QED
  BY <1>2, <1>3, <1>4

\* put of a key that is not held, in a full cache: its node is the new first, and
\* what was the last is no longer in the list.
LEMMA EvictOrder ==
    ASSUME Inv, NEW s \in Seq(Nodes), Ordered(Links, s, InUse),
           NEW k \in Keys, k \notin DOMAIN key_dict, NEW n, NEW v, NewNode(n, k, v),
           Evict(InsertAtTop(Links, n), With(key_dict, k, n), key')
    PROVE  Ordered(Links', Recency!RemoveAt(<<n>> \o s, Len(s) + 1), InUse')
<1> DEFINE l == InsertAtTop(Links, n)
           r == <<n>> \o s
           U == InUse \cup {n}
           dict == With(key_dict, k, n)
           lowest == l.prev[tail]
<1>1. InUse \in SUBSET Nodes /\ Links \in LinkRecords /\ n \in Nodes \ InUse
  BY LinksType DEF Inv, NewNode
<1>2. Ordered(l, r, U) /\ l \in LinkRecords
  BY <1>1, InsertAtTopKeepsOrder, InsertIsSound DEF Inv, ListMatchesDictionary
<1>3. r \in Seq(Nodes) /\ Len(r) = Len(s) + 1 /\ Len(s) \in Nat /\ U \in SUBSET Nodes
  BY <1>1, ConsIs
<1>4. /\ \A j \in DOMAIN dict : dict[j] \in U /\ key'[dict[j]] = j
      /\ \A m \in U : \E j \in DOMAIN dict : dict[j] = m
  BY NewNames
<1>5. SetLinks(Unlink(l, lowest)) /\ key_dict' = Without(dict, key'[lowest])
  BY DEF Evict
<1> HIDE DEF l, r, U, dict
<1>6. lowest = r[Len(s) + 1] /\ lowest \in U /\ Len(s) + 1 \in 1..Len(r)
  <2>1. Place(r, Len(r) + 1) = tail /\ Place(r, Len(r)) = r[Len(s) + 1]
    BY <1>3 DEF Place
  <2> QED
    BY <1>2, <1>3, <2>1 DEF Ordered
<1>7. Ordered(Unlink(l, lowest), Recency!RemoveAt(r, Len(s) + 1), U \ {lowest})
  BY <1>2, <1>3, <1>6, UnlinkKeepsOrder
<1>8. Links' = Unlink(l, lowest)
  BY <1>5 DEF Links, SetLinks, Unlink
<1>9. InUse' = U \ {lowest}
  <2> HIDE DEF lowest
  <2> QED
    BY <1>4, <1>5, <1>6, EvictedName
<1> QED
  BY <1>7, <1>8, <1>9 DEF r

-----------------------------------------------------------------------------
(* The refinement of RecencyCache *)

Entries == [key : Keys \cup {None}, value : Values \cup {0}]

LEMMA EntriesAre ==
    ASSUME TypeOK, NEW s \in Seq(Nodes)
    PROVE  /\ EntriesOf(s) \in Seq(Entries) /\ Len(EntriesOf(s)) = Len(s)
           /\ DOMAIN EntriesOf(s) = 1..Len(s)
           /\ \A i \in 1..Len(s) : EntriesOf(s)[i] = [key |-> key[s[i]], value |-> value[s[i]]]
<1>1. \A i \in 1..Len(s) : [key |-> key[s[i]], value |-> value[s[i]]] \in Entries
  BY DEF TypeOK, AllNodes, Entries
<1> QED
  BY <1>1 DEF EntriesOf

\* The same with the fields that the next state has.
LEMMA NextEntriesAre ==
    ASSUME TypeOK', NEW s \in Seq(Nodes)
    PROVE  /\ EntriesOf(s)' \in Seq(Entries) /\ Len(EntriesOf(s)') = Len(s)
           /\ \A i \in 1..Len(s) :
                 EntriesOf(s)'[i] = [key |-> key'[s[i]], value |-> value'[s[i]]]
<1>1. \A i \in 1..Len(s) : [key |-> key'[s[i]], value |-> value'[s[i]]] \in Entries
  BY DEF TypeOK, AllNodes, Entries
<1> QED
  BY <1>1 DEF EntriesOf

\* What is held under a key, and where.
LEMMA EntriesNameKeys ==
    ASSUME Inv, NEW s \in Seq(Nodes), Ordered(Links, s, InUse), NEW k
    PROVE  (\E i \in DOMAIN EntriesOf(s) : EntriesOf(s)[i].key = k) <=> k \in DOMAIN key_dict
<1>1. /\ DOMAIN EntriesOf(s) = 1..Len(s)
      /\ \A i \in 1..Len(s) : EntriesOf(s)[i].key = key[s[i]]
  <2>1. TypeOK
    BY DEF Inv
  <2>2. /\ DOMAIN EntriesOf(s) = 1..Len(s)
        /\ \A i \in 1..Len(s) : EntriesOf(s)[i] = [key |-> key[s[i]], value |-> value[s[i]]]
    BY <2>1, EntriesAre
  <2> QED
    BY <2>2
<1>2. ASSUME NEW i \in 1..Len(s) PROVE key[s[i]] \in DOMAIN key_dict
  BY NodesNameKeys
<1>3. ASSUME k \in DOMAIN key_dict PROVE \E i \in 1..Len(s) : key[s[i]] = k
  BY <1>3, KeysHavePlaces DEF Inv, ListMatchesDictionary, DictNamesItsNodes
<1> QED
  BY <1>1, <1>2, <1>3

\* The entries after a replacement.
LEMMA ReplaceEntries ==
    ASSUME TypeOK, TypeOK', NEW s \in Seq(Nodes), \A i \in 1..Len(s) : s[i] \in InUse,
           NEW k, NEW v, NEW n, NewNode(n, k, v), NEW p \in 1..Len(s)
    PROVE  EntriesOf(<<n>> \o Recency!RemoveAt(s, p))'
           = <<Recency!EntryOf(k, v)>> \o Recency!RemoveAt(EntriesOf(s), p)
<1> DEFINE r == <<n>> \o Recency!RemoveAt(s, p)
           e == EntriesOf(s)
           t == <<Recency!EntryOf(k, v)>> \o Recency!RemoveAt(e, p)
           m == Len(s)
<1>1. /\ n \in Nodes \ InUse /\ n \in AllNodes
      /\ key' = [key EXCEPT ![n] = k] /\ value' = [value EXCEPT ![n] = v]
      /\ key \in [AllNodes -> Keys \cup {None}] /\ value \in [AllNodes -> Values \cup {0}]
  BY DEF NewNode, AllNodes, TypeOK
<1>2. /\ r \in Seq(Nodes) /\ m \in Nat /\ Len(r) = m
      /\ \A i \in 1..m : r[i] = IF i = 1 THEN n ELSE Recency!RemoveAt(s, p)[i - 1]
  BY <1>1, RemoveAtIs, ConsIs
<1>3. \A i \in 1..m - 1 : Recency!RemoveAt(s, p)[i] = IF i < p THEN s[i] ELSE s[i + 1]
  BY RemoveAtIs
<1>4. /\ e \in Seq(Entries) /\ Len(e) = m
      /\ \A i \in 1..m : e[i] = [key |-> key[s[i]], value |-> value[s[i]]]
  BY EntriesAre
<1>5. /\ EntriesOf(r)' \in Seq(Entries) /\ Len(EntriesOf(r)') = m
      /\ \A i \in 1..m : EntriesOf(r)'[i] = [key |-> key'[r[i]], value |-> value'[r[i]]]
  <2> HIDE DEF r
  <2> QED
    BY <1>2, NextEntriesAre
<1>6. Recency!EntryOf(k, v) \in Entries
  <2>1. key'[n] = k /\ value'[n] = v
    BY <1>1
  <2> QED
    BY <1>1, <2>1 DEF Recency!EntryOf, Entries, TypeOK
<1>7. /\ Recency!RemoveAt(e, p) \in Seq(Entries) /\ Len(Recency!RemoveAt(e, p)) = m - 1
      /\ \A i \in 1..m - 1 : Recency!RemoveAt(e, p)[i] = IF i < p THEN e[i] ELSE e[i + 1]
  <2>1. e \in Seq(Entries) /\ p \in 1..Len(e) /\ Len(e) = m
    BY <1>4
  <2> HIDE DEF e, m
  <2>2. /\ Recency!RemoveAt(e, p) \in Seq(Entries)
        /\ Len(Recency!RemoveAt(e, p)) = Len(e) - 1
        /\ \A i \in 1..Len(e) - 1 :
              Recency!RemoveAt(e, p)[i] = IF i < p THEN e[i] ELSE e[i + 1]
    BY <2>1, RemoveAtIs
  <2> QED
    BY <2>1, <2>2
<1>8. /\ t \in Seq(Entries) /\ Len(t) = m
      /\ \A i \in 1..m : t[i] = IF i = 1 THEN Recency!EntryOf(k, v)
                                         ELSE Recency!RemoveAt(e, p)[i - 1]
  <2> HIDE DEF e
  <2> QED
    BY <1>2, <1>6, <1>7, ConsIs
<1>9. ASSUME NEW i \in 1..m PROVE EntriesOf(r)'[i] = t[i]
  <2>1. EntriesOf(r)'[i] = [key |-> key'[r[i]], value |-> value'[r[i]]]
    BY <1>5
  <2> HIDE DEF r, e, t
  <2>2. CASE i = 1
    BY <1>1, <1>2, <1>8, <2>1, <2>2 DEF Recency!EntryOf
  <2>3. CASE i # 1
    <3> DEFINE q == IF i - 1 < p THEN i - 1 ELSE i
    <3>1. q \in 1..m /\ i - 1 \in 1..m - 1 /\ (i - 1) + 1 = i
      BY <1>2, <2>3
    <3>2. r[i] = s[q] /\ t[i] = e[q]
      BY <1>2, <1>3, <1>7, <1>8, <2>3, <3>1
    <3> HIDE DEF q
    <3>3. key'[s[q]] = key[s[q]] /\ value'[s[q]] = value[s[q]]
      BY <1>1, <3>1
    <3> QED
      BY <1>4, <2>1, <3>1, <3>2, <3>3
  <2> QED
    BY <2>2, <2>3
<1> HIDE DEF r, t
<1>10. EntriesOf(r)' = t
  <2> DEFINE f == EntriesOf(r)'
  <2>1. f \in Seq(Entries) /\ Len(f) = m /\ t \in Seq(Entries) /\ Len(t) = m
    BY <1>5, <1>8
  <2>2. \A i \in 1..m : f[i] = t[i]
    BY <1>9
  <2> HIDE DEF f, m
  <2>3. f = t
    BY <2>1, <2>2, SeqEqual
  <2> QED
    BY <2>3 DEF f
<1> QED
  BY <1>10 DEF r, t

\* The entries after a new one, when the c newest are left.
LEMMA NewEntries ==
    ASSUME TypeOK, TypeOK', NEW s \in Seq(Nodes), \A i \in 1..Len(s) : s[i] \in InUse,
           NEW k, NEW v, NEW n, NewNode(n, k, v),
           NEW r \in Seq(Nodes), Len(r) <= Len(s) + 1,
           \A i \in 1..Len(r) : r[i] = IF i = 1 THEN n ELSE s[i - 1],
           Len(r) = IF Len(s) + 1 < Capacity THEN Len(s) + 1 ELSE Capacity
    PROVE  EntriesOf(r)' = Recency!Newest(<<Recency!EntryOf(k, v)>> \o EntriesOf(s))
<1> DEFINE e == EntriesOf(s)
           t == <<Recency!EntryOf(k, v)>> \o e
           u == SubSeq(t, 1, Len(r))
           m == Len(s)
<1>1. /\ n \in Nodes \ InUse /\ n \in AllNodes
      /\ key' = [key EXCEPT ![n] = k] /\ value' = [value EXCEPT ![n] = v]
      /\ key \in [AllNodes -> Keys \cup {None}] /\ value \in [AllNodes -> Values \cup {0}]
  BY DEF NewNode, AllNodes, TypeOK
<1>2. m \in Nat /\ Len(r) \in Nat
  OBVIOUS
<1>3. /\ e \in Seq(Entries) /\ Len(e) = m
      /\ \A i \in 1..m : e[i] = [key |-> key[s[i]], value |-> value[s[i]]]
  BY EntriesAre
<1>4. /\ EntriesOf(r)' \in Seq(Entries) /\ Len(EntriesOf(r)') = Len(r)
      /\ \A i \in 1..Len(r) : EntriesOf(r)'[i] = [key |-> key'[r[i]], value |-> value'[r[i]]]
  BY NextEntriesAre
<1>5. Recency!EntryOf(k, v) \in Entries
  <2>1. key'[n] = k /\ value'[n] = v
    BY <1>1
  <2> QED
    BY <1>1, <2>1 DEF Recency!EntryOf, Entries, TypeOK
<1>6. /\ t \in Seq(Entries) /\ Len(t) = m + 1
      /\ \A i \in 1..m + 1 : t[i] = IF i = 1 THEN Recency!EntryOf(k, v) ELSE e[i - 1]
  <2>1. e \in Seq(Entries) /\ Len(e) = m
    BY <1>3
  <2> HIDE DEF e, m
  <2>2. /\ t \in Seq(Entries) /\ Len(t) = Len(e) + 1
        /\ \A i \in 1..Len(e) + 1 : t[i] = IF i = 1 THEN Recency!EntryOf(k, v) ELSE e[i - 1]
    BY <1>5, <2>1, ConsIs
  <2> QED
    BY <2>1, <2>2
<1> HIDE DEF t, e
<1>7. u \in Seq(Entries) /\ Len(u) = Len(r) /\ \A i \in 1..Len(r) : u[i] = t[i]
  BY <1>2, <1>6
<1>8. ASSUME NEW i \in 1..Len(r) PROVE EntriesOf(r)'[i] = u[i]
  <2>1. EntriesOf(r)'[i] = [key |-> key'[r[i]], value |-> value'[r[i]]] /\ u[i] = t[i]
    BY <1>4, <1>7
  <2>2. CASE i = 1
    <3>1. r[i] = n /\ t[i] = Recency!EntryOf(k, v)
      BY <1>2, <1>6, <2>2
    <3>2. key'[r[i]] = k /\ value'[r[i]] = v
      BY <1>1, <3>1
    <3>3. EntriesOf(r)'[i] = Recency!EntryOf(k, v)
      BY <2>1, <3>2 DEF Recency!EntryOf
    <3> QED
      BY <2>1, <3>1, <3>3
  <2>3. CASE i # 1
    <3>1. i - 1 \in 1..m /\ r[i] = s[i - 1] /\ t[i] = e[i - 1]
      BY <1>2, <1>6, <2>3
    <3>2. key'[r[i]] = key[s[i - 1]] /\ value'[r[i]] = value[s[i - 1]]
      BY <1>1, <3>1
    <3>3. e[i - 1] = [key |-> key[s[i - 1]], value |-> value[s[i - 1]]]
      BY <1>3, <3>1
    <3>4. EntriesOf(r)'[i] = [key |-> key[s[i - 1]], value |-> value[s[i - 1]]]
      BY <2>1, <3>2
    <3> QED
      BY <2>1, <3>1, <3>3, <3>4
  <2> QED
    BY <2>2, <2>3
<1> HIDE DEF u
<1>9. EntriesOf(r)' = u
  BY <1>4, <1>7, <1>8, SeqEqual
<1>10. Recency!Newest(t) = u
  BY <1>6 DEF Recency!Newest, u
<1> QED
  BY <1>9, <1>10 DEF t, e

\* The list has an order: the refinement mapping reads it off.
OrderInv == Inv /\ \E s \in Seq(Nodes) : Ordered(Links, s, InUse)

LEMMA InitRefines == Init => OrderInv /\ Recency!RcInit
<1> SUFFICES ASSUME Init PROVE OrderInv /\ Recency!RcInit
  OBVIOUS
<1>1. Inv
  BY InitInv
<1>2. InUse = {}
  BY DEF Init, InUse
<1>3. <<>> \in Seq(Nodes) /\ Len(<<>>) = 0
  OBVIOUS
<1>4. Ordered(Links, <<>>, InUse)
  BY <1>2, <1>3, SentinelAssumption DEF Ordered, Links, Place, Init, AllNodes
<1>5. WalkFromHead = <<>>
  <2>1. WalkFromHead = EntriesOf(<<>>)
    BY <1>2, <1>3, <1>4, WalkIsOrder
  <2> QED
    BY <1>3, <2>1 DEF EntriesOf
<1> QED
  BY <1>1, <1>3, <1>4, <1>5 DEF OrderInv, Recency!RcInit, Init

\* get of a key that is held.
LEMMA GetHitRefines ==
    ASSUME OrderInv, Inv', NEW k \in Keys, GetHit(k),
           \A s \in Seq(Nodes), U \in SUBSET Nodes :
               Ordered(Links', s, U) => WalkFromHead' = EntriesOf(s)'
    PROVE  OrderInv' /\ Recency!RcGetHit(k)
<1>1. PICK s \in Seq(Nodes) : Ordered(Links, s, InUse)
  BY DEF OrderInv
<1>2. Inv /\ TypeOK /\ TypeOK' /\ InUse \in SUBSET Nodes /\ InUse' \in SUBSET Nodes
  BY LinksType DEF OrderInv, Inv, TypeOK, InUse
<1>3. PICK n \in Nodes :
          /\ NewNode(n, k, value[key_dict[k]])
          /\ SetLinks(InsertAtTop(Unlink(Links, key_dict[k]), n))
          /\ key_dict' = With(key_dict, k, n)
          /\ answer' = value[key_dict[k]]
  BY DEF GetHit
<1>4. k \in DOMAIN key_dict
  BY DEF GetHit
<1>5. PICK p \in 1..Len(s) : s[p] = key_dict[k]
  BY <1>1, <1>4, KeysHavePlaces
<1> DEFINE r == <<n>> \o Recency!RemoveAt(s, p)
           v == value[key_dict[k]]
<1>6. Ordered(Links', r, InUse') /\ r \in Seq(Nodes)
  BY <1>1, <1>2, <1>3, <1>4, <1>5, ReplaceOrder, RemoveAtIs, ConsIs
<1>7. WalkFromHead = EntriesOf(s) /\ WalkFromHead' = EntriesOf(r)'
  BY <1>1, <1>2, <1>6, WalkIsOrder
<1>8. EntriesOf(r)' = <<Recency!EntryOf(k, v)>> \o Recency!RemoveAt(EntriesOf(s), p)
  <2>1. \A i \in 1..Len(s) : s[i] \in InUse
    BY <1>1 DEF Ordered
  <2>2. TypeOK /\ TypeOK' /\ NewNode(n, k, v)
    BY <1>2, <1>3
  <2> HIDE DEF r
  <2>3. EntriesOf(<<n>> \o Recency!RemoveAt(s, p))' = <<Recency!EntryOf(k, v)>> \o Recency!RemoveAt(EntriesOf(s), p)
    BY <2>1, <2>2, ReplaceEntries
  <2> QED
    BY <2>3 DEF r
<1>9. p \in DOMAIN EntriesOf(s) /\ EntriesOf(s)[p] = Recency!EntryOf(k, v)
  <2>1. key[s[p]] = k
    BY <1>2, <1>4, <1>5 DEF Inv, ListMatchesDictionary, DictNamesItsNodes
  <2>2. EntriesOf(s)[p] = [key |-> key[s[p]], value |-> value[s[p]]] /\ p \in DOMAIN EntriesOf(s)
    BY <1>2, EntriesAre
  <2> QED
    BY <1>5, <2>1, <2>2 DEF Recency!EntryOf
<1>10. EntriesOf(s)[p].key = k /\ EntriesOf(s)[p].value = v
  BY <1>9 DEF Recency!EntryOf
<1>11. OrderInv'
  BY <1>6 DEF OrderInv
<1>12. Recency!RcGetHit(k)
  BY <1>3, <1>7, <1>8, <1>9, <1>10 DEF Recency!RcGetHit
<1> QED
  BY <1>11, <1>12

\* put of a key that is held.
LEMMA PutHeldRefines ==
    ASSUME OrderInv, Inv', NEW k \in Keys, NEW v \in Values, PutHeld(k, v),
           \A s \in Seq(Nodes), U \in SUBSET Nodes :
               Ordered(Links', s, U) => WalkFromHead' = EntriesOf(s)'
    PROVE  OrderInv' /\ Recency!RcPutHeld(k, v)
<1>1. PICK s \in Seq(Nodes) : Ordered(Links, s, InUse)
  BY DEF OrderInv
<1>2. Inv /\ TypeOK /\ TypeOK' /\ InUse \in SUBSET Nodes /\ InUse' \in SUBSET Nodes
  BY LinksType DEF OrderInv, Inv, TypeOK, InUse
<1>3. PICK n \in Nodes :
          /\ NewNode(n, k, v)
          /\ SetLinks(InsertAtTop(Unlink(Links, key_dict[k]), n))
          /\ key_dict' = With(key_dict, k, n)
  BY DEF PutHeld
<1>4. k \in DOMAIN key_dict /\ answer' = None
  BY DEF PutHeld
<1>5. PICK p \in 1..Len(s) : s[p] = key_dict[k]
  BY <1>1, <1>4, KeysHavePlaces
<1> DEFINE r == <<n>> \o Recency!RemoveAt(s, p)
<1>6. Ordered(Links', r, InUse') /\ r \in Seq(Nodes)
  BY <1>1, <1>2, <1>3, <1>4, <1>5, ReplaceOrder, RemoveAtIs, ConsIs
<1>7. WalkFromHead = EntriesOf(s) /\ WalkFromHead' = EntriesOf(r)'
  BY <1>1, <1>2, <1>6, WalkIsOrder
<1>8. EntriesOf(r)' = <<Recency!EntryOf(k, v)>> \o Recency!RemoveAt(EntriesOf(s), p)
  <2>1. \A i \in 1..Len(s) : s[i] \in InUse
    BY <1>1 DEF Ordered
  <2>2. TypeOK /\ TypeOK' /\ NewNode(n, k, v)
    BY <1>2, <1>3
  <2> HIDE DEF r
  <2>3. EntriesOf(<<n>> \o Recency!RemoveAt(s, p))' = <<Recency!EntryOf(k, v)>> \o Recency!RemoveAt(EntriesOf(s), p)
    BY <2>1, <2>2, ReplaceEntries
  <2> QED
    BY <2>3 DEF r
<1>9. p \in DOMAIN EntriesOf(s) /\ EntriesOf(s)[p].key = k
  <2>1. key[s[p]] = k
    BY <1>2, <1>4, <1>5 DEF Inv, ListMatchesDictionary, DictNamesItsNodes
  <2>2. EntriesOf(s)[p] = [key |-> key[s[p]], value |-> value[s[p]]] /\ p \in DOMAIN EntriesOf(s)
    BY <1>2, EntriesAre
  <2> QED
    BY <2>1, <2>2
<1>10. OrderInv'
  BY <1>6 DEF OrderInv
<1>11. Recency!RcPutHeld(k, v)
  BY <1>4, <1>7, <1>8, <1>9 DEF Recency!RcPutHeld
<1> QED
  BY <1>10, <1>11

\* put of a key that is not held.
LEMMA PutNewRefines ==
    ASSUME OrderInv, Inv', NEW k \in Keys, NEW v \in Values, PutNew(k, v),
           \A s \in Seq(Nodes), U \in SUBSET Nodes :
               Ordered(Links', s, U) => WalkFromHead' = EntriesOf(s)'
    PROVE  OrderInv' /\ Recency!RcPutNew(k, v)
<1>1. PICK s \in Seq(Nodes) : Ordered(Links, s, InUse)
  BY DEF OrderInv
<1>2. Inv /\ TypeOK /\ TypeOK' /\ InUse \in SUBSET Nodes /\ InUse' \in SUBSET Nodes
  BY LinksType DEF OrderInv, Inv, TypeOK, InUse
<1>3. PICK n \in Nodes :
          LET linked == InsertAtTop(Links, n)
              dict == With(key_dict, k, n)
          IN  /\ NewNode(n, k, v)
              /\ IF size + 1 > Capacity
                 THEN Evict(linked, dict, key') /\ size' = size
                 ELSE SetLinks(linked) /\ key_dict' = dict /\ size' = size + 1
  BY DEF PutNew
<1>4. k \notin DOMAIN key_dict /\ answer' = None /\ NewNode(n, k, v)
  BY <1>3 DEF PutNew
<1>5. Len(s) = size /\ size \in 0..Capacity /\ Capacity \in Nat
  BY <1>1, <1>2, OrderLength, CapacityAssumption DEF TypeOK
<1> DEFINE t == <<n>> \o s
<1>6. /\ t \in Seq(Nodes) /\ Len(t) = Len(s) + 1
      /\ \A i \in 1..Len(s) + 1 : t[i] = IF i = 1 THEN n ELSE s[i - 1]
  BY ConsIs
<1>7. \E r \in Seq(Nodes) :
          /\ Ordered(Links', r, InUse')
          /\ \A i \in 1..Len(r) : r[i] = IF i = 1 THEN n ELSE s[i - 1]
          /\ Len(r) = IF Len(s) + 1 < Capacity THEN Len(s) + 1 ELSE Capacity
  <2>1. CASE size + 1 > Capacity
    <3> DEFINE r == Recency!RemoveAt(t, Len(s) + 1)
    <3>1. Ordered(Links', r, InUse')
      BY <1>1, <1>2, <1>3, <1>4, <2>1, EvictOrder
    <3>2. Len(s) + 1 \in 1..Len(t)
      BY <1>5, <1>6
    <3>3. /\ r \in Seq(Nodes) /\ Len(r) = Len(t) - 1
          /\ \A i \in 1..Len(t) - 1 : r[i] = IF i < Len(s) + 1 THEN t[i] ELSE t[i + 1]
      <4> HIDE DEF t
      <4> QED
        BY <1>6, <3>2, RemoveAtIs
    <3> HIDE DEF r, t
    <3>4. Len(r) = Len(s) /\ \A i \in 1..Len(r) : r[i] = IF i = 1 THEN n ELSE s[i - 1]
      <4>1. Len(r) = Len(s) /\ Len(s) \in Nat
        BY <1>5, <1>6, <3>3
      <4>2. ASSUME NEW i \in 1..Len(s) PROVE r[i] = t[i]
        BY <1>5, <1>6, <3>3, <4>2
      <4> QED
        BY <1>6, <4>1, <4>2
    <3>5. Len(r) = IF Len(s) + 1 < Capacity THEN Len(s) + 1 ELSE Capacity
      BY <1>5, <2>1, <3>4
    <3> QED
      BY <3>1, <3>3, <3>4, <3>5
  <2>2. CASE ~(size + 1 > Capacity)
    <3>1. Ordered(Links', t, InUse')
      BY <1>1, <1>2, <1>3, <1>4, <2>2, NewOrder
    <3>2. Len(t) = IF Len(s) + 1 < Capacity THEN Len(s) + 1 ELSE Capacity
      BY <1>5, <1>6, <2>2
    <3> HIDE DEF t
    <3> QED
      BY <1>6, <3>1, <3>2
  <2> QED
    BY <2>1, <2>2
<1>8. PICK r \in Seq(Nodes) :
          /\ Ordered(Links', r, InUse')
          /\ \A i \in 1..Len(r) : r[i] = IF i = 1 THEN n ELSE s[i - 1]
          /\ Len(r) = IF Len(s) + 1 < Capacity THEN Len(s) + 1 ELSE Capacity
  BY <1>7
<1>9. WalkFromHead = EntriesOf(s) /\ WalkFromHead' = EntriesOf(r)'
  BY <1>1, <1>2, <1>8, WalkIsOrder
<1>10. EntriesOf(r)' = Recency!Newest(<<Recency!EntryOf(k, v)>> \o EntriesOf(s))
  <2>1. Len(r) <= Len(s) + 1
    BY <1>5, <1>8
  <2>2. \A i \in 1..Len(s) : s[i] \in InUse
    BY <1>1 DEF Ordered
  <2> QED
    BY <1>2, <1>4, <1>8, <2>1, <2>2, NewEntries
<1>11. ~Recency!Holds(k)
  BY <1>1, <1>2, <1>4, <1>9, EntriesNameKeys DEF Recency!Holds
<1>12. OrderInv'
  BY <1>8 DEF OrderInv
<1>13. Recency!RcPutNew(k, v)
  BY <1>4, <1>9, <1>10, <1>11 DEF Recency!RcPutNew
<1> QED
  BY <1>12, <1>13

\* get of a key that is not held, and a step of nobody, leave the list alone.
LEMMA IdleRefines ==
    ASSUME OrderInv, Inv', UNCHANGED <<heap, key_dict, size>>,
           \A s \in Seq(Nodes), U \in SUBSET Nodes :
               Ordered(Links', s, U) => WalkFromHead' = EntriesOf(s)'
    PROVE  /\ OrderInv' /\ WalkFromHead' = WalkFromHead
           /\ \A k : Recency!Holds(k) <=> k \in DOMAIN key_dict
<1>1. PICK s \in Seq(Nodes) : Ordered(Links, s, InUse)
  BY DEF OrderInv
<1>2. Inv /\ InUse \in SUBSET Nodes
  BY LinksType DEF OrderInv, Inv
<1>3. Links' = Links /\ InUse' = InUse /\ key' = key /\ value' = value
  BY DEF heap, Links, InUse
<1>4. OrderInv'
  BY <1>1, <1>3 DEF OrderInv
<1>5. WalkFromHead = EntriesOf(s) /\ WalkFromHead' = EntriesOf(s)'
  BY <1>1, <1>2, <1>3, WalkIsOrder
<1>6. EntriesOf(s)' = EntriesOf(s)
  BY <1>3 DEF EntriesOf
<1>7. \A k : Recency!Holds(k) <=> k \in DOMAIN key_dict
  BY <1>1, <1>2, <1>5, EntriesNameKeys DEF Recency!Holds
<1> QED
  BY <1>4, <1>5, <1>6, <1>7

LEMMA StepRefines ==
    ASSUME OrderInv, Inv', [Next]_vars,
           \A s \in Seq(Nodes), U \in SUBSET Nodes :
               Ordered(Links', s, U) => WalkFromHead' = EntriesOf(s)'
    PROVE  OrderInv' /\ [Recency!RcNext]_(Recency!rcVars)
<1>1. CASE UNCHANGED vars
  <2>1. UNCHANGED <<heap, key_dict, size>> /\ answer' = answer
    BY <1>1 DEF vars, heap
  <2> QED
    BY <2>1, IdleRefines DEF Recency!rcVars
<1>2. ASSUME NEW k \in Keys, GetMiss(k) PROVE OrderInv' /\ Recency!RcGetMiss(k)
  <2>1. UNCHANGED <<heap, key_dict, size>> /\ answer' = Miss /\ k \notin DOMAIN key_dict
    BY <1>2 DEF GetMiss
  <2> QED
    BY <2>1, IdleRefines DEF Recency!RcGetMiss, Recency!Miss, Miss
<1>3. ASSUME NEW k \in Keys, GetHit(k) PROVE OrderInv' /\ Recency!RcGetHit(k)
  BY <1>3, GetHitRefines
<1>4. ASSUME NEW k \in Keys, NEW v \in Values, PutNew(k, v)
      PROVE  OrderInv' /\ Recency!RcPutNew(k, v)
  BY <1>4, PutNewRefines
<1>5. ASSUME NEW k \in Keys, NEW v \in Values, PutHeld(k, v)
      PROVE  OrderInv' /\ Recency!RcPutHeld(k, v)
  BY <1>5, PutHeldRefines
<1> QED
  BY <1>1, <1>2, <1>3, <1>4, <1>5 DEF Next, Get, Put, Recency!RcNext

\* The pointer program answers and evicts as the sequence of entries ordered by
\* last use does: every step of the class is a step of RecencyCache, or none.
THEOREM RefinesRecencyCacheHolds == Spec => RefinesRecencyCache
<1>1. Init => OrderInv /\ Recency!RcInit
  BY InitRefines
<1>2. (\A s \in Seq(Nodes), U \in SUBSET Nodes :
          Ordered(Links, s, U) => WalkFromHead = EntriesOf(s))'
  BY WalkIsOrder, PTL
<1>3. OrderInv /\ [Next]_vars => OrderInv' /\ [Recency!RcNext]_(Recency!rcVars)
  <2> SUFFICES ASSUME OrderInv, [Next]_vars
               PROVE  OrderInv' /\ [Recency!RcNext]_(Recency!rcVars)
    OBVIOUS
  <2>1. Inv'
    BY NextInv DEF OrderInv
  <2> QED
    BY <1>2, <2>1, StepRefines
<1> QED
  BY <1>1, <1>3, PTL DEF Spec, RefinesRecencyCache, Recency!RcSpec

-----------------------------------------------------------------------------
(* canFinish *)

\* The pairs read so far, as edges of the lists.
Edge(b, a) == \E m \in DOMAIN al[b] : al[b][m] = a

Frames == [node : Courses, passed : Nat]

CoursesType ==
    /\ prerequisites \in Seq(Courses \X Courses)
    /\ joined \in 0..Len(prerequisites)
    /\ al \in [Courses -> Seq(Courses)]
    /\ course \in 0..numCourses
    /\ calls \in Seq(Frames)
    /\ visited \in SUBSET Courses /\ path \in SUBSET Courses
    /\ verdict \in {"open", "False", "None"}
    /\ joined < Len(prerequisites) =>
          course = 0 /\ calls = <<>> /\ visited = {} /\ verdict = "open"

\* The lists hold the pairs that were joined, and no others.
ListsHoldPairs ==
    \A a, b \in Courses : Edge(b, a) <=> \E m \in 1..joined : prerequisites[m] = <<a, b>>

\* The path is the nodes of the calls, each of which is passed on by the one below it.
PathIsCalls ==
    /\ verdict = "open" => path = {calls[j].node : j \in DOMAIN calls}
    /\ verdict # "open" => calls = <<>>
    /\ \A j, m \in DOMAIN calls : calls[j].node = calls[m].node => j = m
    /\ \A j \in DOMAIN calls : calls[j].node \in visited
    /\ \A j \in DOMAIN calls : calls[j].passed \in 0..Len(al[calls[j].node])
    /\ \A j \in DOMAIN calls : j < Len(calls) =>
          /\ calls[j].passed > 0
          /\ al[calls[j].node][calls[j].passed] = calls[j + 1].node

\* Courses whose search is over.
Done == visited \ path

\* What a call has passed on is done, but for the call above it.
PassedIsDone ==
    verdict = "open" => \A j \in DOMAIN calls : \A m \in 1..calls[j].passed :
        al[calls[j].node][m] \in Done \/ (m = calls[j].passed /\ j < Len(calls))

\* Courses that come after a done one are done, and no set of them waits for itself.
DoneIsClosed == verdict = "open" => \A b \in Done, a \in Courses : Edge(b, a) => a \in Done

Waits(S) == \A a \in S : \E b \in S : Edge(b, a)

DoneIsFree == verdict = "open" => \A S \in SUBSET Done : Waits(S) => S = {}

SearchedIsVisited == verdict = "open" => \A c \in 0..course - 1 : c \in visited

VerdictIsRight == verdict # "open" => joined = Len(prerequisites) /\ (verdict = "False" <=> Deadlocked)

CoursesInv ==
    /\ CoursesType /\ ListsHoldPairs /\ PathIsCalls /\ PassedIsDone
    /\ DoneIsClosed /\ DoneIsFree /\ SearchedIsVisited /\ VerdictIsRight

LEMMA CoursesStart == CoursesInit => CoursesInv
<1> SUFFICES ASSUME CoursesInit PROVE CoursesInv
  OBVIOUS
<1>1. CoursesType
  <2>1. PICK m \in 0..MaxEdges : prerequisites \in [1..m -> Courses \X Courses]
    BY DEF CoursesInit
  <2>2. prerequisites \in Seq(Courses \X Courses)
    BY <2>1
  <2> QED
    BY <2>2, CoursesAssumption DEF CoursesInit, CoursesType, Frames
<1>2. ListsHoldPairs
  BY DEF CoursesInit, ListsHoldPairs, Edge
<1>3. PathIsCalls
  BY DEF CoursesInit, PathIsCalls
<1>4. PassedIsDone /\ DoneIsClosed /\ DoneIsFree
  BY DEF CoursesInit, PassedIsDone, DoneIsClosed, DoneIsFree, Done
<1>5. SearchedIsVisited /\ VerdictIsRight
  BY DEF CoursesInit, SearchedIsVisited, VerdictIsRight
<1> QED
  BY <1>1, <1>2, <1>3, <1>4, <1>5 DEF CoursesInv

LEMMA JoinKeeps == CoursesInv /\ Join => CoursesInv'
<1> SUFFICES ASSUME CoursesInv, Join PROVE CoursesInv'
  OBVIOUS
<1> USE DEF CoursesInv
<1> DEFINE pair == prerequisites[joined + 1]
<1>1. /\ joined \in Nat /\ joined + 1 \in 1..Len(prerequisites)
      /\ pair \in Courses \X Courses /\ pair[1] \in Courses /\ pair[2] \in Courses
  <2>1. joined \in Nat /\ joined + 1 \in 1..Len(prerequisites)
    BY DEF CoursesType, Join
  <2>2. pair \in Courses \X Courses
    BY <2>1 DEF CoursesType
  <2> HIDE DEF pair
  <2> QED
    BY <2>1, <2>2
<1>2. al' = [al EXCEPT ![pair[2]] = Append(al[pair[2]], pair[1])]
  BY DEF Join
<1>3. /\ course = 0 /\ calls = <<>> /\ visited = {} /\ verdict = "open"
      /\ UNCHANGED <<prerequisites, course, calls, visited, path, verdict>>
      /\ joined' = joined + 1
  BY DEF CoursesType, Join
<1>4. al \in [Courses -> Seq(Courses)] /\ Append(al[pair[2]], pair[1]) \in Seq(Courses)
  BY <1>1 DEF CoursesType
<1> HIDE DEF pair
<1>5. al' \in [Courses -> Seq(Courses)]
  BY <1>1, <1>2, <1>4
<1>6. CoursesType'
  <2>1. joined' \in 0..Len(prerequisites) /\ course' \in 0..numCourses
    BY <1>1, <1>3, CoursesAssumption
  <2> QED
    BY <1>3, <1>5, <2>1 DEF CoursesType
<1>7. ASSUME NEW a \in Courses, NEW b \in Courses
      PROVE  Edge(b, a)' <=> Edge(b, a) \/ pair = <<a, b>>
  <2>1. CASE b # pair[2]
    <3>1. al'[b] = al[b]
      BY <1>2, <1>4, <2>1
    <3> QED
      BY <2>1, <3>1 DEF Edge
  <2>2. CASE b = pair[2]
    <3> DEFINE s == al[b]
    <3>1. s \in Seq(Courses) /\ al'[b] = Append(s, pair[1])
      BY <1>2, <1>4, <2>2
    <3> HIDE DEF s
    <3>2. /\ DOMAIN Append(s, pair[1]) = DOMAIN s \cup {Len(s) + 1}
          /\ Append(s, pair[1])[Len(s) + 1] = pair[1]
          /\ \A m \in DOMAIN s : Append(s, pair[1])[m] = s[m]
      BY <1>1, <3>1
    <3>3. (\E m \in DOMAIN Append(s, pair[1]) : Append(s, pair[1])[m] = a)
             <=> (\E m \in DOMAIN s : s[m] = a) \/ pair[1] = a
      BY <3>2
    <3>4. pair = <<a, b>> <=> pair[1] = a
      BY <1>1, <2>2
    <3> QED
      BY <3>1, <3>3, <3>4 DEF Edge, s
  <2> QED
    BY <2>1, <2>2
<1>8. ListsHoldPairs'
  <2> SUFFICES ASSUME NEW a \in Courses, NEW b \in Courses
               PROVE  Edge(b, a)' <=> \E m \in 1..joined + 1 : prerequisites[m] = <<a, b>>
    BY <1>3 DEF ListsHoldPairs
  <2>1. Edge(b, a) <=> \E m \in 1..joined : prerequisites[m] = <<a, b>>
    BY DEF ListsHoldPairs
  <2>2. 1..joined + 1 = 1..joined \cup {joined + 1}
    BY <1>1
  <2> QED
    BY <1>7, <2>1, <2>2 DEF pair
<1>9. PathIsCalls'
  BY <1>3 DEF PathIsCalls
<1>10. PassedIsDone' /\ DoneIsClosed' /\ DoneIsFree' /\ SearchedIsVisited'
  BY <1>3 DEF PassedIsDone, DoneIsClosed, DoneIsFree, Done, SearchedIsVisited
<1>11. VerdictIsRight'
  BY <1>3 DEF VerdictIsRight
<1> QED
  BY <1>6, <1>8, <1>9, <1>10, <1>11

\* The pairs are the edges of the lists once all are joined.
LEMMA DeadlockIs ==
  ASSUME CoursesInv, joined = Len(prerequisites)
  PROVE  Deadlocked <=> \E S \in SUBSET Courses : S # {} /\ Waits(S)
<1>1. DOMAIN prerequisites = 1..joined
  BY DEF CoursesInv, CoursesType
<1>2. ASSUME NEW S \in SUBSET Courses
      PROVE  Waits(S) <=> \A a \in S : \E b \in S, m \in DOMAIN prerequisites : prerequisites[m] = <<a, b>>
  BY <1>1 DEF Waits, CoursesInv, ListsHoldPairs
<1> QED
  BY <1>2 DEF Deadlocked

LEMMA PathIsVisited ==
  ASSUME PathIsCalls, verdict = "open"
  PROVE  path \subseteq visited
<1> SUFFICES ASSUME NEW c \in path PROVE c \in visited
  OBVIOUS
<1>1. PICK j \in DOMAIN calls : c = calls[j].node
  BY DEF PathIsCalls
<1> QED
  BY <1>1 DEF PathIsCalls

\* The stack of calls, and the last of them.
LEMMA CallsAre ==
  ASSUME CoursesType, calls # <<>>
  PROVE  /\ Len(calls) \in Nat \ {0} /\ DOMAIN calls = 1..Len(calls)
         /\ \A j \in 1..Len(calls) :
               calls[j] \in Frames /\ calls[j].node \in Courses /\ calls[j].passed \in Nat
<1>1. calls \in Seq(Frames)
  BY DEF CoursesType
<1>2. \A f \in Frames : f.node \in Courses /\ f.passed \in Nat
  BY DEF Frames
<1>3. Len(calls) \in Nat /\ Len(calls) # 0 /\ DOMAIN calls = 1..Len(calls)
  BY <1>1
<1>4. \A j \in 1..Len(calls) : calls[j] \in Frames
  BY <1>1
<1> QED
  BY <1>2, <1>3, <1>4

\* A call on a course, by the last of callers or by canFinish itself.
LEMMA DfsKeeps ==
  ASSUME CoursesInv, joined = Len(prerequisites), verdict = "open",
         NEW node \in Courses, NEW callers \in Seq(Frames),
         path = {callers[j].node : j \in DOMAIN callers},
         \A j, m \in DOMAIN callers : callers[j].node = callers[m].node => j = m,
         \A j \in DOMAIN callers : callers[j].passed \in 1..Len(al[callers[j].node]),
         \A j \in DOMAIN callers :
            al[callers[j].node][callers[j].passed] =
               IF j = Len(callers) THEN node ELSE callers[j + 1].node,
         \A j \in DOMAIN callers : \A m \in 1..callers[j].passed - 1 :
            al[callers[j].node][m] \in Done,
         course' \in 0..numCourses, \A c \in 0..course' - 1 : c = node \/ c \in visited,
         UNCHANGED <<prerequisites, joined, al>>,
         dfs(node, callers, path)
  PROVE  CoursesInv'
<1> DEFINE L == Len(callers)
<1>1. /\ L \in Nat /\ Len(callers) = L /\ DOMAIN callers = 1..L
      /\ \A j \in 1..L : callers[j] \in Frames /\ callers[j].node \in Courses
      /\ path \subseteq visited
  <2>1. path \subseteq visited
    BY PathIsVisited DEF CoursesInv
  <2>2. \A j \in 1..L : callers[j] \in Frames
    OBVIOUS
  <2>3. \A f \in Frames : f.node \in Courses
    BY DEF Frames
  <2> QED
    BY <2>1, <2>2, <2>3
<1> HIDE DEF L
<1>2. \A j \in DOMAIN callers : callers[j].node \in visited
  BY <1>1
<1>3. CASE node \in path
  <2>1. /\ verdict' = "False" /\ calls' = <<>> /\ path' = path /\ visited' = visited
    BY <1>3 DEF dfs
  <2>2. PICK f \in 1..L : callers[f].node = node
    BY <1>1, <1>3
  <2> DEFINE S == {callers[j].node : j \in f..L}
  <2>3. S \in SUBSET Courses /\ S # {}
    BY <1>1, <2>2
  <2>4. ASSUME NEW a \in S PROVE \E b \in S : Edge(b, a)
    <3>1. PICK j \in f..L : a = callers[j].node
      OBVIOUS
    <3>2. PICK h \in f..L : al[callers[h].node][callers[h].passed] = a
      <4>1. CASE j = f
        <5>1. L \in f..L /\ L \in DOMAIN callers
          BY <1>1, <2>2
        <5> QED
          BY <1>1, <2>2, <3>1, <4>1, <5>1
      <4>2. CASE j # f
        <5>1. j - 1 \in f..L /\ j - 1 \in DOMAIN callers /\ j - 1 # L /\ (j - 1) + 1 = j
          BY <1>1, <2>2, <4>2
        <5> QED
          BY <1>1, <3>1, <5>1
      <4> QED
        BY <4>1, <4>2
    <3>3. h \in DOMAIN callers /\ callers[h].node \in S /\ callers[h].node \in Courses
      BY <1>1, <2>2
    <3>4. callers[h].passed \in DOMAIN al[callers[h].node]
      BY SMTT(30), ZenonT(30), <3>3 DEF CoursesInv, CoursesType
    <3> QED
      BY <3>2, <3>3, <3>4 DEF Edge
  <2> HIDE DEF S
  <2>5. Waits(S)
    BY <2>4 DEF Waits
  <2>6. Deadlocked
    BY <2>3, <2>5, DeadlockIs
  <2>7. Deadlocked'
    BY <2>6 DEF Deadlocked
  <2>8. CoursesType'
    BY <2>1 DEF CoursesInv, CoursesType
  <2>9. ListsHoldPairs'
    BY SMTT(30), ZenonT(30) DEF CoursesInv, ListsHoldPairs, Edge
  <2>10. PathIsCalls'
    BY <2>1 DEF PathIsCalls
  <2>11. PassedIsDone' /\ DoneIsClosed' /\ DoneIsFree' /\ SearchedIsVisited' /\ VerdictIsRight'
    BY <2>1, <2>7 DEF PassedIsDone, DoneIsClosed, DoneIsFree, SearchedIsVisited, VerdictIsRight
  <2> QED
    BY <2>8, <2>9, <2>10, <2>11 DEF CoursesInv
<1>4. CASE node \notin path /\ node \in visited
  <2>1. UNCHANGED <<visited, path, verdict>> /\ calls' = callers
    BY <1>4 DEF dfs
  <2>2. node \in Done /\ Done' = Done
    BY <1>4, <2>1 DEF Done
  <2>3. CoursesType'
    BY <2>1 DEF CoursesInv, CoursesType
  <2>4. ListsHoldPairs'
    BY SMTT(30), ZenonT(30) DEF CoursesInv, ListsHoldPairs, Edge
  <2>5. PathIsCalls'
    <3>1. \A j \in DOMAIN callers : j < L =>
             callers[j].passed > 0 /\ al[callers[j].node][callers[j].passed] = callers[j + 1].node
      BY SMTT(30), ZenonT(30), <1>1
    <3>2. \A j \in DOMAIN callers : callers[j].passed \in 0..Len(al[callers[j].node])
      OBVIOUS
    <3> QED
      BY <1>2, <2>1, <3>1, <3>2 DEF PathIsCalls
  <2>6. PassedIsDone'
    <3> SUFFICES ASSUME NEW j \in DOMAIN callers, NEW m \in 1..callers[j].passed
                 PROVE  al[callers[j].node][m] \in Done \/ (m = callers[j].passed /\ j < L)
      BY SMTT(30), ZenonT(30), <2>1, <2>2 DEF PassedIsDone
    <3>1. CASE m \in 1..callers[j].passed - 1
      BY <3>1
    <3>2. CASE m = callers[j].passed
      BY <1>1, <2>2, <3>2
    <3> QED
      BY <3>1, <3>2
  <2>7. DoneIsClosed' /\ DoneIsFree'
    BY <2>1, <2>2 DEF CoursesInv, DoneIsClosed, DoneIsFree, Waits, Edge
  <2>8. SearchedIsVisited' /\ VerdictIsRight'
    BY <1>4, <2>1 DEF SearchedIsVisited, VerdictIsRight
  <2> QED
    BY <2>3, <2>4, <2>5, <2>6, <2>7, <2>8 DEF CoursesInv
<1>5. CASE node \notin path /\ node \notin visited
  <2> DEFINE frame == [node |-> node, passed |-> 0]
  <2>1. /\ visited' = visited \cup {node} /\ path' = path \cup {node} /\ verdict' = verdict
        /\ calls' = Append(callers, frame)
    BY <1>5 DEF dfs
  <2>2. Done' = Done
    BY <1>5, <2>1 DEF Done
  <2>3. frame \in Frames /\ frame.node = node /\ frame.passed = 0
    BY DEF Frames
  <2> HIDE DEF frame
  <2>4. /\ calls' \in Seq(Frames) /\ Len(calls') = L + 1 /\ DOMAIN calls' = 1..L + 1
        /\ \A j \in 1..L : calls'[j] = callers[j]
        /\ calls'[L + 1] = frame
    BY <1>1, <2>1, <2>3
  <2>5. CoursesType'
    BY <2>1, <2>4 DEF CoursesInv, CoursesType
  <2>6. ListsHoldPairs'
    BY SMTT(30), ZenonT(30) DEF CoursesInv, ListsHoldPairs, Edge
  <2>7. \A j \in 1..L : callers[j].node # node
    BY <1>1, <1>5
  <2>8. path' = {calls'[j].node : j \in 1..L + 1}
    <3>1. {calls'[j].node : j \in 1..L + 1} = {calls'[j].node : j \in 1..L} \cup {calls'[L + 1].node}
      BY <1>1
    <3>3. \A j \in 1..L : calls'[j].node = callers[j].node
      BY <2>4
    <3>2. {calls'[j].node : j \in 1..L} = {callers[j].node : j \in 1..L}
      BY <3>3
    <3> QED
      BY <1>1, <2>1, <2>3, <2>4, <3>1, <3>2
  <2>9. \A j, m \in 1..L + 1 : calls'[j].node = calls'[m].node => j = m
    <3> SUFFICES ASSUME NEW j \in 1..L + 1, NEW m \in 1..L + 1, calls'[j].node = calls'[m].node
                 PROVE  j = m
      OBVIOUS
    <3>1. (j \in 1..L \/ j = L + 1) /\ (m \in 1..L \/ m = L + 1)
      BY <1>1
    <3> QED
      BY SMTT(30), ZenonT(30), <1>1, <2>3, <2>4, <2>7, <3>1
  <2>10. \A j \in 1..L + 1 : /\ calls'[j].node \in visited'
                             /\ calls'[j].passed \in 0..Len(al[calls'[j].node])
    <3>1. Len(al[node]) \in Nat
      BY DEF CoursesInv, CoursesType
    <3> QED
      BY <1>1, <1>2, <2>1, <2>3, <2>4, <3>1
  <2>11. \A j \in 1..L + 1 : j < L + 1 =>
            calls'[j].passed > 0 /\ al[calls'[j].node][calls'[j].passed] = calls'[j + 1].node
    <3> SUFFICES ASSUME NEW j \in 1..L
                 PROVE  callers[j].passed > 0 /\ al[callers[j].node][callers[j].passed] = calls'[j + 1].node
      BY <1>1, <2>4
    <3>1. CASE j = L
      BY <1>1, <2>3, <2>4, <3>1
    <3>2. CASE j # L
      <4>1. L \in Nat /\ DOMAIN callers = 1..L
        BY <1>1
      <4>3. j + 1 \in 1..L /\ j \in DOMAIN callers
        BY <3>2, <4>1
      <4>2. callers[j].passed > 0 /\ al[callers[j].node][callers[j].passed] = callers[j + 1].node
        <5>1. j # Len(callers) /\ callers[j].passed \in 1..Len(al[callers[j].node])
          BY <1>1, <3>2, <4>3
        <5>2. al[callers[j].node][callers[j].passed] = callers[j + 1].node
          BY <4>3, <5>1
        <5> QED
          BY <5>1, <5>2
      <4> QED
        BY <2>4, <4>2, <4>3
    <3> QED
      BY <3>1, <3>2
  <2>12. PathIsCalls'
    BY <2>1, <2>4, <2>8, <2>9, <2>10, <2>11 DEF PathIsCalls
  <2>13. PassedIsDone'
    <3> SUFFICES ASSUME NEW j \in 1..L + 1, NEW m \in 1..calls'[j].passed
                 PROVE  al[calls'[j].node][m] \in Done \/ (m = calls'[j].passed /\ j < L + 1)
      <4>1. DOMAIN calls' = 1..L + 1 /\ Len(calls') = L + 1 /\ Done' = Done /\ al' = al
        BY <2>1, <2>2, <2>4
      <4> QED
        BY <4>1 DEF PassedIsDone
    <3>1. j \in 1..L /\ calls'[j] = callers[j]
      BY <1>1, <2>3, <2>4
    <3>2. CASE m \in 1..callers[j].passed - 1
      BY <1>1, <3>1, <3>2
    <3>3. CASE m = callers[j].passed
      BY <1>1, <3>1, <3>3
    <3> QED
      BY <1>1, <3>1, <3>2, <3>3
  <2>14. DoneIsClosed' /\ DoneIsFree'
    BY <2>1, <2>2 DEF CoursesInv, DoneIsClosed, DoneIsFree, Waits, Edge
  <2>15. SearchedIsVisited' /\ VerdictIsRight'
    BY <2>1 DEF SearchedIsVisited, VerdictIsRight
  <2> QED
    BY <2>5, <2>6, <2>12, <2>13, <2>14, <2>15 DEF CoursesInv
<1> QED
  BY <1>3, <1>4, <1>5

LEMMA SearchKeeps == CoursesInv /\ Search => CoursesInv'
<1> SUFFICES ASSUME CoursesInv, Search PROVE CoursesInv'
  OBVIOUS
<1>1. /\ joined = Len(prerequisites) /\ verdict = "open" /\ calls = <<>>
      /\ course \in Nat /\ course < numCourses /\ course' = course + 1
  BY DEF Search, Searching, CoursesInv, CoursesType
<1>2. path = {}
  BY <1>1 DEF CoursesInv, PathIsCalls
<1>3. course \in Courses /\ course' \in 0..numCourses
  BY <1>1, CoursesAssumption DEF Courses
<1>4. \A c \in 0..course' - 1 : c = course \/ c \in visited
  BY <1>1 DEF CoursesInv, SearchedIsVisited
<1>5. dfs(course, <<>>, path) /\ UNCHANGED <<prerequisites, joined, al>>
  BY <1>2 DEF Search
<1> DEFINE callers == << >>
<1>6. callers \in Seq(Frames) /\ DOMAIN callers = {}
  OBVIOUS
<1>7. dfs(course, callers, path) /\ path = {callers[j].node : j \in DOMAIN callers}
  BY <1>2, <1>5, <1>6
<1> HIDE DEF callers
<1> QED
  BY <1>1, <1>3, <1>4, <1>5, <1>6, <1>7, DfsKeeps

LEMMA ExploreKeeps == CoursesInv /\ Explore => CoursesInv'
<1> SUFFICES ASSUME CoursesInv, Explore PROVE CoursesInv'
  OBVIOUS
<1> DEFINE L == Len(calls)
           f == calls[L]
           frame == [node |-> f.node, passed |-> f.passed + 1]
           callers == Append(SubSeq(calls, 1, L - 1), frame)
           node == al[f.node][f.passed + 1]
<1>1. /\ calls \in Seq(Frames) /\ L \in Nat \ {0} /\ Len(calls) = L /\ f \in Frames
      /\ f.node \in Courses /\ f.passed \in Nat /\ f.passed < Len(al[f.node])
      /\ DOMAIN calls = 1..L /\ \A j \in 1..L : calls[j] \in Frames /\ calls[j].passed \in Nat
  <2>1. calls # <<>> /\ f.passed < Len(al[f.node]) /\ calls \in Seq(Frames) /\ CoursesType
    BY DEF Explore, CoursesInv, CoursesType, newest, last
  <2>2. L \in 1..L
    BY <2>1, CallsAre
  <2> HIDE DEF f
  <2> QED
    BY <2>1, <2>2, CallsAre DEF f
<1> HIDE DEF L
<1>2. verdict = "open" /\ joined = Len(prerequisites)
  BY DEF Explore, CoursesInv, PathIsCalls, CoursesType
<1>3. node \in Courses /\ Len(al[f.node]) \in Nat
  <2> DEFINE list == al[f.node]
             m == f.passed
  <2>1. list \in Seq(Courses) /\ m \in Nat /\ m < Len(list)
    <3>1. al \in [Courses -> Seq(Courses)]
      BY DEF CoursesInv, CoursesType
    <3> HIDE DEF f
    <3> QED
      BY <1>1, <3>1
  <2> HIDE DEF list, m
  <2>2. list[m + 1] \in Courses /\ Len(list) \in Nat
    BY <2>1
  <2> QED
    BY <2>2 DEF list, m
<1>4. frame \in Frames /\ frame.node = f.node /\ frame.passed = f.passed + 1
  BY <1>1 DEF Frames
<1>5. /\ callers \in Seq(Frames) /\ Len(callers) = L /\ DOMAIN callers = 1..L
      /\ callers[L] = frame /\ \A j \in 1..L : j # L => callers[j] = calls[j]
  <2>1. /\ SubSeq(calls, 1, L - 1) \in Seq(Frames) /\ Len(SubSeq(calls, 1, L - 1)) = L - 1
        /\ \A j \in 1..L - 1 : SubSeq(calls, 1, L - 1)[j] = calls[j]
    BY <1>1
  <2> DEFINE s == SubSeq(calls, 1, L - 1)
  <2>2. s \in Seq(Frames) /\ Len(s) + 1 = L
    BY <1>1, <2>1
  <2> HIDE DEF s, frame
  <2>3. Append(s, frame) \in Seq(Frames) /\ Len(Append(s, frame)) = L /\ Append(s, frame)[L] = frame
        /\ \A j \in 1..L - 1 : Append(s, frame)[j] = s[j]
    BY <1>1, <1>4, <2>2
  <2>4. \A j \in 1..L : j # L => j \in 1..L - 1
    BY <1>1
  <2> QED
    BY <2>1, <2>3, <2>4 DEF s
<1>6. dfs(node, callers, path) /\ UNCHANGED <<prerequisites, joined, al, course>>
  BY <1>1 DEF Explore, newest, last, rest
<1>7. \A j \in 1..L : callers[j].node = calls[j].node
  BY <1>4, <1>5
<1> HIDE DEF callers
<1>8. path = {callers[j].node : j \in DOMAIN callers}
  <2>1. path = {calls[j].node : j \in 1..L}
    BY <1>1, <1>2 DEF CoursesInv, PathIsCalls
  <2>2. {calls[j].node : j \in 1..L} = {callers[j].node : j \in 1..L}
    BY <1>7
  <2> QED
    BY <1>5, <2>1, <2>2
<1>9. \A j, m \in DOMAIN callers : callers[j].node = callers[m].node => j = m
  BY <1>1, <1>5, <1>7 DEF CoursesInv, PathIsCalls
<1>10. ASSUME NEW j \in DOMAIN callers
       PROVE  /\ callers[j].passed \in 1..Len(al[callers[j].node])
              /\ al[callers[j].node][callers[j].passed] = IF j = Len(callers) THEN node ELSE callers[j + 1].node
              /\ \A m \in 1..callers[j].passed - 1 : al[callers[j].node][m] \in Done
  <2>1. CASE j = L
    <3>1. \A m \in 1..f.passed : al[f.node][m] \in Done
      BY <1>1, <1>2 DEF CoursesInv, PassedIsDone
    <3>2. (f.passed + 1) - 1 = f.passed
      BY <1>1
    <3> HIDE DEF frame, node
    <3>3. callers[j].passed = f.passed + 1 /\ callers[j].node = f.node /\ j = Len(callers)
      BY <1>4, <1>5, <2>1
    <3>4. f.passed + 1 \in 1..Len(al[f.node])
      BY <1>1, <1>3
    <3> QED
      BY <3>1, <3>2, <3>3, <3>4 DEF node
  <2>2. CASE j # L
    <3> HIDE DEF f, frame, node
    <3>6. j \in 1..L
      BY <1>5
    <3>5. j < L /\ j + 1 \in 1..L
      BY ONLY <1>1, <2>2, <3>6
    <3>1. j \in 1..L /\ j < L /\ j + 1 \in 1..L /\ callers[j] = calls[j] /\ calls[j].passed \in Nat
      BY <1>1, <1>5, <2>2, <3>5, <3>6
    <3>2. /\ calls[j].passed > 0 /\ calls[j].passed \in 0..Len(al[calls[j].node])
          /\ al[calls[j].node][calls[j].passed] = calls[j + 1].node
      BY <1>1, <3>1 DEF CoursesInv, PathIsCalls
    <3>3. \A m \in 1..calls[j].passed - 1 : al[calls[j].node][m] \in Done
      <4> TAKE m \in 1..calls[j].passed - 1
      <4>1. m \in 1..calls[j].passed /\ m # calls[j].passed
        BY <3>1
      <4> QED
        BY <1>1, <1>2, <3>1, <4>1 DEF CoursesInv, PassedIsDone
    <3>4. j # Len(callers) /\ callers[j + 1].node = calls[j + 1].node
      BY <1>5, <1>7, <2>2, <3>1
    <3> QED
      BY <3>1, <3>2, <3>3, <3>4
  <2> QED
    BY <2>1, <2>2
<1>11. course' \in 0..numCourses /\ \A c \in 0..course' - 1 : c = node \/ c \in visited
  BY <1>2, <1>6 DEF CoursesInv, CoursesType, SearchedIsVisited
<1> HIDE DEF node, frame, f
<1>12. UNCHANGED <<prerequisites, joined, al>>
  BY <1>6
<1> QED
  BY <1>2, <1>3, <1>5, <1>6, <1>8, <1>9, <1>10, <1>11, <1>12, DfsKeeps

LEMMA LeaveKeeps == CoursesInv /\ Leave => CoursesInv'
<1> SUFFICES ASSUME CoursesInv, Leave PROVE CoursesInv'
  OBVIOUS
<1> DEFINE L == Len(calls)
           f == calls[L]
           x == f.node
<1>1. /\ calls \in Seq(Frames) /\ L \in Nat \ {0} /\ Len(calls) = L /\ f \in Frames
      /\ x \in Courses /\ f.passed = Len(al[x])
      /\ DOMAIN calls = 1..L /\ \A j \in 1..L : calls[j] \in Frames /\ calls[j].passed \in Nat
  <2>1. calls # <<>> /\ f.passed = Len(al[f.node]) /\ calls \in Seq(Frames) /\ CoursesType
    BY DEF Leave, CoursesInv, CoursesType, newest, last
  <2>2. L \in 1..L
    BY <2>1, CallsAre
  <2> HIDE DEF f
  <2> QED
    BY <2>1, <2>2, CallsAre DEF f
<1> HIDE DEF L
<1>2. verdict = "open" /\ joined = Len(prerequisites)
  BY DEF Leave, CoursesInv, PathIsCalls, CoursesType
<1>3. /\ calls' = SubSeq(calls, 1, L - 1) /\ path' = path \ {x}
      /\ UNCHANGED <<prerequisites, joined, al, course, visited, verdict>>
  BY <1>1 DEF Leave, rest, newest, last
<1>4. /\ calls' \in Seq(Frames) /\ Len(calls') = L - 1 /\ DOMAIN calls' = 1..L - 1
      /\ \A j \in 1..L - 1 : calls'[j] = calls[j]
  BY <1>1, <1>3
<1>5. x \in path /\ x \in visited /\ x \notin Done /\ Done' = Done \cup {x}
  BY <1>1, <1>2, <1>3 DEF CoursesInv, PathIsCalls, Done
<1>6. \A a \in Courses : Edge(x, a) => a \in Done
  <2> TAKE a \in Courses
  <2> HAVE Edge(x, a)
  <2>1. PICK m \in DOMAIN al[x] : al[x][m] = a
    BY DEF Edge
  <2>2. m \in 1..f.passed
    BY <1>1, <2>1 DEF CoursesInv, CoursesType
  <2> QED
    BY <1>1, <1>2, <2>1, <2>2 DEF CoursesInv, PassedIsDone
<1> HIDE DEF f, x
<1>7. CoursesType'
  BY <1>2, <1>3, <1>4 DEF CoursesInv, CoursesType
<1>8. ListsHoldPairs'
  BY <1>3 DEF CoursesInv, ListsHoldPairs, Edge
<1>9. PathIsCalls'
  <2>1. path' = {calls'[j].node : j \in 1..L - 1}
    <3>1. path = {calls[j].node : j \in 1..L} /\ x = calls[L].node
      BY <1>1, <1>2 DEF CoursesInv, PathIsCalls, x, f
    <3>2. \A j \in 1..L - 1 : j \in 1..L /\ j # L /\ calls[j].node # x
      BY <1>1, <3>1 DEF CoursesInv, PathIsCalls
    <3>3. 1..L = 1..L - 1 \cup {L}
      BY <1>1
    <3> QED
      BY <1>3, <1>4, <3>1, <3>2, <3>3
  <2>2. \A j \in 1..L - 1 : j \in DOMAIN calls /\ calls'[j] = calls[j] /\ j < L
                            /\ (j < L - 1 => j + 1 \in 1..L - 1 /\ calls'[j + 1] = calls[j + 1])
    BY <1>1, <1>4
  <2>3. \A j, m \in 1..L - 1 : calls'[j].node = calls'[m].node => j = m
    BY <2>2 DEF CoursesInv, PathIsCalls
  <2>4. \A j \in 1..L - 1 : /\ calls'[j].node \in visited
                             /\ calls'[j].passed \in 0..Len(al[calls'[j].node])
    BY <2>2 DEF CoursesInv, PathIsCalls
  <2>5. \A j \in 1..L - 1 : j < L - 1 =>
           calls'[j].passed > 0 /\ al[calls'[j].node][calls'[j].passed] = calls'[j + 1].node
    BY <1>1, <2>2 DEF CoursesInv, PathIsCalls
  <2> QED
    BY <1>2, <1>3, <1>4, <2>1, <2>3, <2>4, <2>5 DEF PathIsCalls
<1>10. PassedIsDone'
  <2> SUFFICES ASSUME NEW j \in 1..L - 1, NEW m \in 1..calls[j].passed
               PROVE  al[calls[j].node][m] \in Done' \/ (m = calls[j].passed /\ j < L - 1)
    BY <1>3, <1>4 DEF PassedIsDone
  <2>1. j \in DOMAIN calls /\ j < L
    BY <1>1
  <2>2. al[calls[j].node][m] \in Done \/ m = calls[j].passed
    BY <1>2, <2>1 DEF CoursesInv, PassedIsDone
  <2>3. CASE j = L - 1 /\ m = calls[j].passed
    <3>1. al[calls[j].node][m] = calls[j + 1].node /\ j + 1 = L
      BY <1>1, <2>1, <2>3 DEF CoursesInv, PathIsCalls
    <3> QED
      BY <1>5, <3>1 DEF x, f
  <2>4. CASE j # L - 1 \/ m # calls[j].passed
    BY <1>1, <1>5, <2>2, <2>4
  <2> QED
    BY <2>3, <2>4
<1>11. DoneIsClosed'
  BY <1>2, <1>3, <1>5, <1>6 DEF CoursesInv, DoneIsClosed, Edge
<1>12. DoneIsFree'
  <2> SUFFICES ASSUME NEW S \in SUBSET Done', Waits(S) PROVE S = {}
    BY <1>3 DEF DoneIsFree, Waits, Edge
  <2>1. x \notin S
    <3> SUFFICES ASSUME x \in S PROVE FALSE
      OBVIOUS
    <3>1. PICK b \in S : Edge(b, x)
      BY DEF Waits
    <3>2. CASE b = x
      BY <1>1, <1>5, <1>6, <3>1, <3>2
    <3>3. CASE b \in Done
      BY <1>1, <1>2, <1>5, <3>1, <3>3 DEF CoursesInv, DoneIsClosed
    <3> QED
      BY <1>5, <3>2, <3>3
  <2> QED
    BY <1>2, <1>5, <2>1 DEF CoursesInv, DoneIsFree
<1>13. SearchedIsVisited' /\ VerdictIsRight'
  BY <1>2, <1>3 DEF CoursesInv, SearchedIsVisited, VerdictIsRight
<1> QED
  BY <1>7, <1>8, <1>9, <1>10, <1>11, <1>12, <1>13 DEF CoursesInv

LEMMA FallKeeps == CoursesInv /\ Fall => CoursesInv'
<1> SUFFICES ASSUME CoursesInv, Fall PROVE CoursesInv'
  OBVIOUS
<1>1. /\ joined = Len(prerequisites) /\ verdict = "open" /\ calls = <<>> /\ course = numCourses
      /\ verdict' = "None"
      /\ UNCHANGED <<prerequisites, joined, al, course, calls, visited, path>>
  BY DEF Fall, Searching
<1>2. path = {} /\ Done = visited
  BY <1>1 DEF CoursesInv, PathIsCalls, Done
<1>3. Courses \subseteq Done
  BY <1>1, <1>2 DEF CoursesInv, SearchedIsVisited, Courses
<1>4. ~Deadlocked
  BY <1>1, <1>3, DeadlockIs DEF CoursesInv, DoneIsFree
<1>5. ~Deadlocked'
  BY <1>1, <1>4 DEF Deadlocked
<1>6. CoursesType'
  BY <1>1 DEF CoursesInv, CoursesType
<1>7. ListsHoldPairs'
  BY <1>1 DEF CoursesInv, ListsHoldPairs, Edge
<1>9. PathIsCalls'
  BY <1>1 DEF PathIsCalls
<1>8. PassedIsDone' /\ DoneIsClosed' /\ DoneIsFree' /\ SearchedIsVisited' /\ VerdictIsRight'
  BY <1>1, <1>5 DEF PassedIsDone, DoneIsClosed, DoneIsFree, SearchedIsVisited, VerdictIsRight
<1> QED
  BY <1>6, <1>7, <1>8, <1>9 DEF CoursesInv

LEMMA CoursesIdle == CoursesInv /\ UNCHANGED courseVars => CoursesInv'
<1> SUFFICES ASSUME CoursesInv, UNCHANGED courseVars PROVE CoursesInv'
  OBVIOUS
<1>1. UNCHANGED <<prerequisites, joined, al, course, calls, visited, path, verdict>>
  BY DEF courseVars
<1>2. CoursesType' /\ Done' = Done
  BY <1>1 DEF CoursesInv, CoursesType, Done
<1>3. ListsHoldPairs'
  BY <1>1 DEF CoursesInv, ListsHoldPairs, Edge
<1>6. PathIsCalls'
  BY <1>1 DEF CoursesInv, PathIsCalls
<1>4. PassedIsDone' /\ DoneIsClosed' /\ DoneIsFree'
  BY <1>1, <1>2 DEF CoursesInv, PassedIsDone, DoneIsClosed, DoneIsFree, Waits, Edge
<1>5. SearchedIsVisited' /\ VerdictIsRight'
  BY <1>1 DEF CoursesInv, SearchedIsVisited, VerdictIsRight, Deadlocked
<1> QED
  BY <1>2, <1>3, <1>4, <1>5, <1>6 DEF CoursesInv

LEMMA CoursesNextKeeps == CoursesInv /\ [CoursesNext]_courseVars => CoursesInv'
BY JoinKeeps, SearchKeeps, ExploreKeeps, LeaveKeeps, FallKeeps, CoursesIdle DEF CoursesNext

\* canFinish, for any number of courses and any prerequisites: the search says that they
\* cannot be finished if and only if some of them wait for each other.
THEOREM CanFinishIffNoCycleHolds == CoursesSpec => []CanFinishIffNoCycle
<1>1. CoursesInv => CanFinishIffNoCycle
  BY DEF CoursesInv, VerdictIsRight, CanFinishIffNoCycle
<1> QED
  BY <1>1, CoursesStart, CoursesNextKeeps, PTL DEF CoursesSpec

-----------------------------------------------------------------------------
(* The methods that go over a list once *)

IsMost(x, S)  == x \in S /\ \A y \in S : y <= x
IsLeast(x, S) == x \in S /\ \A y \in S : x <= y

-----------------------------------------------------------------------------

\* The lists that the methods are called with, which no step changes.
InputsType ==
    /\ given \in Seq(Int) /\ Len(given) \in Nat /\ DOMAIN given = 1..Len(given)
    /\ \A j \in 1..Len(given) : given[j] \in Int
    /\ argument \in Int

\* The windows of a list, those seen before, and where one is seen again.
WindowIn(s, j)  == SubSeq(s, j + 1, j + Window)
AgainIn(s, b)   == \E a \in 0..b - 1 : WindowIn(s, a) = WindowIn(s, b)
WindowsIn(s, m) == {WindowIn(s, a) : a \in 0..m - 1}
RepeatsIn(s, m) == {WindowIn(s, a) : a \in {b \in 0..m - 1 : AgainIn(s, b)}}
SecondsIn(s, w) == {b \in 0..Len(s) - Window : WindowIn(s, b) = w /\ AgainIn(s, b)}
SecondIn(s, w)  == Min(SecondsIn(s, w))

RepeatsInv ==
    /\ pos \in Nat /\ (pos > 0 => pos + Window - 1 <= Len(given))
    /\ seen = WindowsIn(given, pos)
    /\ found \in Seq(Seq(Int))
    /\ {found[j] : j \in DOMAIN found} = RepeatsIn(given, pos)
    /\ \A j \in DOMAIN found : SecondIn(given, found[j]) \in 0..pos - 1
    /\ \A i, j \in DOMAIN found : i < j => SecondIn(given, found[i]) < SecondIn(given, found[j])
    /\ returned # <<>> => returned[1] = found /\ ~WindowFits

\* The sums of the windows among the first m elements.
SumsTo(s, width, m) == {Sum(s, start, width) : start \in 0..m - width}

AverageInv ==
    /\ argument \in 1..Len(given) /\ pos \in 0..Len(given)
    /\ total \in Int /\ best \in Int
    /\ pos < argument => total = Sum(given, 0, pos)
    /\ pos >= argument => /\ total = Sum(given, pos - argument, argument)
                          /\ IsMost(best, SumsTo(given, argument, pos))
    /\ returned # <<>> => returned[1] = best /\ pos = Len(given)

Vowels == [j \in DOMAIN given |-> vowel(given[j])]

VowelsInv ==
    /\ argument \in 1..Len(given) /\ pos \in 0..Len(given)
    /\ total \in Int /\ best \in Int
    /\ pos < argument => total = Sum(Vowels, 0, pos) /\ best = total
    /\ pos >= argument => /\ total = Sum(Vowels, pos - argument, argument)
                          /\ IsMost(best, SumsTo(Vowels, argument, pos))
    /\ returned # <<>> => returned[1] = best /\ pos = Len(given)

Area(i, j) == Smaller(given[i], given[j]) * (j - i)
Areas == {0} \cup {Area(i, j) : i, j \in DOMAIN given}

\* No two walls hold more, unless both are still to be looked at.
AreaInv ==
    /\ \A j \in 1..Len(given) : given[j] \in Nat
    /\ lo \in Nat /\ hi \in Int /\ hi < Len(given) /\ (Len(given) > 0 => lo <= hi)
    /\ best \in Nat /\ best \in Areas
    /\ \A i, j \in 1..Len(given) : i < j /\ (i <= lo \/ j > hi + 1) => Area(i, j) <= best
    /\ returned # <<>> => returned[1] = best /\ lo >= hi

InsertInv ==
    /\ Rising(given)
    /\ lo \in Nat /\ hi \in Nat /\ lo <= hi /\ hi <= Len(given)
    /\ \A j \in 1..Len(given) : (j <= lo => given[j] < argument) /\ (j > hi => given[j] > argument)
    /\ returned # <<>> =>
          /\ returned[1] \in 0..Len(given)
          /\ \A j \in 1..Len(given) : given[j] < argument <=> j <= returned[1]

\* The days on the stack have had no warmer day and get no warmer upwards; the others
\* have their waits.
WaitsInv ==
    /\ pos \in 0..Len(given)
    /\ mystack \in Seq(Nat)
    /\ waits \in [1..Len(given) -> Nat]
    /\ \A a \in DOMAIN mystack : mystack[a] < pos
    /\ \A a, b \in DOMAIN mystack : a < b =>
          mystack[a] < mystack[b] /\ given[mystack[a] + 1] >= given[mystack[b] + 1]
    /\ \A a \in DOMAIN mystack :
          /\ waits[mystack[a] + 1] = 0
          /\ \A d \in 1..pos : d > mystack[a] => given[d] <= given[mystack[a] + 1]
    /\ \A j \in 1..pos : (\A a \in DOMAIN mystack : mystack[a] + 1 # j) =>
          \E d \in 1..Len(given) : IsLeast(d, WarmerDays(j)) /\ waits[j] = d - j
    /\ \A j \in (pos + 1)..Len(given) : waits[j] = 0
    /\ returned # <<>> => returned[1] = waits /\ pos = Len(given)

\* There is a way to j by indices up to it.
Way(j) ==
    \E S \in SUBSET (1..j) : /\ {1, j} \subseteq S
                             /\ \A a \in S \ {j} : \E b \in S : b > a /\ b - a <= given[a]

JumpInv ==
    /\ given # <<>> /\ \A j \in 1..Len(given) : given[j] \in Nat
    /\ pos \in Nat /\ furthest \in Nat
    /\ returned = <<>> =>
          /\ pos < Len(given)
          /\ pos > 0 => furthest >= pos /\ furthest < Len(given) - 1
          /\ \A j \in 1..pos : j - 1 + given[j] <= furthest
          /\ \A j \in 1..Len(given) : j - 1 <= furthest => Way(j)
    /\ returned # <<>> => returned[1] = IF HasWay THEN "True" ELSE "False"

PassInv ==
    /\ InputsType
    /\ solution = "findRepeatedDnaSequences" => RepeatsInv
    /\ solution = "findMaxAverage"           => AverageInv
    /\ solution = "maxVowels"                => VowelsInv
    /\ solution = "maxArea"                  => AreaInv
    /\ solution = "searchInsert"             => InsertInv
    /\ solution = "dailyTemperatures"        => WaitsInv
    /\ solution = "canJump"                  => JumpInv

-----------------------------------------------------------------------------
(* Sums of windows *)

\* The running sums of a window.
Added(s, start, m, h) == h = [j \in 0..m |-> IF j = 0 THEN 0 ELSE h[j - 1] + s[start + j]]

\* The window lies in the list.
Within(s, start, m) ==
    s \in Seq(Int) /\ start \in Nat /\ m \in Nat /\ \A j \in 1..m : s[start + j] \in Int

LEMMA AddedExists ==
  ASSUME NEW s, NEW start, NEW N, Within(s, start, N)
  PROVE  \A m \in 0..N : \E h : Added(s, start, m, h) /\ \A j \in 0..m : h[j] \in Int
<1> DEFINE T == {m \in Nat : m <= N => \E h : Added(s, start, m, h) /\ \A j \in 0..m : h[j] \in Int}
<1>1. 0 \in T
  <2> DEFINE h == [j \in 0..0 |-> 0]
  <2>1. Added(s, start, 0, h) /\ \A j \in 0..0 : h[j] \in Int
    BY DEF Added
  <2> HIDE DEF h
  <2> QED
    BY <2>1
<1>2. ASSUME NEW m \in Nat, m \in T PROVE m + 1 \in T
  <2> SUFFICES ASSUME m + 1 <= N
               PROVE  \E h : Added(s, start, m + 1, h) /\ \A j \in 0..m + 1 : h[j] \in Int
    OBVIOUS
  <2>1. N \in Nat
    BY DEF Within
  <2>2. PICK h : Added(s, start, m, h) /\ \A j \in 0..m : h[j] \in Int
    BY <1>2, <2>1
  <2> DEFINE u == [j \in 0..m + 1 |-> IF j = m + 1 THEN h[m] + s[start + (m + 1)] ELSE h[j]]
  <2>7. m + 1 \in 1..N
    BY <2>1
  <2>3. s[start + (m + 1)] \in Int
    BY <2>7 DEF Within
  <2>4. \A j \in 0..m + 1 : u[j] \in Int
    BY <2>2, <2>3
  <2>5. ASSUME NEW j \in 0..m + 1 PROVE u[j] = IF j = 0 THEN 0 ELSE u[j - 1] + s[start + j]
    <3>1. CASE j = m + 1
      BY <3>1
    <3>2. CASE j # m + 1
      <4>3. j \in 0..m
        BY <3>2
      <4>1. (j = 0 => h[j] = 0) /\ (j # 0 => h[j] = h[j - 1] + s[start + j])
        BY <2>2, <4>3 DEF Added
      <4>2. u[j] = h[j] /\ (j # 0 => u[j - 1] = h[j - 1])
        BY <3>2
      <4> QED
        BY <4>1, <4>2
    <3> QED
      BY <3>1, <3>2
  <2>6. Added(s, start, m + 1, u)
    BY <2>5 DEF Added
  <2> HIDE DEF u
  <2> QED
    BY <2>4, <2>6
<1> HIDE DEF T
<1>3. Nat \subseteq T
  BY <1>1, <1>2, NatSetInduction
<1> QED
  BY <1>3 DEF T, Within

LEMMA AddedAgree ==
  ASSUME NEW s, NEW start, NEW m \in Nat, NEW N \in Nat, m <= N,
         NEW h, Added(s, start, m, h), NEW g, Added(s, start, N, g)
  PROVE  \A j \in 0..m : h[j] = g[j]
<1> DEFINE T == {j \in Nat : j <= m => h[j] = g[j]}
<1>1. 0 \in T
  <2>1. 0 \in 0..m /\ 0 \in 0..N
    OBVIOUS
  <2>2. h[0] = 0
    BY <2>1 DEF Added
  <2>3. g[0] = 0
    BY <2>1 DEF Added
  <2> QED
    BY <2>2, <2>3
<1>2. ASSUME NEW j \in Nat, j \in T PROVE j + 1 \in T
  <2> SUFFICES ASSUME j + 1 <= m PROVE h[j + 1] = g[j + 1]
    OBVIOUS
  <2>1. h[j] = g[j] /\ j + 1 \in 0..m /\ j + 1 \in 0..N /\ (j + 1) - 1 = j /\ j + 1 # 0
    BY <1>2
  <2>2. h[j + 1] = h[j] + s[start + (j + 1)] /\ g[j + 1] = g[j] + s[start + (j + 1)]
    <3> DEFINE e == j + 1
    <3>1. e \in 0..m /\ e \in 0..N /\ e # 0 /\ e - 1 = j
      BY <2>1
    <3> HIDE DEF e
    <3>2. h[e] = h[e - 1] + s[start + e]
      BY <3>1 DEF Added
    <3>3. g[e] = g[e - 1] + s[start + e]
      BY <3>1 DEF Added
    <3> QED
      BY <3>1, <3>2, <3>3 DEF e
  <2> QED
    BY <2>1, <2>2
<1> HIDE DEF T
<1>3. Nat \subseteq T
  BY <1>1, <1>2, NatSetInduction
<1> QED
  BY <1>3 DEF T

LEMMA SumIs ==
  ASSUME NEW s, NEW start, NEW m \in Nat, NEW N \in Nat, m <= N, Within(s, start, N),
         NEW g, Added(s, start, N, g)
  PROVE  Sum(s, start, m) = g[m]
<1> DEFINE h == CHOOSE h : Added(s, start, m, h)
<1>1. \E f : Added(s, start, m, f)
  BY AddedExists
<1>2. Added(s, start, m, h)
  BY <1>1
<1>3. Sum(s, start, m) = h[m]
  BY DEF Sum, Added
<1> HIDE DEF h
<1> QED
  BY <1>2, <1>3, AddedAgree

LEMMA SumSteps ==
  ASSUME NEW s, NEW start, NEW m \in Nat, Within(s, start, m + 1)
  PROVE  /\ Sum(s, start, 0) = 0 /\ Sum(s, start, m) \in Int
         /\ Sum(s, start, m + 1) = Sum(s, start, m) + s[start + (m + 1)]
<1>1. m + 1 \in Nat /\ m + 1 \in 0..m + 1
  OBVIOUS
<1>2. PICK g : Added(s, start, m + 1, g) /\ \A j \in 0..m + 1 : g[j] \in Int
  BY <1>1, AddedExists
<1>3. Sum(s, start, 0) = g[0] /\ Sum(s, start, m) = g[m] /\ Sum(s, start, m + 1) = g[m + 1]
  BY <1>1, <1>2, SumIs
<1>4. g[0] = 0 /\ g[m + 1] = g[m] + s[start + (m + 1)] /\ g[m] \in Int
  <2> DEFINE e == m + 1
  <2>1. e \in Nat /\ 0 \in 0..e /\ e \in 0..e /\ m \in 0..e /\ e # 0 /\ e - 1 = m
    OBVIOUS
  <2>2. Added(s, start, e, g) /\ g[m] \in Int
    BY <1>2, <2>1
  <2> HIDE DEF e
  <2>3. g[0] = 0
    BY <2>1, <2>2 DEF Added
  <2>4. g[e] = g[e - 1] + s[start + e]
    BY <2>1, <2>2 DEF Added
  <2> QED
    BY <2>1, <2>2, <2>3, <2>4 DEF e
<1> QED
  BY <1>3, <1>4

LEMMA SumOfNone == ASSUME NEW s, NEW start PROVE Sum(s, start, 0) = 0
<1> DEFINE h == [j \in 0..0 |-> 0]
<1>1. Added(s, start, 0, h)
  BY DEF Added
<1>2. \A f : Added(s, start, 0, f) => f[0] = 0
  BY DEF Added
<1>3. Sum(s, start, 0) = (CHOOSE f : Added(s, start, 0, f))[0]
  BY DEF Sum, Added
<1> HIDE DEF h
<1> QED
  BY <1>1, <1>2, <1>3

\* Moving a window by one place takes its first element out and the next one in.
LEMMA SumSlides ==
  ASSUME NEW s, NEW start \in Nat, NEW N \in Nat, Within(s, start, N + 1)
  PROVE  \A m \in 0..N : Sum(s, start, m + 1) = s[start + 1] + Sum(s, start + 1, m)
<1> DEFINE T == {m \in Nat : m <= N => Sum(s, start, m + 1) = s[start + 1] + Sum(s, start + 1, m)}
<1>0. s[start + 1] \in Int
  BY DEF Within
<1>1. 0 \in T
  <2>1. Within(s, start, 0 + 1)
    BY DEF Within
  <2>2. Sum(s, start, 0) = 0 /\ Sum(s, start, 0 + 1) = Sum(s, start, 0) + s[start + (0 + 1)]
    BY <2>1, SumSteps
  <2>3. Sum(s, start + 1, 0) = 0
    BY SumOfNone
  <2> QED
    BY <1>0, <2>2, <2>3
<1>2. ASSUME NEW m \in Nat, m \in T PROVE m + 1 \in T
  <2> SUFFICES ASSUME m + 1 <= N
               PROVE  Sum(s, start, (m + 1) + 1) = s[start + 1] + Sum(s, start + 1, m + 1)
    OBVIOUS
  <2>1. Within(s, start, (m + 1) + 1) /\ s[start + ((m + 1) + 1)] \in Int
    <3>1. (m + 1) + 1 \in Nat /\ (m + 1) + 1 \in 1..N + 1 /\ \A j \in 1..(m + 1) + 1 : j \in 1..N + 1
      OBVIOUS
    <3> QED
      BY <3>1 DEF Within
  <2>2. Within(s, start + 1, m + 1)
    <3>1. s \in Seq(Int) /\ \A j \in 1..N + 1 : s[start + j] \in Int
      BY DEF Within
    <3>2. start + 1 \in Nat /\ m + 1 \in Nat
      OBVIOUS
    <3>3. ASSUME NEW j \in 1..m + 1 PROVE s[(start + 1) + j] \in Int
      <4>1. (start + 1) + j = start + (j + 1) /\ j + 1 \in 1..N + 1
        OBVIOUS
      <4> QED
        BY <3>1, <4>1
    <3> QED
      BY <3>1, <3>2, <3>3 DEF Within
  <2>3. Sum(s, start, (m + 1) + 1) = Sum(s, start, m + 1) + s[start + ((m + 1) + 1)]
    BY <2>1, SumSteps
  <2>4. /\ Sum(s, start + 1, m + 1) = Sum(s, start + 1, m) + s[(start + 1) + (m + 1)]
        /\ Sum(s, start + 1, m) \in Int
    BY <2>2, SumSteps
  <2>5. (start + 1) + (m + 1) = start + ((m + 1) + 1)
    OBVIOUS
  <2>6. Sum(s, start, m + 1) = s[start + 1] + Sum(s, start + 1, m)
    BY <1>2
  <2> QED
    BY <1>0, <2>1, <2>3, <2>4, <2>5, <2>6
<1> HIDE DEF T
<1>3. Nat \subseteq T
  BY <1>1, <1>2, NatSetInduction
<1> QED
  BY <1>3 DEF T

-----------------------------------------------------------------------------
(* What all of the methods share *)

LEMMA MaxIs ==
  ASSUME NEW S \in SUBSET Int, NEW x, IsMost(x, S)
  PROVE  Max(S) = x
<1>1. x \in S /\ (\A y \in S : x >= y) /\ \A z \in S : (\A y \in S : z >= y) => z = x
  BY DEF IsMost
<1>2. Max(S) = CHOOSE z \in S : \A y \in S : z >= y
  BY DEF Max
<1> QED
  BY <1>1, <1>2

LEMMA MinIs ==
  ASSUME NEW S \in SUBSET Int, NEW x, IsLeast(x, S)
  PROVE  Min(S) = x
<1>1. x \in S /\ (\A y \in S : x <= y) /\ \A z \in S : (\A y \in S : z <= y) => z = x
  BY DEF IsLeast
<1>2. Min(S) = CHOOSE z \in S : \A y \in S : z <= y
  BY DEF Min
<1> QED
  BY <1>1, <1>2

LEMMA InputsStart == OnePassInit => InputsType
<1> SUFFICES ASSUME OnePassInit PROVE InputsType
  OBVIOUS
<1>1. PICK m \in 0..MaxLength : given \in [1..m -> Numbers]
  BY DEF OnePassInit, Lists
<1>2. m \in Int /\ 0 <= m
  BY <1>1, SMT
<1>3. m \in Nat /\ given \in [1..m -> Int]
  <2>1. m \in Nat
    BY <1>2
  <2>2. Numbers \subseteq Int
    BY OnePassAssumption
  <2>3. given = [j \in 1..m |-> given[j]] /\ \A j \in 1..m : given[j] \in Numbers
    BY <1>1
  <2>4. \A j \in 1..m : given[j] \in Int
    BY <2>2, <2>3
  <2> QED
    BY <2>1, <2>3, <2>4
<1>4. given \in Seq(Int) /\ Len(given) = m /\ DOMAIN given = 1..m
  BY <1>3
<1>5. argument \in Int
  <2>1. argument = 0 \/ argument \in 1..Len(given) \/ argument \in Numbers
    BY DEF OnePassInit, Called
  <2>2. Numbers \subseteq Int
    BY OnePassAssumption
  <2>3. \A x \in 1..Len(given) : x \in Int
    OBVIOUS
  <2>4. CASE argument = 0
    BY <2>4
  <2>5. CASE argument \in 1..Len(given)
    BY ONLY <2>3, <2>5
  <2>6. CASE argument \in Numbers
    BY ONLY <2>2, <2>6
  <2> QED
    BY ONLY <2>1, <2>4, <2>5, <2>6
<1> QED
  BY <1>3, <1>4, <1>5 DEF InputsType

LEMMA InputsStay ==
  ASSUME InputsType, [OnePassNext]_passVars
  PROVE  InputsType' /\ UNCHANGED <<solution, given, argument>>
<1>1. UNCHANGED <<solution, given, argument>>
  BY DEF OnePassNext, passVars, inputs, LookAtWindow, ReturnRepeats, AddNumber, ReturnAverage, AddLetter,
         ReturnVowels, Narrow, ReturnArea, Halve, ReturnPlace, Resolve, AddDay, ReturnWaits, Jump, Return
<1> QED
  BY <1>1 DEF InputsType

\* The element at pos, which the loops look at.
LEMMA ElementIs ==
  ASSUME InputsType, pos \in Nat, pos < Len(given)
  PROVE  pos + 1 \in 1..Len(given) /\ element = given[pos + 1] /\ element \in Int
BY DEF InputsType, element

-----------------------------------------------------------------------------
(* canJump *)

LEMMA JumpStarts == OnePassInit /\ InputsType /\ solution = "canJump" => JumpInv
<1> SUFFICES ASSUME OnePassInit, InputsType, solution = "canJump" PROVE JumpInv
  OBVIOUS
<1>1. /\ given # <<>> /\ \A j \in DOMAIN given : given[j] >= 0
      /\ pos = 0 /\ furthest = given[1] /\ returned = <<>>
  BY DEF OnePassInit, Called
<1>2. Len(given) \in Nat \ {0} /\ \A j \in 1..Len(given) : given[j] \in Nat
  BY <1>1 DEF InputsType
<1>3. furthest \in Nat
  BY <1>1, <1>2
<1>4. ASSUME NEW j \in 1..Len(given), j - 1 <= furthest PROVE Way(j)
  <2> DEFINE S == {1, j}
  <2>1. S \in SUBSET (1..j) /\ {1, j} \subseteq S
    BY <1>2
  <2>2. ASSUME NEW a \in S \ {j} PROVE \E b \in S : b > a /\ b - a <= given[a]
    <3>1. a = 1 /\ j > a /\ j - a <= given[a] /\ j \in S
      BY <1>1, <1>2, <1>4, <2>2
    <3> QED
      BY <3>1
  <2> HIDE DEF S
  <2> QED
    BY <2>1, <2>2 DEF Way
<1> QED
  BY <1>1, <1>2, <1>3, <1>4 DEF JumpInv

\* From a place that can be reached, so can those its jump allows.
LEMMA WayGoesOn ==
  ASSUME NEW c \in Nat \ {0}, Way(c), NEW j \in Nat, j > c, j - c <= given[c]
  PROVE  Way(j)
<1>1. PICK S \in SUBSET (1..c) : /\ {1, c} \subseteq S
                                 /\ \A a \in S \ {c} : \E b \in S : b > a /\ b - a <= given[a]
  BY DEF Way
<1> DEFINE U == S \cup {j}
<1>2. U \in SUBSET (1..j) /\ {1, j} \subseteq U
  BY <1>1
<1>3. ASSUME NEW a \in U \ {j} PROVE \E b \in U : b > a /\ b - a <= given[a]
  <2>1. CASE a = c
    BY <2>1
  <2>2. CASE a # c
    BY <1>1, <1>3, <2>2
  <2> QED
    BY <2>1, <2>2
<1> HIDE DEF U
<1> QED
  BY <1>2, <1>3 DEF Way

\* A set of steps within bounds has a last one.
LEMMA LastStep ==
  ASSUME NEW m \in Nat, NEW S \in SUBSET (1..m), NEW c \in S
  PROVE  \E x \in S : \A y \in S : y <= x
<1> DEFINE T == {d \in Nat : \A x \in S : x >= m - d => \E z \in S : \A y \in S : y <= z}
<1>1. 0 \in T
  <2> SUFFICES ASSUME NEW x \in S, x >= m - 0 PROVE \E z \in S : \A y \in S : y <= z
    OBVIOUS
  <2>1. \A y \in S : y <= x
    OBVIOUS
  <2> QED
    BY <2>1
<1>2. ASSUME NEW d \in Nat, d \in T PROVE d + 1 \in T
  <2> SUFFICES ASSUME NEW x \in S, x >= m - (d + 1) PROVE \E z \in S : \A y \in S : y <= z
    OBVIOUS
  <2>1. CASE \E w \in S : w > x
    <3>1. PICK w \in S : w > x
      BY <2>1
    <3>2. w >= m - d
      BY <3>1
    <3> QED
      BY <1>2, <3>2
  <2>2. CASE ~ \E w \in S : w > x
    <3>1. \A y \in S : y <= x
      BY <2>2
    <3> QED
      BY <3>1
  <2> QED
    BY <2>1, <2>2
<1> HIDE DEF T
<1>3. m \in T
  BY <1>1, <1>2, NatSetInduction
<1>4. c >= m - m
  OBVIOUS
<1> QED
  BY <1>3, <1>4 DEF T

LEMMA JumpKeeps ==
  ASSUME InputsType, JumpInv, solution = "canJump", OnePassNext
  PROVE  JumpInv'
<1> DEFINE L == Len(given)
           reach == Larger(furthest, element + pos)
<1>1. /\ L \in Nat \ {0} /\ DOMAIN given = 1..L /\ \A j \in 1..L : given[j] \in Nat
      /\ given' = given /\ returned = <<>> /\ Jump
  <2>1. Jump
    BY DEF OnePassNext, LookAtWindow, ReturnRepeats, AddNumber, ReturnAverage, AddLetter,
         ReturnVowels, Narrow, ReturnArea, Halve, ReturnPlace, Resolve, AddDay, ReturnWaits, Runs
  <2>2. returned = <<>> /\ given' = given
    BY <2>1 DEF Jump, Runs, Return, inputs
  <2>3. L \in Nat /\ given # <<>>
    BY DEF InputsType, JumpInv
  <2> QED
    BY <2>1, <2>2, <2>3 DEF InputsType, JumpInv
<1>2. /\ pos \in Nat /\ furthest \in Nat /\ pos < L
      /\ pos > 0 => furthest >= pos /\ furthest < L - 1
      /\ \A j \in 1..pos : j - 1 + given[j] <= furthest
      /\ \A j \in 1..L : j - 1 <= furthest => Way(j)
  BY <1>1 DEF JumpInv
<1>3. pos + 1 \in 1..L /\ element = given[pos + 1] /\ element \in Nat
  BY <1>1, <1>2, ElementIs
<1>4. /\ reach \in Nat /\ furthest <= reach /\ pos + given[pos + 1] <= reach
      /\ reach = furthest \/ reach = pos + given[pos + 1]
  BY <1>2, <1>3 DEF Larger
<1>5. /\ furthest' = reach
      /\ IF reach >= L - 1 THEN returned' = <<"True">> /\ pos' = pos
         ELSE IF reach = pos THEN returned' = <<"False">> /\ pos' = pos
         ELSE pos' = pos + 1 /\ returned' = returned
  <2>1. \A x, y \in Nat : x < y => x # y
    OBVIOUS
  <2>2. pos # Len(given)
    BY <1>1, <1>2, <2>1
  <2> QED
    BY <1>1, <2>2 DEF Jump
<1> HIDE DEF L, reach
<1>6. \A j \in 1..L : j - 1 <= reach => Way(j)
  <2> SUFFICES ASSUME NEW j \in 1..L, j - 1 <= reach PROVE Way(j)
    OBVIOUS
  <2>1. CASE j - 1 <= furthest
    BY <1>2, <2>1
  <2>2. CASE ~(j - 1 <= furthest)
    <3>1. Way(pos + 1)
      <4>1. pos <= furthest
        BY <1>2
      <4> QED
        BY <1>2, <1>3, <4>1
    <3>2. j > pos + 1 /\ j - (pos + 1) <= given[pos + 1] /\ pos + 1 \in Nat \ {0} /\ j \in Nat
      BY <1>1, <1>2, <1>3, <1>4, <2>2
    <3> QED
      BY <3>1, <3>2, WayGoesOn
  <2> QED
    BY <2>1, <2>2
<1>7. \A j \in 1..pos + 1 : j - 1 + given[j] <= reach
  <2> TAKE j \in 1..pos + 1
  <2>1. CASE j = pos + 1
    BY <1>2, <1>4, <2>1
  <2>2. CASE j # pos + 1
    <3>1. j \in 1..pos /\ j \in 1..L
      BY <1>1, <1>2, <2>2
    <3> QED
      BY <1>1, <1>2, <1>4, <3>1
  <2> QED
    BY <2>1, <2>2
<1>8. \A j : Way(j)' <=> Way(j)
  BY <1>1 DEF Way
<1>9. HasWay' <=> HasWay
  BY <1>1 DEF HasWay
<1>10. CASE reach >= L - 1
  <2>1. Way(L)
    BY <1>1, <1>4, <1>6, <1>10
  <2>2. HasWay
    BY <1>1, <2>1 DEF Way, HasWay, L
  <2>3. returned' = <<"True">> /\ pos' = pos
    BY <1>5, <1>10
  <2> QED
    BY <1>1, <1>2, <1>4, <1>5, <1>9, <2>2, <2>3 DEF JumpInv, L
<1>11. CASE reach < L - 1 /\ reach = pos
  <2>1. returned' = <<"False">> /\ pos' = pos
    BY <1>1, <1>4, <1>5, <1>11
  <2>2. ~HasWay
    <3> SUFFICES ASSUME HasWay PROVE FALSE
      OBVIOUS
    <3>1. PICK S \in SUBSET (1..L) :
             /\ {1, L} \subseteq S
             /\ \A a \in S \ {L} : \E b \in S : b > a /\ b - a <= given[a]
      BY <1>1 DEF HasWay, L
    <3> DEFINE R == {a \in S : a <= pos + 1}
    <3>2. R \in SUBSET (1..pos + 1) /\ 1 \in R
      <4>1. \A a \in R : a \in 1..pos + 1
        BY <1>1, <1>2, <3>1
      <4>2. 1 \in R
        BY <1>1, <1>2, <3>1
      <4> QED
        BY <4>1, <4>2
    <3>8. \A a : a \in R <=> a \in S /\ a <= pos + 1
      OBVIOUS
    <3> HIDE DEF R
    <3>9. pos + 1 \in Nat
      BY <1>2
    <3>3. PICK x \in R : \A y \in R : y <= x
      BY <3>2, <3>9, LastStep
    <3>4. x \in S \ {L} /\ x \in 1..pos + 1
      BY <1>1, <1>2, <1>11, <3>2, <3>3, <3>8
    <3>5. PICK y \in S : y > x /\ y - x <= given[x]
      BY <3>1, <3>4
    <3>6. y \in Nat /\ x - 1 + given[x] <= reach /\ x \in 1..L
      BY <1>1, <1>2, <1>7, <3>1, <3>4
    <3>7. y <= pos + 1
      BY <1>1, <1>2, <1>4, <1>11, <3>4, <3>5, <3>6
    <3> QED
      BY <3>3, <3>4, <3>5, <3>6, <3>7, <3>8
  <2> QED
    BY <1>1, <1>2, <1>4, <1>5, <1>9, <2>1, <2>2 DEF JumpInv, L
<1>12. CASE reach < L - 1 /\ reach # pos
  <2>1. returned' = <<>> /\ pos' = pos + 1
    BY <1>1, <1>4, <1>5, <1>12
  <2>2. reach >= pos + 1
    BY <1>2, <1>3, <1>4, <1>12
  <2> QED
    BY <1>1, <1>2, <1>4, <1>5, <1>6, <1>7, <1>8, <1>12, <2>1, <2>2 DEF JumpInv, L
<1> QED
  BY <1>1, <1>4, <1>10, <1>11, <1>12

-----------------------------------------------------------------------------
(* searchInsert *)

LEMMA InsertStarts == OnePassInit /\ InputsType /\ solution = "searchInsert" => InsertInv
<1> SUFFICES ASSUME OnePassInit, InputsType, solution = "searchInsert" PROVE InsertInv
  OBVIOUS
<1>1. lo = 0 /\ hi = Len(given) /\ returned = <<>> /\ Rising(given)
  BY DEF OnePassInit, Called
<1>2. Len(given) \in Nat
  BY DEF InputsType
<1> QED
  BY <1>1, <1>2 DEF InsertInv

LEMMA InsertKeeps ==
  ASSUME InputsType, InsertInv, solution = "searchInsert", OnePassNext
  PROVE  InsertInv'
<1> DEFINE L == Len(given)
           c == mid
<1>1. /\ L \in Nat /\ DOMAIN given = 1..L /\ \A j \in 1..L : given[j] \in Int
      /\ argument \in Int /\ given' = given /\ argument' = argument /\ returned = <<>>
  <2>1. Halve \/ ReturnPlace
    BY DEF OnePassNext, LookAtWindow, ReturnRepeats, AddNumber, ReturnAverage, AddLetter,
         ReturnVowels, Narrow, ReturnArea, Resolve, AddDay, ReturnWaits, Jump, Runs
  <2>2. returned = <<>> /\ given' = given /\ argument' = argument
    BY <2>1 DEF Halve, ReturnPlace, Runs, Return, inputs
  <2> QED
    BY <2>2 DEF InputsType
<1>2. /\ lo \in Nat /\ hi \in Nat /\ lo <= hi /\ hi <= L
      /\ \A a, b \in 1..L : a < b => given[a] < given[b]
      /\ \A j \in 1..L : (j <= lo => given[j] < argument) /\ (j > hi => given[j] > argument)
  BY <1>1 DEF InsertInv, Rising
<1>3. lo < hi => c \in Nat /\ lo <= c /\ c < hi /\ c + 1 \in 1..L
  <2> SUFFICES ASSUME lo < hi PROVE c \in Nat /\ lo <= c /\ c < hi /\ c + 1 \in 1..L
    OBVIOUS
  <2>1. c = (lo + hi) \div 2
    BY DEF mid
  <2> HIDE DEF c
  <2>2. c \in Nat /\ lo <= c /\ c < hi
    BY <1>2, <2>1
  <2> QED
    BY <1>1, <1>2, <2>2
<1>4. Rising(given')
  BY <1>1 DEF InsertInv
<1>5. \A j \in 1..L : given[j] \in Int
  BY <1>1
<1>6. CASE Halve
  <2>1. returned' = <<>> /\ lo < hi
    BY <1>1, <1>6 DEF Halve
  <2>2. CASE given[c + 1] < argument /\ lo' = c + 1 /\ hi' = hi
    <3> HIDE DEF c
    <3>1. ASSUME NEW j \in 1..L, j <= c + 1 PROVE given[j] < argument
      BY <1>2, <1>3, <1>5, <1>1, <2>1, <2>2, <3>1
    <3>2. lo' \in Nat /\ lo' <= hi'
      BY <1>2, <1>3, <2>1, <2>2
    <3> QED
      BY <1>1, <1>2, <1>4, <2>1, <2>2, <3>1, <3>2 DEF InsertInv, L
  <2>3. CASE given[c + 1] > argument /\ hi' = c /\ lo' = lo
    <3> HIDE DEF c
    <3>1. ASSUME NEW j \in 1..L, j > c PROVE given[j] > argument
      BY <1>2, <1>3, <1>5, <1>1, <2>1, <2>3, <3>1
    <3>2. hi' \in Nat /\ lo' <= hi' /\ hi' <= L
      BY <1>1, <1>2, <1>3, <2>1, <2>3
    <3> QED
      BY <1>1, <1>2, <1>4, <2>1, <2>3, <3>1, <3>2 DEF InsertInv, L
  <2> QED
    BY <1>6, <2>2, <2>3 DEF Halve
<1>7. CASE ReturnPlace
  <2>1. lo' = lo /\ hi' = hi
    BY <1>7 DEF ReturnPlace, Return, pointerVars
  <2>2. CASE lo < hi /\ given[c + 1] = argument /\ returned' = <<c>>
    <3> HIDE DEF c
    <3>1. ASSUME NEW j \in 1..L PROVE given[j] < argument <=> j <= c
      <4>1. j < c + 1 \/ j = c + 1 \/ c + 1 < j
        BY <1>3, <1>1, <2>2
      <4>2. j < c + 1 => given[j] < given[c + 1]
        BY <1>2, <1>3, <2>2
      <4>3. c + 1 < j => given[c + 1] < given[j]
        BY <1>2, <1>3, <2>2
      <4>4. given[j] \in Int /\ given[c + 1] \in Int
        BY <1>3, <1>5, <2>2
      <4> QED
        BY <1>1, <1>3, <2>2, <4>1, <4>2, <4>3, <4>4
    <3>2. c \in 0..L
      BY <1>1, <1>2, <1>3, <2>2
    <3>3. returned'[1] = c
      BY <2>2
    <3> QED
      BY <1>1, <1>2, <1>4, <2>1, <3>1, <3>2, <3>3 DEF InsertInv, L
  <2>3. CASE lo >= hi /\ returned' = <<lo>>
    <3>1. ASSUME NEW j \in 1..L PROVE given[j] < argument <=> j <= lo
      <4>1. given[j] \in Int
        BY <1>5
      <4> QED
        BY <1>1, <1>2, <2>3, <4>1
    <3>2. lo \in 0..L
      BY <1>1, <1>2
    <3>3. returned'[1] = lo
      BY <2>3
    <3> QED
      BY <1>1, <1>2, <1>4, <2>1, <3>1, <3>2, <3>3 DEF InsertInv, L
  <2> QED
    BY <1>7, <2>2, <2>3 DEF ReturnPlace, Return
<1> QED
  BY <1>6, <1>7 DEF OnePassNext, LookAtWindow, ReturnRepeats, AddNumber, ReturnAverage, AddLetter,
         ReturnVowels, Narrow, ReturnArea, Resolve, AddDay, ReturnWaits, Jump, Runs

LEMMA InsertRight == InputsType /\ (solution = "searchInsert" => InsertInv) => InsertKeepsOrder
<1> SUFFICES ASSUME InputsType, InsertInv, returned # <<>>
             PROVE  returned[1] = Cardinality({j \in DOMAIN given : given[j] < argument})
  BY DEF InsertKeepsOrder, Returns
<1> DEFINE p == returned[1]
<1>1. p \in 0..Len(given) /\ \A j \in 1..Len(given) : given[j] < argument <=> j <= p
  BY DEF InsertInv
<1>2. Len(given) \in Nat /\ DOMAIN given = 1..Len(given)
  BY DEF InputsType
<1> HIDE DEF p
<1>3. \A j : (j \in DOMAIN given /\ given[j] < argument) <=> j \in 1..p
  BY <1>1, <1>2
<1>4. {j \in DOMAIN given : given[j] < argument} = 1..p
  BY <1>3
<1>5. p \in Nat
  BY <1>1, <1>2
<1>6. Cardinality(1..p) = p
  BY <1>5, IntervalSize
<1> QED
  BY <1>4, <1>6 DEF p

-----------------------------------------------------------------------------
(* maxArea *)

LEMMA ProductsGrow ==
  ASSUME NEW a \in Nat, NEW b \in Nat, a <= b, NEW c \in Nat, NEW d \in Nat, c <= d
  PROVE  a * c \in Nat /\ a * c <= b * d
<1> DEFINE e == b - a
           f == d - c
<1>1. e \in Nat /\ f \in Nat /\ b = a + e /\ d = c + f
  OBVIOUS
<1> HIDE DEF e, f
<1>2. (a + e) * (c + f) = ((a * c + a * f) + e * c) + e * f
  BY <1>1
<1>3. a * c \in Nat /\ a * f \in Nat /\ e * c \in Nat /\ e * f \in Nat
  BY <1>1
<1>4. a * c <= (a + e) * (c + f)
  <2> DEFINE x == a * c
             y == a * f
             z == e * c
             w == e * f
  <2>1. x \in Nat /\ y \in Nat /\ z \in Nat /\ w \in Nat /\ (a + e) * (c + f) = ((x + y) + z) + w
    BY <1>2, <1>3
  <2> HIDE DEF x, y, z, w
  <2>2. x <= (a + e) * (c + f)
    BY <2>1
  <2> QED
    BY <2>2 DEF x
<1> QED
  BY <1>1, <1>3, <1>4

LEMMA AreaNat ==
  ASSUME NEW i \in Int, NEW j \in Int, i <= j, given[i] \in Nat, given[j] \in Nat
  PROVE  Area(i, j) \in Nat
<1> DEFINE x == Smaller(given[i], given[j])
           d == j - i
<1>1. x \in Nat /\ d \in Nat /\ Area(i, j) = x * d
  BY DEF Smaller, Area
<1> HIDE DEF x, d
<1> QED
  BY <1>1, ProductsGrow

LEMMA AreaStarts == OnePassInit /\ InputsType /\ solution = "maxArea" => AreaInv
<1> SUFFICES ASSUME OnePassInit, InputsType, solution = "maxArea" PROVE AreaInv
  OBVIOUS
<1>1. lo = 0 /\ hi = Len(given) - 1 /\ best = 0 /\ returned = <<>> /\ \A j \in DOMAIN given : given[j] >= 0
  BY DEF OnePassInit, Called
<1>2. Len(given) \in Nat /\ DOMAIN given = 1..Len(given) /\ \A j \in 1..Len(given) : given[j] \in Int
  BY DEF InputsType
<1>3. \A j \in 1..Len(given) : given[j] \in Nat
  BY <1>1, <1>2
<1>4. best \in Nat /\ best \in Areas
  BY <1>1 DEF Areas
<1>5. lo \in Nat /\ hi \in Int /\ hi < Len(given) /\ (Len(given) > 0 => lo <= hi)
  BY <1>1, <1>2
<1>6. ASSUME NEW i \in 1..Len(given), NEW j \in 1..Len(given), i <= lo \/ j > hi + 1 PROVE FALSE
  BY <1>1, <1>2, <1>6
<1> QED
  BY <1>1, <1>3, <1>4, <1>5, <1>6 DEF AreaInv

LEMMA AreaKeeps ==
  ASSUME InputsType, AreaInv, solution = "maxArea", OnePassNext
  PROVE  AreaInv'
<1> DEFINE L == Len(given)
<1>1. /\ L \in Nat /\ DOMAIN given = 1..L /\ given' = given /\ returned = <<>> /\ (Narrow \/ ReturnArea)
  <2>1. Narrow \/ ReturnArea
    BY DEF OnePassNext, LookAtWindow, ReturnRepeats, AddNumber, ReturnAverage, AddLetter,
         ReturnVowels, Halve, ReturnPlace, Resolve, AddDay, ReturnWaits, Jump, Runs
  <2>2. returned = <<>> /\ given' = given
    BY <2>1 DEF Narrow, ReturnArea, Runs, Return, inputs
  <2> QED
    BY <2>1, <2>2 DEF InputsType
<1>2. /\ \A j \in 1..L : given[j] \in Nat
      /\ lo \in Nat /\ hi \in Int /\ hi < L /\ (L > 0 => lo <= hi)
      /\ best \in Nat /\ best \in Areas
  BY <1>1 DEF AreaInv
<1>3. \A i, j \in 1..L : i < j /\ (i <= lo \/ j > hi + 1) => Area(i, j) <= best
  BY DEF AreaInv
<1>4. \A i, j : Area(i, j)' = Area(i, j)
  BY <1>1 DEF Area
<1>5. Areas' = Areas
  BY <1>1 DEF Areas, Area
<1>6. CASE Narrow
  <2> DEFINE v == volume
             a == lo + 1
             b == hi + 1
  <2>1. lo < hi /\ best' = Larger(best, v) /\ returned' = <<>>
    BY <1>1, <1>6 DEF Narrow
  <2>2. a \in 1..L /\ b \in 1..L /\ a < b /\ b - a = hi - lo /\ b - a \in Nat
    BY <1>1, <1>2, <2>1
  <2>3. v = Area(a, b) /\ v = Smaller(given[a], given[b]) * (b - a)
    BY <2>2 DEF volume, Area
  <2>14. \/ given[a] > given[b] /\ hi' = hi - 1 /\ lo' = lo
         \/ given[a] <= given[b] /\ lo' = lo + 1 /\ hi' = hi
    BY <1>6 DEF Narrow
  <2>4. lo = a - 1 /\ hi = b - 1
    BY <1>2
  <2> HIDE DEF v, a, b
  <2>5. \A x, y \in Nat : Smaller(x, y) \in Nat /\ Smaller(x, y) <= x /\ Smaller(x, y) <= y
    BY DEF Smaller
  <2>6. v \in Nat /\ v \in Areas
    <3>1. given[a] \in Nat /\ given[b] \in Nat
      BY <1>2, <2>2
    <3>2. v \in Nat
      <4>1. a \in Int /\ b \in Int /\ a <= b
        BY <1>1, <2>2
      <4> QED
        BY <2>3, <3>1, <4>1, AreaNat
    <3>3. Area(a, b) \in Areas
      BY <1>1, <2>2 DEF Areas
    <3> QED
      BY <2>3, <3>2, <3>3
  <2>7. best' \in Nat /\ best' \in Areas /\ best <= best' /\ v <= best'
    BY <1>2, <2>1, <2>6 DEF Larger
  <2>8. CASE given[a] > given[b] /\ hi' = hi - 1 /\ lo' = lo
    <3>1. v = given[b] * (b - a)
      BY <1>2, <2>2, <2>3, <2>8 DEF Smaller
    <3>2. ASSUME NEW i \in 1..L, i < b, i > lo PROVE Area(i, b) <= v
      <4>1. given[i] \in Nat /\ given[b] \in Nat /\ b - i \in Nat /\ b - i <= b - a
        BY <1>1, <1>2, <2>2, <2>4, <3>2
      <4>2. Smaller(given[i], given[b]) \in Nat /\ Smaller(given[i], given[b]) <= given[b]
        BY <2>5, <4>1
      <4>3. Smaller(given[i], given[b]) * (b - i) <= given[b] * (b - a)
        BY <2>2, <4>1, <4>2, ProductsGrow
      <4> QED
        BY <3>1, <4>3 DEF Area
    <3>3. ASSUME NEW i \in 1..L, NEW j \in 1..L, i < j, i <= lo' \/ j > hi' + 1
          PROVE  Area(i, j) <= best'
      <4>1. CASE i <= lo \/ j > hi + 1
        <5>1. Area(i, j) <= best
          BY <1>3, <3>3, <4>1
        <5>2. Area(i, j) \in Int
          <6>1. given[i] \in Nat /\ given[j] \in Nat /\ i \in Int /\ j \in Int /\ i <= j
            BY <1>1, <1>2, <3>3
          <6> QED
            BY <6>1, AreaNat
        <5> QED
          BY <1>2, <2>7, <5>1, <5>2
      <4>2. CASE ~(i <= lo \/ j > hi + 1)
        <5>1. j = b /\ i < b /\ i > lo
          BY <1>1, <1>2, <2>2, <2>4, <2>8, <3>3, <4>2
        <5>2. Area(i, j) <= v
          BY <3>2, <5>1
        <5>3. Area(i, j) \in Int
          <6>1. given[i] \in Nat /\ given[j] \in Nat /\ i \in Int /\ j \in Int /\ i <= j
            BY <1>1, <1>2, <3>3
          <6> QED
            BY <6>1, AreaNat
        <5> QED
          BY <2>6, <2>7, <5>2, <5>3
      <4> QED
        BY <4>1, <4>2
    <3>4. lo' \in Nat /\ hi' \in Int /\ hi' < L /\ lo' <= hi'
      BY <1>1, <1>2, <2>1, <2>8
    <3> QED
      BY <1>1, <1>2, <1>4, <1>5, <2>1, <2>7, <3>3, <3>4 DEF AreaInv, L
  <2>9. CASE given[a] <= given[b] /\ lo' = lo + 1 /\ hi' = hi
    <3>1. v = given[a] * (b - a)
      BY <1>2, <2>2, <2>3, <2>9 DEF Smaller
    <3>2. ASSUME NEW j \in 1..L, a < j, j <= b PROVE Area(a, j) <= v
      <4>1. given[a] \in Nat /\ given[j] \in Nat /\ j - a \in Nat /\ j - a <= b - a
        BY <1>1, <1>2, <2>2, <2>4, <3>2
      <4>2. Smaller(given[a], given[j]) \in Nat /\ Smaller(given[a], given[j]) <= given[a]
        BY <2>5, <4>1
      <4>3. Smaller(given[a], given[j]) * (j - a) <= given[a] * (b - a)
        BY <2>2, <4>1, <4>2, ProductsGrow
      <4> QED
        BY <3>1, <4>3 DEF Area
    <3>3. ASSUME NEW i \in 1..L, NEW j \in 1..L, i < j, i <= lo' \/ j > hi' + 1
          PROVE  Area(i, j) <= best'
      <4>1. CASE i <= lo \/ j > hi + 1
        <5>1. Area(i, j) <= best
          BY <1>3, <3>3, <4>1
        <5>2. Area(i, j) \in Int
          <6>1. given[i] \in Nat /\ given[j] \in Nat /\ i \in Int /\ j \in Int /\ i <= j
            BY <1>1, <1>2, <3>3
          <6> QED
            BY <6>1, AreaNat
        <5> QED
          BY <1>2, <2>7, <5>1, <5>2
      <4>2. CASE ~(i <= lo \/ j > hi + 1)
        <5>1. i = a /\ a < j /\ j <= b
          BY <1>1, <1>2, <2>2, <2>4, <2>9, <3>3, <4>2
        <5>2. Area(i, j) <= v
          BY <3>2, <5>1
        <5>3. Area(i, j) \in Int
          <6>1. given[i] \in Nat /\ given[j] \in Nat /\ i \in Int /\ j \in Int /\ i <= j
            BY <1>1, <1>2, <3>3
          <6> QED
            BY <6>1, AreaNat
        <5> QED
          BY <2>6, <2>7, <5>2, <5>3
      <4> QED
        BY <4>1, <4>2
    <3>4. lo' \in Nat /\ hi' \in Int /\ hi' < L /\ lo' <= hi'
      BY <1>1, <1>2, <2>1, <2>9
    <3> QED
      BY <1>1, <1>2, <1>4, <1>5, <2>1, <2>7, <3>3, <3>4 DEF AreaInv, L
  <2> QED
    BY <2>8, <2>9, <2>14
<1>7. CASE ReturnArea
  <2>1. lo' = lo /\ hi' = hi /\ best' = best /\ returned' = <<best>> /\ lo >= hi
    BY <1>7 DEF ReturnArea, Return, pointerVars, windowVars
  <2>2. returned'[1] = best
    BY <2>1
  <2> QED
    BY <1>1, <1>2, <1>3, <1>4, <1>5, <2>1, <2>2 DEF AreaInv, L
<1> QED
  BY <1>1, <1>6, <1>7

LEMMA AreaRight == InputsType /\ (solution = "maxArea" => AreaInv) => AreaIsLargest
<1> SUFFICES ASSUME InputsType, AreaInv, returned # <<>> PROVE returned[1] = Max(Areas)
  BY DEF AreaIsLargest, Returns, Areas, Area
<1> DEFINE L == Len(given)
<1>1. L \in Nat /\ DOMAIN given = 1..L
  BY DEF InputsType
<1>2. /\ \A j \in 1..L : given[j] \in Nat
      /\ lo \in Nat /\ hi \in Int /\ hi < L
      /\ best \in Nat /\ best \in Areas /\ returned[1] = best /\ lo >= hi
      /\ \A i, j \in 1..L : i < j /\ (i <= lo \/ j > hi + 1) => Area(i, j) <= best
  BY DEF AreaInv
<1> HIDE DEF L
<1>3. ASSUME NEW i \in 1..L, NEW j \in 1..L PROVE Area(i, j) \in Int /\ Area(i, j) <= best
  <2> DEFINE x == Smaller(given[i], given[j])
  <2>1. x \in Nat /\ Area(i, j) = x * (j - i)
    BY <1>2 DEF Smaller, Area
  <2> HIDE DEF x
  <2>2. Area(i, j) \in Int
    BY <1>1, <2>1
  <2>3. CASE i < j
    <3>1. i <= lo \/ j > hi + 1
      BY <1>1, <1>2, <2>3
    <3> QED
      BY <1>2, <2>2, <2>3, <3>1
  <2>4. CASE ~(i < j)
    <3> DEFINE y == i - j
    <3>1. y \in Nat /\ j - i = -y
      BY <1>1, <2>4
    <3> HIDE DEF y
    <3>2. x * (j - i) = -(x * y) /\ x * y \in Nat
      BY <2>1, <3>1
    <3> QED
      BY <1>2, <2>1, <2>2, <3>2
  <2> QED
    BY <2>3, <2>4
<1>4. \A z \in Areas : z \in Int /\ z <= best
  BY <1>1, <1>2, <1>3 DEF Areas
<1>5. Areas \in SUBSET Int /\ IsMost(best, Areas)
  BY <1>2, <1>4 DEF IsMost
<1> QED
  BY <1>2, <1>5, MaxIs

-----------------------------------------------------------------------------
(* dailyTemperatures *)

LEMMA WaitsStart == OnePassInit /\ InputsType /\ solution = "dailyTemperatures" => WaitsInv
<1> SUFFICES ASSUME OnePassInit, InputsType, solution = "dailyTemperatures" PROVE WaitsInv
  OBVIOUS
<1>1. pos = 0 /\ mystack = <<>> /\ waits = [j \in DOMAIN given |-> 0] /\ returned = <<>>
  BY DEF OnePassInit
<1>2. Len(given) \in Nat /\ DOMAIN given = 1..Len(given)
  BY DEF InputsType
<1>3. waits \in [1..Len(given) -> Nat] /\ \A j \in 1..Len(given) : waits[j] = 0
  BY <1>1, <1>2
<1>4. pos \in 0..Len(given) /\ (pos + 1)..Len(given) = 1..Len(given) /\ 1..pos = {}
  BY <1>1, <1>2
<1>5. mystack \in Seq(Nat) /\ DOMAIN mystack = {}
  BY <1>1
<1> QED
  BY <1>1, <1>3, <1>4, <1>5 DEF WaitsInv

\* The day on top of the stack is the last that waits and the coldest.
LEMMA WaitsKeep ==
  ASSUME InputsType, WaitsInv, solution = "dailyTemperatures", OnePassNext
  PROVE  WaitsInv'
<1> DEFINE L == Len(given)
           n == Len(mystack)
<1>1. /\ L \in Nat /\ DOMAIN given = 1..L /\ (\A j \in 1..L : given[j] \in Int)
      /\ given' = given /\ returned = <<>> /\ (Resolve \/ AddDay \/ ReturnWaits)
  <2>1. Resolve \/ AddDay \/ ReturnWaits
    BY DEF OnePassNext, LookAtWindow, ReturnRepeats, AddNumber, ReturnAverage, AddLetter,
         ReturnVowels, Halve, ReturnPlace, Narrow, ReturnArea, Jump, Runs
  <2>2. returned = <<>> /\ given' = given
    BY <2>1 DEF Resolve, AddDay, ReturnWaits, Runs, Return, inputs
  <2> QED
    BY <2>1, <2>2 DEF InputsType
<1>2. /\ pos \in 0..L /\ mystack \in Seq(Nat) /\ waits \in [1..L -> Nat]
      /\ n \in Nat /\ DOMAIN mystack = 1..n /\ n = Len(mystack)
      /\ \A a \in 1..n : mystack[a] \in Nat /\ mystack[a] < pos
  <2>1. mystack \in Seq(Nat) /\ \A a \in DOMAIN mystack : mystack[a] < pos
    BY DEF WaitsInv
  <2>2. n \in Nat /\ DOMAIN mystack = 1..n /\ \A a \in 1..n : mystack[a] \in Nat
    BY <2>1
  <2> QED
    BY <2>1, <2>2 DEF WaitsInv
<1>3. \A a, b \in 1..n : a < b => mystack[a] < mystack[b] /\ given[mystack[a] + 1] >= given[mystack[b] + 1]
  BY <1>2 DEF WaitsInv
<1>4. \A a \in 1..n : waits[mystack[a] + 1] = 0
  BY <1>2 DEF WaitsInv
<1>5. \A a \in 1..n : \A d \in 1..pos : d > mystack[a] => given[d] <= given[mystack[a] + 1]
  BY <1>2 DEF WaitsInv
<1>6. \A j \in 1..pos : (\A a \in 1..n : mystack[a] + 1 # j) =>
         \E d \in 1..L : IsLeast(d, WarmerDays(j)) /\ waits[j] = d - j
  BY <1>2 DEF WaitsInv
<1>7. \A j \in (pos + 1)..L : waits[j] = 0
  BY DEF WaitsInv
<1>8. \A j : WarmerDays(j)' = WarmerDays(j)
  BY <1>1 DEF WarmerDays
<1>9. \A d, j : IsLeast(d, WarmerDays(j))' <=> IsLeast(d, WarmerDays(j))
  BY <1>8 DEF IsLeast
<1>10. CASE Resolve
  <2> DEFINE t == mystack[n]
             k == n - 1
  <2>1. /\ pos < L /\ Warmer /\ pos' = pos /\ returned' = <<>>
        /\ mystack' = SubSeq(mystack, 1, n - 1)
        /\ waits' = [waits EXCEPT ![t + 1] = pos - t]
    BY <1>1, <1>10 DEF Resolve
  <2>2. n # 0 /\ given[t + 1] < given[pos + 1]
    <3>1. mystack # <<>>
      BY <2>1 DEF Warmer
    <3>2. n # 0
      BY <1>2, <3>1
    <3> QED
      BY <2>1, <3>2 DEF Warmer, element
  <2>3. k \in Nat /\ n \in 1..n /\ n = k + 1
    BY <1>2, <2>2
  <2>4. mystack' \in Seq(Nat) /\ Len(mystack') = k /\ DOMAIN mystack' = 1..k
    BY <1>2, <2>1, <2>3
  <2>5. \A a \in 1..k : mystack'[a] = mystack[a] /\ a \in 1..n /\ a < n
    BY <1>2, <2>1, <2>3
  <2>6. t \in Nat /\ t < pos /\ t + 1 \in 1..L /\ t + 1 \in 1..pos /\ pos + 1 \in 1..L /\ pos - t \in Nat
    BY <1>1, <1>2, <2>1, <2>3
  <2>7. waits' \in [1..L -> Nat] /\ waits'[t + 1] = pos - t /\ \A j \in 1..L : j # t + 1 => waits'[j] = waits[j]
    BY <1>2, <2>1, <2>6
  <2>15. mystack[n] = t /\ \A a \in 1..k : mystack[a] < t
    BY <1>3, <2>3, <2>5
  <2> HIDE DEF L, n, t, k
  <2>8. \A a \in 1..k : mystack'[a] < pos'
    BY <1>2, <2>1, <2>5
  <2>9. \A a, b \in 1..k : a < b =>
           mystack'[a] < mystack'[b] /\ given'[mystack'[a] + 1] >= given'[mystack'[b] + 1]
    BY <1>1, <1>3, <2>5
  <2>10. \A a \in 1..k : waits'[mystack'[a] + 1] = 0
    <3> TAKE a \in 1..k
    <3>1. mystack'[a] = mystack[a] /\ waits[mystack[a] + 1] = 0 /\ mystack[a] \in Nat /\ mystack[a] < t
      BY <1>2, <1>4, <2>5, <2>15
    <3>2. mystack[a] + 1 \in 1..L /\ mystack[a] + 1 # t + 1
      BY SMTT(30), ZenonT(30), <1>1, <2>6, <3>1
    <3> QED
      BY <2>7, <3>1, <3>2
  <2>11. \A a \in 1..k : \A d \in 1..pos' : d > mystack'[a] => given'[d] <= given'[mystack'[a] + 1]
    BY <1>1, <1>5, <2>1, <2>5
  <2>12. IsLeast(pos + 1, WarmerDays(t + 1))
    <3>1. pos + 1 \in WarmerDays(t + 1)
      <4>1. pos + 1 > t + 1
        BY <1>2, <2>6
      <4> QED
        BY <1>1, <2>2, <2>6, <4>1 DEF WarmerDays
    <3>2. ASSUME NEW d \in WarmerDays(t + 1) PROVE pos + 1 <= d
      <4>1. d \in 1..L /\ d > t + 1 /\ given[d] > given[t + 1]
        BY <1>1 DEF WarmerDays
      <4>2. d \in 1..pos => given[d] <= given[t + 1]
        BY <1>5, <2>3, <2>6, <2>15, <4>1
      <4>3. given[d] \in Int /\ given[t + 1] \in Int
        BY <1>1, <2>6, <4>1
      <4> QED
        BY <1>2, <2>6, <4>1, <4>2, <4>3
    <3> QED
      BY <3>1, <3>2 DEF IsLeast
  <2>13. ASSUME NEW j \in 1..pos, \A a \in 1..k : mystack'[a] + 1 # j
         PROVE  \E d \in 1..L : IsLeast(d, WarmerDays(j)) /\ waits'[j] = d - j
    <3>1. CASE j = t + 1
      <4>1. waits'[j] = (pos + 1) - j
        BY <1>1, <1>2, <2>6, <2>7, <3>1
      <4> QED
        BY <2>6, <2>12, <3>1, <4>1
    <3>2. CASE j # t + 1
      <4>1. ASSUME NEW a \in 1..n PROVE mystack[a] + 1 # j
        <5>1. CASE a = n
          BY <2>15, <3>2, <5>1
        <5>2. CASE a # n
          <6>1. a \in 1..k
            BY <2>3, <5>2
          <6> QED
            BY <2>5, <2>13, <6>1
        <5> QED
          BY <5>1, <5>2
      <4>2. PICK d \in 1..L : IsLeast(d, WarmerDays(j)) /\ waits[j] = d - j
        BY <1>6, <4>1
      <4>3. j \in 1..L
        BY <1>1, <1>2
      <4> QED
        BY <2>7, <3>2, <4>2, <4>3
    <3> QED
      BY <3>1, <3>2
  <2>14. \A j \in (pos + 1)..L : waits'[j] = 0
    <3> TAKE j \in (pos + 1)..L
    <3>1. j \in 1..L /\ j # t + 1
      BY <1>1, <1>2, <2>6
    <3> QED
      BY <1>7, <2>7, <3>1
  <2>16. pos' \in 0..L /\ Len(given') = L /\ (returned' # <<>> => returned'[1] = waits' /\ pos' = L)
    BY <1>1, <1>2, <2>1 DEF L
  <2>17. \A j \in 1..pos' : (\A a \in 1..k : mystack'[a] + 1 # j) =>
            \E d \in 1..L : IsLeast(d, WarmerDays(j))' /\ waits'[j] = d - j
    BY <1>9, <2>1, <2>13
  <2>18. \A j \in (pos' + 1)..L : waits'[j] = 0
    BY <2>1, <2>14
  <2> QED
    BY <2>4, <2>7, <2>8, <2>9, <2>10, <2>11, <2>16, <2>17, <2>18 DEF WaitsInv
<1>11. CASE AddDay
  <2> DEFINE k == n + 1
             q == pos + 1
  <2>1. /\ pos < L /\ ~Warmer /\ pos' = q /\ returned' = <<>> /\ waits' = waits
        /\ mystack' = Append(mystack, pos)
    BY <1>1, <1>11 DEF AddDay
  <2>2. pos \in Nat /\ q \in 1..L /\ q = pos + 1 /\ k \in Nat /\ k = n + 1 /\ k \in 1..k
    BY <1>1, <1>2, <2>1
  <2>3. mystack' \in Seq(Nat) /\ Len(mystack') = k /\ DOMAIN mystack' = 1..k /\ mystack'[k] = pos
    BY <1>2, <2>1, <2>2
  <2>4. \A a \in 1..k : a = k \/ (a \in 1..n /\ a # k /\ mystack'[a] = mystack[a])
    BY <1>2, <2>1, <2>2
  <2>5. \A a \in 1..n : a \in 1..k /\ a < k /\ mystack'[a] = mystack[a]
    BY <1>2, <2>1, <2>2
  <2> HIDE DEF L, n, k, q
  <2>6. \A a \in 1..n : given[mystack[a] + 1] >= given[q]
    <3> TAKE a \in 1..n
    <3>1. n # 0 /\ n \in 1..n /\ a <= n /\ n \in Int /\ a \in Int
      BY <1>2
    <3>7. mystack[n] \in Nat /\ mystack[n] < pos /\ mystack[a] \in Nat /\ mystack[a] < pos
      BY <1>2, <3>1
    <3>2. mystack # <<>>
      BY <1>2, <3>1
    <3>3. ~(given[mystack[n] + 1] < given[q])
      BY <2>1, <3>2 DEF Warmer, element, n, q
    <3>4. mystack[n] + 1 \in 1..L /\ mystack[a] + 1 \in 1..L /\ q \in 1..L
      <4>1. L \in Nat /\ pos < L
        BY <1>1, <2>1
      <4> QED
        BY <2>2, <3>7, <4>1
    <3>5. a = n \/ given[mystack[a] + 1] >= given[mystack[n] + 1]
      <4>1. a = n \/ a < n
        BY <3>1
      <4> QED
        BY <1>3, <3>1, <4>1
    <3>6. given[mystack[n] + 1] \in Int /\ given[mystack[a] + 1] \in Int /\ given[q] \in Int
      BY <1>1, <3>4
    <3> QED
      BY <3>3, <3>5, <3>6
  <2>7. \A a \in 1..k : mystack'[a] < pos'
    <3> TAKE a \in 1..k
    <3> QED
      BY <1>2, <2>1, <2>2, <2>3, <2>4
  <2>8. \A a, b \in 1..k : a < b =>
           mystack'[a] < mystack'[b] /\ given'[mystack'[a] + 1] >= given'[mystack'[b] + 1]
    <3> SUFFICES ASSUME NEW a \in 1..k, NEW b \in 1..k, a < b
                 PROVE  mystack'[a] < mystack'[b] /\ given[mystack'[a] + 1] >= given[mystack'[b] + 1]
      BY <1>1
    <3>1. a \in 1..n /\ mystack'[a] = mystack[a]
      BY <2>2, <2>4
    <3>2. CASE b = k
      BY <1>2, <2>2, <2>3, <2>6, <3>1, <3>2
    <3>3. CASE b # k
      <4>1. b \in 1..n /\ mystack'[b] = mystack[b]
        BY <2>4, <3>3
      <4> QED
        BY <1>3, <3>1, <4>1
    <3> QED
      BY <3>2, <3>3
  <2>9. \A a \in 1..k : waits'[mystack'[a] + 1] = 0
    <3> TAKE a \in 1..k
    <3>1. CASE a = k
      <4>1. q \in (pos + 1)..L
        BY <1>1, <2>2
      <4> QED
        BY <1>7, <2>1, <2>2, <2>3, <3>1, <4>1
    <3>2. CASE a # k
      BY <1>4, <2>1, <2>4, <3>2
    <3> QED
      BY <3>1, <3>2
  <2>10. \A a \in 1..k : \A d \in 1..pos' : d > mystack'[a] => given'[d] <= given'[mystack'[a] + 1]
    <3> SUFFICES ASSUME NEW a \in 1..k, NEW d \in 1..q, d > mystack'[a]
                 PROVE  given[d] <= given[mystack'[a] + 1]
      BY <1>1, <2>1
    <3>1. CASE a = k
      <4>1. d = q /\ mystack'[a] + 1 = q /\ given[q] \in Int
        BY <1>1, <2>2, <2>3, <3>1
      <4> QED
        BY <4>1
    <3>2. CASE a # k
      <4>1. a \in 1..n /\ mystack'[a] = mystack[a]
        BY <2>4, <3>2
      <4>2. CASE d = q
        <5>1. mystack[a] + 1 \in 1..L
          BY SMTT(30), ZenonT(30), <1>1, <1>2, <4>1
        <5>2. given[mystack[a] + 1] \in Int /\ given[q] \in Int
          BY <1>1, <2>2, <5>1
        <5>3. given[mystack[a] + 1] >= given[q]
          BY <2>6, <4>1
        <5> QED
          BY <4>1, <4>2, <5>2, <5>3
      <4>3. CASE d # q
        <5>1. d \in 1..pos
          BY <2>2, <4>3
        <5> QED
          BY <1>5, <4>1, <5>1
      <4> QED
        BY <4>2, <4>3
    <3> QED
      BY <3>1, <3>2
  <2>11. ASSUME NEW j \in 1..q, \A a \in 1..k : mystack'[a] + 1 # j
         PROVE  \E d \in 1..L : IsLeast(d, WarmerDays(j)) /\ waits'[j] = d - j
    <3>1. j # q
      BY <2>2, <2>3, <2>11
    <3>2. j \in 1..pos
      BY <2>2, <3>1
    <3>3. \A a \in 1..n : mystack[a] + 1 # j
      BY <2>5, <2>11
    <3> QED
      BY <1>6, <2>1, <3>2, <3>3
  <2>12. \A j \in (pos' + 1)..L : waits'[j] = 0
    <3> TAKE j \in (pos' + 1)..L
    <3>1. j \in (pos + 1)..L
      BY <1>1, <2>1, <2>2
    <3> QED
      BY <1>7, <2>1, <3>1
  <2>13. pos' \in 0..L /\ Len(given') = L /\ (returned' # <<>> => returned'[1] = waits' /\ pos' = L)
    BY <1>1, <2>1, <2>2 DEF L
  <2>14. \A j \in 1..pos' : (\A a \in 1..k : mystack'[a] + 1 # j) =>
            \E d \in 1..L : IsLeast(d, WarmerDays(j))' /\ waits'[j] = d - j
    BY <1>9, <2>1, <2>11
  <2>15. waits' \in [1..L -> Nat]
    BY <1>2, <2>1
  <2> QED
    BY <2>3, <2>7, <2>8, <2>9, <2>10, <2>12, <2>13, <2>14, <2>15 DEF WaitsInv
<1>12. CASE ReturnWaits
  <2>1. mystack' = mystack /\ waits' = waits /\ pos' = pos /\ returned' = <<waits>> /\ pos = L
    BY <1>12 DEF ReturnWaits, Return, stackVars
  <2>2. returned'[1] = waits'
    BY <2>1
  <2>3. Len(given') = L
    BY <1>1
  <2>4. \A j \in 1..pos : (\A a \in DOMAIN mystack : mystack[a] + 1 # j) =>
            \E d \in 1..L : IsLeast(d, WarmerDays(j))' /\ waits[j] = d - j
    BY <1>2, <1>6, <1>9
  <2> QED
    BY <1>1, <1>2, <1>3, <1>4, <1>5, <1>7, <2>1, <2>2, <2>3, <2>4 DEF WaitsInv
<1> QED
  BY <1>1, <1>10, <1>11, <1>12

LEMMA WaitsRight == InputsType /\ (solution = "dailyTemperatures" => WaitsInv) => WaitsAreShortest
<1> SUFFICES ASSUME InputsType, WaitsInv, returned # <<>>
             PROVE  returned[1] = [j \in DOMAIN given |-> IF WarmerDays(j) = {} THEN 0 ELSE Min(WarmerDays(j)) - j]
  BY DEF WaitsAreShortest, Returns
<1> DEFINE L == Len(given)
<1>1. L \in Nat /\ DOMAIN given = 1..L
  BY DEF InputsType
<1>2. returned[1] = waits /\ pos = L /\ waits \in [1..L -> Nat] /\ mystack \in Seq(Nat)
  BY DEF WaitsInv
<1>3. /\ \A a \in DOMAIN mystack :
          /\ waits[mystack[a] + 1] = 0
          /\ \A d \in 1..L : d > mystack[a] => given[d] <= given[mystack[a] + 1]
      /\ \A j \in 1..L : (\A a \in DOMAIN mystack : mystack[a] + 1 # j) =>
          \E d \in 1..L : IsLeast(d, WarmerDays(j)) /\ waits[j] = d - j
  BY <1>2 DEF WaitsInv
<1>4. \A j \in 1..L : given[j] \in Int
  BY DEF InputsType
<1> HIDE DEF L
<1>5. ASSUME NEW j \in 1..L
      PROVE  waits[j] = IF WarmerDays(j) = {} THEN 0 ELSE Min(WarmerDays(j)) - j
  <2>1. CASE \E a \in DOMAIN mystack : mystack[a] + 1 = j
    <3>1. PICK a \in DOMAIN mystack : mystack[a] + 1 = j
      BY <2>1
    <3>2. mystack[a] \in Nat
      BY <1>2
    <3>3. ASSUME NEW d \in WarmerDays(j) PROVE FALSE
      <4>1. d \in 1..L /\ d > j /\ given[d] > given[j]
        BY <1>1 DEF WarmerDays
      <4>2. given[d] <= given[j]
        BY <1>1, <1>3, <3>1, <3>2, <4>1
      <4>3. given[d] \in Int /\ given[j] \in Int
        BY <1>4, <4>1
      <4> QED
        BY <4>1, <4>2, <4>3
    <3>4. waits[j] = 0
      BY <1>3, <3>1
    <3> QED
      BY <3>3, <3>4
  <2>2. CASE ~ \E a \in DOMAIN mystack : mystack[a] + 1 = j
    <3>1. PICK d \in 1..L : IsLeast(d, WarmerDays(j)) /\ waits[j] = d - j
      BY <1>3, <2>2
    <3>2. WarmerDays(j) \in SUBSET Int
      BY <1>1 DEF WarmerDays
    <3>3. Min(WarmerDays(j)) = d
      BY <3>1, <3>2, MinIs
    <3>4. WarmerDays(j) # {}
      BY <3>1 DEF IsLeast
    <3> QED
      BY <3>1, <3>3, <3>4
  <2> QED
    BY <2>1, <2>2
<1>6. waits = [j \in 1..L |-> waits[j]]
  BY <1>2
<1> QED
  BY <1>1, <1>2, <1>5, <1>6

LEMMA SumIsInt ==
  ASSUME NEW s \in Seq(Int), NEW start \in Nat, NEW width \in Nat \ {0}, start + width <= Len(s)
  PROVE  Sum(s, start, width) \in Int
<1> DEFINE m == width - 1
<1>1. m \in Nat /\ width = m + 1
  OBVIOUS
<1>2. Within(s, start, width)
  <2>1. \A j \in 1..width : start + j \in 1..Len(s)
    OBVIOUS
  <2> QED
    BY <2>1 DEF Within
<1>3. s[start + width] \in Int
  BY <1>2 DEF Within
<1> HIDE DEF m
<1>4. Sum(s, start, m) \in Int /\ Sum(s, start, m + 1) = Sum(s, start, m) + s[start + (m + 1)]
  BY <1>1, <1>2, SumSteps
<1> QED
  BY <1>1, <1>3, <1>4

\* The running totals of the methods.
LEMMA WindowMoves ==
  ASSUME NEW s \in Seq(Int), NEW width \in Nat \ {0}, NEW m \in Nat, m < Len(s)
  PROVE  /\ Sum(s, 0, m + 1) = Sum(s, 0, m) + s[m + 1]
         /\ m >= width => Sum(s, (m + 1) - width, width) = (Sum(s, m - width, width) - s[m - width + 1]) + s[m + 1]
<1>1. Sum(s, 0, m + 1) = Sum(s, 0, m) + s[m + 1]
  <2>1. \A j \in 1..m + 1 : 0 + j = j /\ j \in 1..Len(s)
    OBVIOUS
  <2>2. Within(s, 0, m + 1)
    BY <2>1 DEF Within
  <2>3. Sum(s, 0, m + 1) = Sum(s, 0, m) + s[0 + (m + 1)]
    BY <2>2, SumSteps
  <2>4. 0 + (m + 1) = m + 1
    OBVIOUS
  <2> QED
    BY <2>3, <2>4
<1>2. ASSUME m >= width
      PROVE  Sum(s, (m + 1) - width, width) = (Sum(s, m - width, width) - s[m - width + 1]) + s[m + 1]
  <2> DEFINE start == m - width
  <2>1. /\ start \in Nat /\ start + (width + 1) = m + 1 /\ (m + 1) - width = start + 1
        /\ start + width <= Len(s) /\ (start + 1) + width <= Len(s) /\ start + 1 \in 1..Len(s) /\ m + 1 \in 1..Len(s)
        /\ \A j \in 1..width + 1 : start + j \in 1..Len(s)
    BY <1>2
  <2> HIDE DEF start
  <2>2. Within(s, start, width + 1)
    BY <2>1 DEF Within
  <2>3. Sum(s, start, width + 1) = s[start + 1] + Sum(s, start + 1, width)
    BY <2>1, <2>2, SumSlides
  <2>4. Sum(s, start, width + 1) = Sum(s, start, width) + s[start + (width + 1)]
    BY <2>2, SumSteps
  <2>5. Sum(s, start, width) \in Int /\ Sum(s, start + 1, width) \in Int
    BY <2>1, SumIsInt
  <2>6. s[start + 1] \in Int /\ s[m + 1] \in Int
    BY <2>1
  <2>7. Sum(s, start + 1, width) = (Sum(s, start, width) - s[start + 1]) + s[m + 1]
    <3>1. s[start + 1] + Sum(s, start + 1, width) = Sum(s, start, width) + s[m + 1]
      BY <2>1, <2>3, <2>4
    <3> DEFINE a == s[start + 1]
               b == Sum(s, start + 1, width)
               c == Sum(s, start, width)
               d == s[m + 1]
    <3>2. a \in Int /\ b \in Int /\ c \in Int /\ d \in Int /\ a + b = c + d
      BY <2>5, <2>6, <3>1
    <3> HIDE DEF a, b, c, d
    <3>3. b = (c - a) + d
      BY <3>2
    <3> QED
      BY <3>3 DEF a, b, c, d
  <2> QED
    BY <2>1, <2>7 DEF start
<1> QED
  BY <1>1, <1>2

LEMMA SumsGrow ==
  ASSUME NEW s \in Seq(Int), NEW width \in Nat \ {0}, NEW m \in Nat, m < Len(s), m + 1 >= width
  PROVE  /\ SumsTo(s, width, m + 1) = SumsTo(s, width, m) \cup {Sum(s, (m + 1) - width, width)}
         /\ m + 1 = width => SumsTo(s, width, m) = {}
         /\ SumsTo(s, width, m + 1) \in SUBSET Int
<1>1. 0..(m + 1) - width = (0..m - width) \cup {(m + 1) - width}
  OBVIOUS
<1>2. m + 1 = width => 0..m - width = {}
  OBVIOUS
<1>3. \A start \in 0..(m + 1) - width : Sum(s, start, width) \in Int
  <2> TAKE start \in 0..(m + 1) - width
  <2>1. start \in Nat /\ start + width <= Len(s)
    OBVIOUS
  <2> QED
    BY <2>1, SumIsInt
<1> QED
  BY <1>1, <1>2, <1>3 DEF SumsTo

LEMMA MostGrows ==
  ASSUME NEW S \in SUBSET Int, NEW x \in Int, NEW y \in Int, IsMost(x, S)
  PROVE  IsMost(Larger(x, y), S \cup {y})
BY DEF IsMost, Larger

-----------------------------------------------------------------------------
(* findMaxAverage *)

LEMMA AverageStarts == OnePassInit /\ InputsType /\ solution = "findMaxAverage" => AverageInv
<1> SUFFICES ASSUME OnePassInit, InputsType, solution = "findMaxAverage" PROVE AverageInv
  OBVIOUS
<1>1. argument \in 1..Len(given) /\ pos = 0 /\ total = 0 /\ best = 0 /\ returned = <<>>
  BY DEF OnePassInit, Called
<1>2. Len(given) \in Nat
  BY DEF InputsType
<1>3. Sum(given, 0, 0) = 0
  BY SumOfNone
<1> QED
  BY <1>1, <1>2, <1>3 DEF AverageInv

LEMMA AverageKeeps ==
  ASSUME InputsType, AverageInv, solution = "findMaxAverage", OnePassNext
  PROVE  AverageInv'
<1> DEFINE L == Len(given)
           k == argument
           q == pos + 1
<1>1. /\ L \in Nat /\ given \in Seq(Int) /\ given' = given /\ argument' = k /\ returned = <<>>
      /\ AddNumber \/ ReturnAverage
  <2>1. AddNumber \/ ReturnAverage
    BY DEF OnePassNext, LookAtWindow, ReturnRepeats, AddLetter, ReturnVowels, Narrow, ReturnArea,
         Halve, ReturnPlace, Resolve, AddDay, ReturnWaits, Jump, Runs
  <2>2. returned = <<>> /\ given' = given /\ argument' = argument
    BY <2>1 DEF AddNumber, ReturnAverage, Runs, Return, inputs
  <2> QED
    BY <2>1, <2>2 DEF InputsType
<1>2. /\ k \in 1..L /\ pos \in 0..L /\ total \in Int /\ best \in Int
      /\ pos < k => total = Sum(given, 0, pos)
      /\ pos >= k => total = Sum(given, pos - k, k) /\ IsMost(best, SumsTo(given, k, pos))
  BY DEF AverageInv
<1>3. k \in Nat \ {0} /\ pos \in Nat /\ q \in Nat /\ q = pos + 1
  BY <1>1, <1>2
<1>4. CASE AddNumber
  <2>1. /\ pos < L /\ pos' = q /\ returned' = <<>> /\ element = given[q]
        /\ \/ pos < k /\ total' = total + given[q] /\ best' = IF pos = k - 1 THEN total' ELSE best
           \/ pos >= k /\ total' = (total - given[pos - k + 1]) + given[q] /\ best' = Larger(best, total')
    BY <1>1, <1>4 DEF AddNumber, element
  <2>2. q \in 1..L /\ given[q] \in Int
    BY <1>1, <1>3, <2>1
  <2>3. pos >= k => given[pos - k + 1] \in Int
    <3> SUFFICES ASSUME pos >= k PROVE given[pos - k + 1] \in Int
      OBVIOUS
    <3>1. pos - k + 1 \in 1..L
      BY <1>2, <1>3, <2>1
    <3> QED
      BY <1>1, <3>1
  <2>4. /\ Sum(given, 0, q) = Sum(given, 0, pos) + given[q]
        /\ pos >= k => Sum(given, q - k, k) = (Sum(given, pos - k, k) - given[pos - k + 1]) + given[q]
    BY <1>1, <1>3, <2>1, WindowMoves
  <2>5. q >= k => /\ SumsTo(given, k, q) = SumsTo(given, k, pos) \cup {Sum(given, q - k, k)}
                  /\ q = k => SumsTo(given, k, pos) = {}
                  /\ SumsTo(given, k, q) \in SUBSET Int
    BY <1>1, <1>3, <2>1, SumsGrow
  <2> HIDE DEF L, k, q
  <2>6. CASE pos < k /\ q < k
    <3>1. total' = Sum(given, 0, q) /\ best' = best /\ total' \in Int
      BY <1>2, <1>3, <2>1, <2>2, <2>4, <2>6
    <3>2. pos' \in 0..L /\ pos' < k /\ ~(pos' >= k)
      BY <1>1, <1>3, <2>1, <2>2, <2>6
    <3> QED
      BY <1>1, <1>2, <2>1, <3>1, <3>2 DEF AverageInv, L, k
  <2>7. CASE pos < k /\ q >= k
    <3>1. q = k /\ q - k = 0 /\ pos = k - 1
      BY <1>2, <1>3, <2>7
    <3>2. total' = Sum(given, q - k, k) /\ best' = total' /\ total' \in Int
      BY <1>2, <1>3, <2>1, <2>2, <2>4, <2>7, <3>1
    <3>3. IsMost(best', SumsTo(given, k, q))
      BY <2>5, <3>1, <3>2, <2>7 DEF IsMost
    <3>4. pos' \in 0..L /\ ~(pos' < k)
      BY <1>1, <1>3, <2>1, <2>2, <2>7
    <3> QED
      BY <1>1, <1>2, <2>1, <3>2, <3>3, <3>4 DEF AverageInv, L, k
  <2>8. CASE pos >= k
    <3>1. q >= k
      BY <1>2, <1>3, <2>8
    <3>2. total' = Sum(given, q - k, k) /\ best' = Larger(best, total') /\ total' \in Int
      BY <1>2, <1>3, <2>1, <2>2, <2>3, <2>4, <2>8
    <3>3. IsMost(best', SumsTo(given, k, q))
      <4>1. SumsTo(given, k, pos) \in SUBSET Int /\ IsMost(best, SumsTo(given, k, pos))
        BY <1>2, <2>5, <2>8, <3>1
      <4>2. IsMost(Larger(best, total'), SumsTo(given, k, pos) \cup {total'})
        BY <1>2, <3>2, <4>1, MostGrows
      <4> QED
        BY <2>5, <3>1, <3>2, <4>2
    <3>4. pos' \in 0..L /\ ~(pos' < k) /\ best' \in Int
      BY <1>1, <1>2, <1>3, <2>1, <2>2, <2>8, <3>1, <3>2 DEF Larger
    <3> QED
      BY <1>1, <1>2, <2>1, <3>2, <3>3, <3>4 DEF AverageInv, L, k
  <2> QED
    BY <1>2, <1>3, <2>6, <2>7, <2>8
<1>5. CASE ReturnAverage
  <2>1. pos' = pos /\ total' = total /\ best' = best /\ returned' = <<best>> /\ pos = L
    BY <1>5 DEF ReturnAverage, Return, windowVars
  <2>2. returned'[1] = best
    BY <2>1
  <2> QED
    BY <1>1, <1>2, <2>1, <2>2 DEF AverageInv
<1> QED
  BY <1>1, <1>4, <1>5

LEMMA AverageRight == InputsType /\ (solution = "findMaxAverage" => AverageInv) => AverageIsOfABestWindow
<1> SUFFICES ASSUME InputsType, AverageInv, returned # <<>>
             PROVE  returned[1] = Max(Sums(given, argument))
  BY DEF AverageIsOfABestWindow, Returns
<1>1. /\ argument \in 1..Len(given) /\ pos = Len(given) /\ returned[1] = best
      /\ pos >= argument => IsMost(best, SumsTo(given, argument, pos))
  BY DEF AverageInv
<1>2. Len(given) \in Nat /\ given \in Seq(Int)
  BY DEF InputsType
<1>3. IsMost(best, Sums(given, argument))
  BY <1>1, <1>2 DEF Sums, SumsTo
<1>4. Sums(given, argument) \in SUBSET Int
  <2>1. \A start \in 0..Len(given) - argument : start \in Nat /\ start + argument <= Len(given) /\ argument \in Nat \ {0}
    BY <1>1, <1>2
  <2>2. \A start \in 0..Len(given) - argument : Sum(given, start, argument) \in Int
    BY <1>2, <2>1, SumIsInt
  <2> QED
    BY <2>2 DEF Sums
<1> QED
  BY <1>1, <1>3, <1>4, MaxIs

-----------------------------------------------------------------------------
(* maxVowels *)

LEMMA VowelsAre ==
  ASSUME InputsType
  PROVE  /\ Vowels \in Seq(Int) /\ Len(Vowels) = Len(given)
         /\ \A j \in 1..Len(given) : Vowels[j] = vowel(given[j]) /\ vowel(given[j]) \in {0, 1}
<1>1. \A x : vowel(x) \in {0, 1}
  BY DEF vowel
<1>2. Len(given) \in Nat /\ DOMAIN given = 1..Len(given)
  BY DEF InputsType
<1>3. Vowels \in [1..Len(given) -> Int] /\ \A j \in 1..Len(given) : Vowels[j] = vowel(given[j])
  BY <1>1, <1>2 DEF Vowels
<1> QED
  BY <1>1, <1>2, <1>3

LEMMA VowelsStart == OnePassInit /\ InputsType /\ solution = "maxVowels" => VowelsInv
<1> SUFFICES ASSUME OnePassInit, InputsType, solution = "maxVowels" PROVE VowelsInv
  OBVIOUS
<1>1. argument \in 1..Len(given) /\ pos = 0 /\ total = 0 /\ best = 0 /\ returned = <<>>
  BY DEF OnePassInit, Called
<1>2. Len(given) \in Nat
  BY DEF InputsType
<1>3. Sum(Vowels, 0, 0) = 0
  BY SumOfNone
<1> QED
  BY <1>1, <1>2, <1>3 DEF VowelsInv

LEMMA VowelsKeep ==
  ASSUME InputsType, VowelsInv, solution = "maxVowels", OnePassNext
  PROVE  VowelsInv'
<1> DEFINE s == Vowels
           L == Len(given)
           k == argument
           q == pos + 1
<1>1. /\ L \in Nat /\ given' = given /\ Vowels' = s /\ argument' = k /\ returned = <<>>
      /\ AddLetter \/ ReturnVowels
  <2>1. AddLetter \/ ReturnVowels
    BY DEF OnePassNext, LookAtWindow, ReturnRepeats, AddNumber, ReturnAverage, Narrow, ReturnArea,
         Halve, ReturnPlace, Resolve, AddDay, ReturnWaits, Jump, Runs
  <2>2. returned = <<>> /\ given' = given /\ argument' = argument
    BY <2>1 DEF AddLetter, ReturnVowels, Runs, Return, inputs
  <2> QED
    BY <2>1, <2>2 DEF InputsType, Vowels
<1>2. /\ k \in 1..L /\ pos \in 0..L /\ total \in Int /\ best \in Int
      /\ pos < k => total = Sum(s, 0, pos) /\ best = total
      /\ pos >= k => total = Sum(s, pos - k, k) /\ IsMost(best, SumsTo(s, k, pos))
  BY DEF VowelsInv
<1>3. k \in Nat \ {0} /\ pos \in Nat /\ q \in Nat /\ q = pos + 1
  BY <1>1, <1>2
<1>6. s \in Seq(Int) /\ Len(s) = L /\ \A j \in 1..L : s[j] = vowel(given[j]) /\ s[j] \in {0, 1}
  BY VowelsAre
<1>4. CASE AddLetter
  <2>1. /\ pos < L /\ pos' = q /\ returned' = <<>> /\ best' = Larger(best, total')
        /\ \/ pos < k /\ total' = total + vowel(given[q])
           \/ pos >= k /\ total' = (total + vowel(given[q])) - vowel(given[pos - k + 1])
    BY <1>1, <1>4 DEF AddLetter, element
  <2>2. q \in 1..L /\ s[q] = vowel(given[q]) /\ s[q] \in {0, 1}
    BY <1>1, <1>3, <1>6, <2>1
  <2>3. pos >= k => s[pos - k + 1] = vowel(given[pos - k + 1]) /\ s[pos - k + 1] \in {0, 1}
    <3> SUFFICES ASSUME pos >= k
                 PROVE  s[pos - k + 1] = vowel(given[pos - k + 1]) /\ s[pos - k + 1] \in {0, 1}
      OBVIOUS
    <3>1. pos - k + 1 \in 1..L
      BY <1>2, <1>3, <2>1
    <3> QED
      BY <1>6, <3>1
  <2>4. /\ Sum(s, 0, q) = Sum(s, 0, pos) + s[q]
        /\ pos >= k => Sum(s, q - k, k) = (Sum(s, pos - k, k) - s[pos - k + 1]) + s[q]
    BY <1>6, <1>3, <2>1, WindowMoves
  <2>5. q >= k => /\ SumsTo(s, k, q) = SumsTo(s, k, pos) \cup {Sum(s, q - k, k)}
                  /\ q = k => SumsTo(s, k, pos) = {}
                  /\ SumsTo(s, k, q) \in SUBSET Int
    BY <1>6, <1>3, <2>1, SumsGrow
  <2> HIDE DEF L, k, q, s
  <2>9. pos < k => /\ total' = Sum(s, 0, q) /\ total' \in Int /\ best' = total'
    <3> SUFFICES ASSUME pos < k PROVE total' = Sum(s, 0, q) /\ total' \in Int /\ best' = total'
      OBVIOUS
    <3>1. total' = total + s[q] /\ best = total /\ total = Sum(s, 0, pos)
      BY <1>2, <1>3, <2>1, <2>2
    <3>2. total' \in Int /\ total <= total'
      BY <1>2, <2>2, <3>1
    <3>3. best' = total'
      BY <1>2, <2>1, <3>1, <3>2 DEF Larger
    <3> QED
      BY <2>4, <3>1, <3>2, <3>3
  <2>6. CASE pos < k /\ q < k
    <3>2. pos' \in 0..L /\ pos' < k /\ ~(pos' >= k)
      BY <1>1, <1>3, <2>1, <2>2, <2>6
    <3> QED
      BY <1>1, <1>2, <2>1, <2>6, <2>9, <3>2 DEF VowelsInv, L, k
  <2>7. CASE pos < k /\ q >= k
    <3>1. q = k /\ q - k = 0
      BY <1>2, <1>3, <2>7
    <3>2. total' = Sum(s, q - k, k)
      BY <2>7, <2>9, <3>1
    <3>3. IsMost(best', SumsTo(s, k, q))
      BY <2>5, <2>7, <2>9, <3>1, <3>2 DEF IsMost
    <3>4. pos' \in 0..L /\ ~(pos' < k)
      BY <1>1, <1>3, <2>1, <2>2, <2>7
    <3> QED
      BY <1>1, <1>2, <2>1, <2>7, <2>9, <3>2, <3>3, <3>4 DEF VowelsInv, L, k
  <2>8. CASE pos >= k
    <3>1. q >= k
      BY <1>2, <1>3, <2>8
    <3>2. total' = Sum(s, q - k, k) /\ total' \in Int
      BY <1>2, <1>3, <2>1, <2>2, <2>3, <2>4, <2>8
    <3>3. IsMost(best', SumsTo(s, k, q))
      <4>1. SumsTo(s, k, pos) \in SUBSET Int /\ IsMost(best, SumsTo(s, k, pos))
        BY <1>2, <2>5, <2>8, <3>1
      <4>2. IsMost(Larger(best, total'), SumsTo(s, k, pos) \cup {total'})
        BY <1>2, <3>2, <4>1, MostGrows
      <4> QED
        BY <2>1, <2>5, <3>1, <3>2, <4>2
    <3>4. pos' \in 0..L /\ ~(pos' < k) /\ best' \in Int
      BY <1>1, <1>2, <1>3, <2>1, <2>2, <2>8, <3>1, <3>2 DEF Larger
    <3> QED
      BY <1>1, <1>2, <2>1, <3>2, <3>3, <3>4 DEF VowelsInv, L, k
  <2> QED
    BY <1>2, <1>3, <2>6, <2>7, <2>8
<1>5. CASE ReturnVowels
  <2>1. pos' = pos /\ total' = total /\ best' = best /\ returned' = <<best>> /\ pos = L
    BY <1>5 DEF ReturnVowels, Return, windowVars
  <2>2. returned'[1] = best
    BY <2>1
  <2> QED
    BY <1>1, <1>2, <2>1, <2>2 DEF VowelsInv
<1> QED
  BY <1>1, <1>4, <1>5

LEMMA VowelsRight == InputsType /\ (solution = "maxVowels" => VowelsInv) => VowelsAreOfABestWindow
<1> SUFFICES ASSUME InputsType, VowelsInv, returned # <<>>
             PROVE  returned[1] = Max(Sums(Vowels, argument))
  BY DEF VowelsAreOfABestWindow, Returns, Vowels
<1>1. /\ argument \in 1..Len(given) /\ pos = Len(given) /\ returned[1] = best
      /\ pos >= argument => IsMost(best, SumsTo(Vowels, argument, pos))
  BY DEF VowelsInv
<1>2. Len(given) \in Nat /\ Vowels \in Seq(Int) /\ Len(Vowels) = Len(given)
  BY VowelsAre DEF InputsType
<1>3. IsMost(best, Sums(Vowels, argument))
  BY <1>1, <1>2 DEF Sums, SumsTo
<1>4. Sums(Vowels, argument) \in SUBSET Int
  <2>1. \A start \in 0..Len(given) - argument : start \in Nat /\ start + argument <= Len(given) /\ argument \in Nat \ {0}
    BY <1>1, <1>2
  <2>2. \A start \in 0..Len(given) - argument : Sum(Vowels, start, argument) \in Int
    BY <1>2, <2>1, SumIsInt
  <2> QED
    BY <1>2, <2>2 DEF Sums
<1> QED
  BY <1>1, <1>3, <1>4, MaxIs

-----------------------------------------------------------------------------
(* findRepeatedDnaSequences *)

LEMMA RepeatsStart == OnePassInit /\ InputsType /\ solution = "findRepeatedDnaSequences" => RepeatsInv
<1> SUFFICES ASSUME OnePassInit, InputsType PROVE RepeatsInv
  OBVIOUS
<1>1. pos = 0 /\ seen = {} /\ found = <<>> /\ returned = <<>>
  BY DEF OnePassInit
<1>2. 0..0 - 1 = {} /\ ~(0 > 0) /\ 0 \in Nat
  OBVIOUS
<1>3. WindowsIn(given, 0) = {} /\ RepeatsIn(given, 0) = {}
  BY <1>2 DEF WindowsIn, RepeatsIn
<1>4. <<>> \in Seq(Seq(Int)) /\ DOMAIN <<>> = {}
  OBVIOUS
<1> QED
  BY <1>1, <1>2, <1>3, <1>4 DEF RepeatsInv

LEMMA WindowsGrow ==
  ASSUME NEW s, NEW m \in Nat
  PROVE  /\ WindowsIn(s, m + 1) = WindowsIn(s, m) \cup {WindowIn(s, m)}
         /\ WindowIn(s, m) \in WindowsIn(s, m) <=> AgainIn(s, m)
         /\ AgainIn(s, m)  => RepeatsIn(s, m + 1) = RepeatsIn(s, m) \cup {WindowIn(s, m)}
         /\ ~AgainIn(s, m) => RepeatsIn(s, m + 1) = RepeatsIn(s, m)
<1>1. 0..(m + 1) - 1 = (0..m - 1) \cup {m}
  OBVIOUS
<1>2. WindowsIn(s, m + 1) = WindowsIn(s, m) \cup {WindowIn(s, m)}
  BY <1>1 DEF WindowsIn
<1>3. WindowIn(s, m) \in WindowsIn(s, m) <=> AgainIn(s, m)
  BY DEF WindowsIn, AgainIn
<1>4. ASSUME AgainIn(s, m) PROVE RepeatsIn(s, m + 1) = RepeatsIn(s, m) \cup {WindowIn(s, m)}
  <2>1. {b \in 0..(m + 1) - 1 : AgainIn(s, b)} = {b \in 0..m - 1 : AgainIn(s, b)} \cup {m}
    BY <1>1, <1>4
  <2> QED
    BY <2>1 DEF RepeatsIn
<1>5. ASSUME ~AgainIn(s, m) PROVE RepeatsIn(s, m + 1) = RepeatsIn(s, m)
  <2>1. {b \in 0..(m + 1) - 1 : AgainIn(s, b)} = {b \in 0..m - 1 : AgainIn(s, b)}
    BY <1>1, <1>5
  <2> QED
    BY <2>1 DEF RepeatsIn
<1> QED
  BY <1>2, <1>3, <1>4, <1>5

LEMMA WindowsAre ==
  /\ \A j : WindowAt(j) = WindowIn(given, j)
  /\ \A b : Again(b) <=> AgainIn(given, b)
  /\ \A w : Second(w) = SecondIn(given, w)
<1>1. \A j : WindowAt(j) = WindowIn(given, j)
  BY DEF WindowAt, WindowIn
<1>2. \A b : Again(b) <=> AgainIn(given, b)
  BY <1>1 DEF Again, AgainIn
<1>3. ASSUME NEW w PROVE Second(w) = SecondIn(given, w)
  <2>1. {b \in 0..Len(given) - Window : WindowAt(b) = w /\ Again(b)} = SecondsIn(given, w)
    BY <1>1, <1>2 DEF SecondsIn
  <2> QED
    BY <2>1 DEF Second, SecondIn
<1> QED
  BY <1>1, <1>2, <1>3

\* A window is added when it is seen for the second time.
LEMMA RepeatsKeep ==
  ASSUME InputsType, RepeatsInv, solution = "findRepeatedDnaSequences", OnePassNext
  PROVE  RepeatsInv'
<1> DEFINE L == Len(given)
           w == WindowIn(given, pos)
           n == Len(found)
           q == pos + 1
           held == {found[j] : j \in DOMAIN found}
<1>1. /\ L \in Nat /\ given \in Seq(Int) /\ given' = given /\ returned = <<>>
      /\ LookAtWindow \/ ReturnRepeats
  <2>1. LookAtWindow \/ ReturnRepeats
    BY DEF OnePassNext, AddNumber, ReturnAverage, AddLetter, ReturnVowels, Narrow, ReturnArea,
         Halve, ReturnPlace, Resolve, AddDay, ReturnWaits, Jump, Runs
  <2>2. returned = <<>> /\ given' = given
    BY <2>1 DEF LookAtWindow, ReturnRepeats, Runs, Return, inputs
  <2> QED
    BY <2>1, <2>2 DEF InputsType
<1>2. /\ pos \in Nat /\ (pos > 0 => pos + Window - 1 <= L)
      /\ seen = WindowsIn(given, pos) /\ found \in Seq(Seq(Int)) /\ held = RepeatsIn(given, pos)
  BY DEF RepeatsInv
<1>3. /\ \A j \in DOMAIN found : SecondIn(given, found[j]) \in 0..pos - 1
      /\ \A i, j \in DOMAIN found : i < j => SecondIn(given, found[i]) < SecondIn(given, found[j])
  BY DEF RepeatsInv
<1>4. Window \in Nat \ {0}
  BY OnePassAssumption
<1>5. CASE LookAtWindow
  <2>1. /\ pos + Window - 1 < L /\ pos' = q /\ returned' = <<>> /\ seen' = seen \cup {w}
        /\ found' = IF w \in seen /\ \A j \in DOMAIN found : found[j] # w THEN Append(found, w) ELSE found
    BY <1>1, <1>5, WindowsAre DEF LookAtWindow, WindowFits
  <2>2. /\ q \in Nat /\ q + Window - 1 <= L /\ pos \in 0..L - Window /\ pos \in 0..q - 1
        /\ \A x \in 0..pos - 1 : x \in 0..q - 1 /\ x < pos
    <3>1. q - 1 = pos /\ q \in Nat
      BY <1>2
    <3>2. q + Window - 1 <= L /\ pos \in 0..L - Window
      BY <1>1, <1>2, <1>4, <2>1
    <3> HIDE DEF L, q
    <3> QED
      BY <1>2, <3>1, <3>2
  <2>3. /\ WindowsIn(given, q) = seen \cup {w}
        /\ w \in seen <=> AgainIn(given, pos)
        /\ AgainIn(given, pos)  => RepeatsIn(given, q) = held \cup {w}
        /\ ~AgainIn(given, pos) => RepeatsIn(given, q) = held
    BY <1>2, WindowsGrow
  <2>4. \A x : (x \in held <=> \E j \in DOMAIN found : found[j] = x)
    OBVIOUS
  <2>5. w \in Seq(Int)
    <3>3. L \in Nat /\ pos \in Nat /\ Window \in Nat \ {0} /\ pos + Window - 1 < L
      BY <1>1, <1>2, <1>4, <2>1
    <3> HIDE DEF L
    <3>1. pos + 1 \in 1..L + 1 /\ pos + Window \in 0..L /\ pos + 1 \in Int /\ pos + Window \in Int
      BY <3>3
    <3>2. \A x, y \in Int : x \in 1..L + 1 /\ y \in 0..L => SubSeq(given, x, y) \in Seq(Int)
      BY <1>1 DEF L
    <3> QED
      BY <3>1, <3>2 DEF WindowIn
  <2>9. n \in Nat /\ DOMAIN found = 1..n
    BY <1>2
  <2> HIDE DEF w, q, held, n
  <2>6. CASE w \in seen /\ \A j \in DOMAIN found : found[j] # w
    <3>1. found' = Append(found, w) /\ AgainIn(given, pos) /\ w \notin held
      BY <2>1, <2>3, <2>4, <2>6
    <3>2. /\ found' \in Seq(Seq(Int)) /\ Len(found') = n + 1 /\ DOMAIN found' = 1..n + 1
          /\ found'[n + 1] = w /\ \A j \in 1..n : found'[j] = found[j]
      BY <1>2, <2>5, <2>9, <3>1 DEF n
    <3>3. IsLeast(pos, SecondsIn(given, w))
      <4>1. pos \in SecondsIn(given, w)
        BY <2>2, <3>1 DEF SecondsIn, w
      <4>2. ASSUME NEW b \in SecondsIn(given, w) PROVE pos <= b
        <5>1. b \in Int /\ b >= 0 /\ WindowIn(given, b) = w /\ AgainIn(given, b)
          BY DEF SecondsIn
        <5>2. b \in 0..pos - 1 => w \in RepeatsIn(given, pos)
          BY <5>1 DEF RepeatsIn
        <5>3. b \notin 0..pos - 1
          BY <1>2, <3>1, <5>2
        <5> QED
          BY <1>2, <5>1, <5>3
      <4> QED
        BY <4>1, <4>2 DEF IsLeast
    <3>4. SecondIn(given, w) = pos
      <4>1. SecondsIn(given, w) \in SUBSET Int
        BY DEF SecondsIn
      <4> QED
        BY <3>3, <4>1, MinIs DEF SecondIn
    <3>5. {found'[j] : j \in DOMAIN found'} = RepeatsIn(given, q)
      <4>1. RepeatsIn(given, q) = held \cup {w}
        BY <2>3, <3>1
      <4>2. \A x : (\E j \in 1..n + 1 : found'[j] = x) <=> x = w \/ \E j \in 1..n : found[j] = x
        <5>1. \A j \in 1..n + 1 : j = n + 1 \/ j \in 1..n
          BY <2>9
        <5>2. n + 1 \in 1..n + 1 /\ \A j \in 1..n : j \in 1..n + 1
          BY <2>9
        <5> QED
          BY <3>2, <5>1, <5>2
      <4>3. \A x : (\E j \in DOMAIN found' : found'[j] = x) <=> x \in held \cup {w}
        BY <2>4, <2>9, <3>2, <4>2
      <4> QED
        BY <4>1, <4>3
    <3>6. \A j \in DOMAIN found' : SecondIn(given, found'[j]) \in 0..q - 1
      <4> TAKE j \in DOMAIN found'
      <4>1. j = n + 1 \/ j \in 1..n
        BY <2>9, <3>2
      <4>2. CASE j = n + 1
        BY <2>2, <3>2, <3>4, <4>2
      <4>3. CASE j \in 1..n
        BY <1>3, <2>2, <2>9, <3>2, <4>3
      <4> QED
        BY <4>1, <4>2, <4>3
    <3>7. \A i, j \in DOMAIN found' : i < j => SecondIn(given, found'[i]) < SecondIn(given, found'[j])
      <4> SUFFICES ASSUME NEW i \in 1..n + 1, NEW j \in 1..n + 1, i < j
                   PROVE  SecondIn(given, found'[i]) < SecondIn(given, found'[j])
        BY <3>2
      <4>1. i \in 1..n /\ found'[i] = found[i]
        BY <2>9, <3>2
      <4>2. CASE j = n + 1
        BY <1>3, <2>2, <2>9, <3>2, <3>4, <4>1, <4>2
      <4>3. CASE j # n + 1
        <5>1. j \in 1..n /\ found'[j] = found[j]
          BY <2>9, <3>2, <4>3
        <5> QED
          BY <1>3, <2>9, <4>1, <5>1
      <4> QED
        BY <4>2, <4>3
    <3> QED
      BY <1>1, <2>1, <2>2, <2>3, <3>2, <3>5, <3>6, <3>7 DEF RepeatsInv, L
  <2>7. CASE ~(w \in seen /\ \A j \in DOMAIN found : found[j] # w)
    <3>1. found' = found
      BY <2>1, <2>7
    <3>2. RepeatsIn(given, q) = held
      <4>1. CASE AgainIn(given, pos)
        <5>1. w \in held
          BY <2>3, <2>4, <2>7, <4>1
        <5> QED
          BY <2>3, <4>1, <5>1
      <4>2. CASE ~AgainIn(given, pos)
        BY <2>3, <4>2
      <4> QED
        BY <4>1, <4>2
    <3>3. \A j \in DOMAIN found : SecondIn(given, found[j]) \in 0..q - 1
      BY <1>3, <2>2
    <3> QED
      BY <1>1, <1>2, <1>3, <2>1, <2>2, <2>3, <3>1, <3>2, <3>3 DEF RepeatsInv, L, held
  <2> QED
    BY <2>6, <2>7
<1>6. CASE ReturnRepeats
  <2>1. ~WindowFits /\ pos' = pos /\ seen' = seen /\ found' = found /\ returned' = <<found>>
    BY <1>6 DEF ReturnRepeats, Return, windowVars
  <2>2. returned'[1] = found' /\ ~WindowFits'
    BY <1>1, <2>1 DEF WindowFits
  <2> QED
    BY <1>1, <1>2, <1>3, <2>1, <2>2 DEF RepeatsInv
<1> QED
  BY <1>1, <1>5, <1>6

LEMMA RepeatsRight ==
  InputsType /\ (solution = "findRepeatedDnaSequences" => RepeatsInv) => RepeatsAreFoundOnce
<1> SUFFICES ASSUME InputsType, RepeatsInv, returned # <<>>
             PROVE  LET result == returned[1]
                    IN  /\ {result[j] : j \in DOMAIN result} =
                               {WindowAt(b) : b \in {c \in 0..Len(given) - Window : Again(c)}}
                        /\ \A i, j \in DOMAIN result : i < j => Second(result[i]) < Second(result[j])
  BY DEF RepeatsAreFoundOnce, Returns
<1>1. /\ returned[1] = found /\ ~WindowFits
      /\ pos \in Nat /\ (pos > 0 => pos + Window - 1 <= Len(given))
      /\ {found[j] : j \in DOMAIN found} = RepeatsIn(given, pos)
      /\ \A i, j \in DOMAIN found : i < j => SecondIn(given, found[i]) < SecondIn(given, found[j])
  BY DEF RepeatsInv
<1>2. Len(given) \in Nat /\ Window \in Nat \ {0}
  BY OnePassAssumption DEF InputsType
<1>3. 0..pos - 1 = 0..Len(given) - Window
  <2>1. pos + Window - 1 >= Len(given)
    BY <1>1, <1>2 DEF WindowFits
  <2>2. CASE pos = 0
    BY <1>1, <1>2, <2>1, <2>2
  <2>3. CASE pos > 0
    <3>1. pos - 1 = Len(given) - Window
      BY <1>1, <1>2, <2>1, <2>3
    <3> QED
      BY <3>1
  <2> QED
    BY <1>1, <2>2, <2>3
<1>4. {c \in 0..Len(given) - Window : Again(c)} = {c \in 0..pos - 1 : AgainIn(given, c)}
  BY <1>3, WindowsAre
<1>5. {WindowAt(b) : b \in {c \in 0..Len(given) - Window : Again(c)}} = RepeatsIn(given, pos)
  BY <1>4, WindowsAre DEF RepeatsIn
<1>6. \A i, j \in DOMAIN found : i < j => Second(found[i]) < Second(found[j])
  BY <1>1, WindowsAre
<1> QED
  BY <1>1, <1>5, <1>6

-----------------------------------------------------------------------------
(* All of them *)

LEMMA PassStarts == OnePassInit => PassInv
<1> SUFFICES ASSUME OnePassInit PROVE PassInv
  OBVIOUS
<1>1. InputsType
  BY InputsStart
<1> QED
  BY <1>1, RepeatsStart, AverageStarts, VowelsStart, AreaStarts, InsertStarts, WaitsStart, JumpStarts
     DEF PassInv

LEMMA PassIdles ==
  ASSUME PassInv, UNCHANGED passVars
  PROVE  PassInv'
<1>1. /\ solution' = solution /\ given' = given /\ argument' = argument /\ pos' = pos
      /\ total' = total /\ best' = best /\ seen' = seen /\ found' = found
      /\ mystack' = mystack /\ waits' = waits /\ furthest' = furthest
      /\ lo' = lo /\ hi' = hi /\ returned' = returned
  BY DEF passVars, inputs, windowVars, stackVars, pointerVars
<1>2. InputsType'
  BY <1>1 DEF PassInv, InputsType
<1>3. solution = "findRepeatedDnaSequences" => RepeatsInv'
  BY <1>1 DEF PassInv, RepeatsInv, WindowFits
<1>4. solution = "findMaxAverage" => AverageInv'
  BY <1>1 DEF PassInv, AverageInv
<1>5. solution = "maxVowels" => VowelsInv'
  <2>1. Vowels' = Vowels
    BY <1>1 DEF Vowels
  <2> QED
    BY <1>1, <2>1 DEF PassInv, VowelsInv
<1>6. solution = "maxArea" => AreaInv'
  <2>1. Areas' = Areas /\ \A i, j : Area(i, j)' = Area(i, j)
    BY <1>1 DEF Areas, Area
  <2> QED
    BY <1>1, <2>1 DEF PassInv, AreaInv
<1>7. solution = "searchInsert" => InsertInv'
  BY <1>1 DEF PassInv, InsertInv
<1>8. solution = "dailyTemperatures" => WaitsInv'
  <2>1. \A j : WarmerDays(j)' = WarmerDays(j)
    BY <1>1 DEF WarmerDays
  <2>2. \A d, j : IsLeast(d, WarmerDays(j))' <=> IsLeast(d, WarmerDays(j))
    BY <2>1 DEF IsLeast
  <2> QED
    BY <1>1, <2>2 DEF PassInv, WaitsInv
<1>9. solution = "canJump" => JumpInv'
  <2>1. \A j : Way(j)' <=> Way(j)
    BY <1>1 DEF Way
  <2>2. HasWay' <=> HasWay
    BY <1>1 DEF HasWay
  <2> QED
    BY <1>1, <2>1, <2>2 DEF PassInv, JumpInv
<1> QED
  BY <1>1, <1>2, <1>3, <1>4, <1>5, <1>6, <1>7, <1>8, <1>9 DEF PassInv

LEMMA PassKeeps == PassInv /\ [OnePassNext]_passVars => PassInv'
<1> SUFFICES ASSUME PassInv, OnePassNext PROVE PassInv'
  BY PassIdles
<1>1. InputsType' /\ solution' = solution
  BY InputsStay DEF PassInv
<1>2. solution = "findRepeatedDnaSequences" => RepeatsInv'
  BY RepeatsKeep DEF PassInv
<1>3. solution = "findMaxAverage" => AverageInv'
  BY AverageKeeps DEF PassInv
<1>4. solution = "maxVowels" => VowelsInv'
  BY VowelsKeep DEF PassInv
<1>5. solution = "maxArea" => AreaInv'
  BY AreaKeeps DEF PassInv
<1>6. solution = "searchInsert" => InsertInv'
  BY InsertKeeps DEF PassInv
<1>7. solution = "dailyTemperatures" => WaitsInv'
  BY WaitsKeep DEF PassInv
<1>8. solution = "canJump" => JumpInv'
  BY JumpKeeps DEF PassInv
<1> QED
  BY <1>1, <1>2, <1>3, <1>4, <1>5, <1>6, <1>7, <1>8 DEF PassInv

LEMMA PassIsRight == PassInv => OnePassIsEnough
<1> SUFFICES ASSUME PassInv PROVE OnePassIsEnough
  OBVIOUS
<1>1. JumpsReachTheEnd
  BY DEF PassInv, JumpInv, JumpsReachTheEnd, Returns
<1> QED
  BY <1>1, RepeatsRight, AverageRight, VowelsRight, AreaRight, InsertRight, WaitsRight
     DEF PassInv, OnePassIsEnough

\* Each of the methods that go over a list once returns what a search of all windows,
\* pairs, later days or ways would, for every list, width and target
\* (examples.py, OnePassIsEnough).
THEOREM OnePassIsEnoughHolds == OnePassSpec => []OnePassIsEnough
<1>1. OnePassInit => PassInv
  BY PassStarts
<1>2. PassInv /\ [OnePassNext]_passVars => PassInv'
  BY PassKeeps
<1> QED
  BY <1>1, <1>2, PassIsRight, PTL DEF OnePassSpec
-----------------------------------------------------------------------------
(* The spiral *)

Cells == (0..side - 1) \X (0..side - 1)

\* What lies outside the borders is written.
Written ==
    \A r, c \in 0..side - 1 :
        r < top \/ r > bottom \/ c < left \/ c > right => matrix[<<r, c>>] = SpiralNumber(side, r, c)

\* The first number of the k-th ring.
Begun(n, k) == 4 * k * (n - k) + 1

OnRing ==
    /\ 2 * left < side
    /\ \/ /\ walk = "top" /\ top = left
          /\ right = side - 1 - left /\ bottom = side - 1 - left
          /\ number = Begun(side, left)
       \/ /\ walk = "right" /\ top = left + 1
          /\ right = side - 1 - left /\ bottom = side - 1 - left
          /\ number = Begun(side, left) + (side - 2 * left)
       \/ /\ walk = "bottom" /\ top = left + 1 /\ top <= bottom
          /\ right = side - 2 - left /\ bottom = side - 1 - left
          /\ number = Begun(side, left) + (side - 2 * left) + (side - 1 - 2 * left)
       \/ /\ walk = "left" /\ top = left + 1 /\ top <= bottom + 1
          /\ right = side - 2 - left /\ bottom = side - 2 - left
          /\ number = Begun(side, left) + (side - 2 * left) + 2 * (side - 1 - 2 * left)

Ended == top > bottom /\ number = side * side + 1

SpiralInv ==
    /\ side \in Nat /\ matrix \in [Cells -> Int] /\ number \in Int
    /\ left \in Nat /\ top \in Nat /\ right \in Int /\ bottom \in Int
    /\ walk \in {"top", "right", "bottom", "left"}
    /\ Written
    /\ OnRing \/ Ended

LEMMA SpiralStarts == SpiralInit => SpiralInv
<1> SUFFICES ASSUME SpiralInit PROVE SpiralInv
  OBVIOUS
<1>1. /\ side \in Nat /\ left = 0 /\ top = 0 /\ right = side - 1 /\ bottom = side - 1
      /\ number = 1 /\ walk = "top"
  BY DEF SpiralInit
<1>2. matrix \in [Cells -> Int]
  BY DEF SpiralInit, Cells
<1>3. Written
  BY <1>1 DEF Written
<1>4. OnRing \/ Ended
  BY <1>1 DEF OnRing, Ended, Begun
<1> QED
  BY <1>1, <1>2, <1>3, <1>4 DEF SpiralInv

\* The numbers of the four sides of the k-th ring.
LEMMA SpiralNumberIs ==
  ASSUME NEW n \in Nat, NEW k \in Nat, NEW r \in k..n - 1 - k, NEW c \in k..n - 1 - k
  PROVE  /\ r = k => SpiralNumber(n, r, c) = Begun(n, k) + (c - k)
         /\ r # k /\ c = n - 1 - k =>
               SpiralNumber(n, r, c) = Begun(n, k) + (n - 1 - 2 * k) + (r - k)
         /\ r = n - 1 - k /\ r # k /\ c # n - 1 - k =>
               SpiralNumber(n, r, c) = Begun(n, k) + 2 * (n - 1 - 2 * k) + (n - 1 - k - c)
         /\ c = k /\ r # k /\ r # n - 1 - k /\ c # n - 1 - k =>
               SpiralNumber(n, r, c) = Begun(n, k) + 3 * (n - 1 - 2 * k) + (n - 1 - k - r)
<1> DEFINE S == {r, c, n - 1 - r, n - 1 - c}
<1>1. S \in SUBSET Int /\ \A x \in S : k <= x
  OBVIOUS
<1>2. r = k \/ c = n - 1 - k \/ r = n - 1 - k \/ c = k => k \in S
  OBVIOUS
<1>3. k \in S => Min(S) = k
  BY <1>1, MinIs DEF IsLeast
<1>4. 4 * k * (n - k) \in Int
  OBVIOUS
<1>5. ASSUME Min(S) = k
      PROVE  SpiralNumber(n, r, c) = 4 * k * (n - k) + 1 +
                 (IF r = k THEN c - k
                  ELSE IF c = n - 1 - k THEN (n - 1 - 2 * k) + r - k
                  ELSE IF r = n - 1 - k THEN 2 * (n - 1 - 2 * k) + (n - 1 - k - c)
                  ELSE 3 * (n - 1 - 2 * k) + (n - 1 - k - r))
  BY <1>5 DEF SpiralNumber
<1> HIDE DEF S
<1> DEFINE B == 4 * k * (n - k)
<1>6. B \in Int /\ Begun(n, k) = B + 1
  BY <1>4 DEF Begun
<1> HIDE DEF B
<1>7. CASE k \in S
  <2>1. SpiralNumber(n, r, c) = B + 1 +
                 (IF r = k THEN c - k
                  ELSE IF c = n - 1 - k THEN (n - 1 - 2 * k) + r - k
                  ELSE IF r = n - 1 - k THEN 2 * (n - 1 - 2 * k) + (n - 1 - k - c)
                  ELSE 3 * (n - 1 - 2 * k) + (n - 1 - k - r))
    BY <1>3, <1>5, <1>7 DEF B
  <2> QED
    BY <1>6, <2>1
<1> QED
  BY <1>2, <1>7

LEMMA Typed ==
  ASSUME NEW c \in Cells, NEW a \in Int, NEW b \in Int, NEW m \in Int
  PROVE  m + Between(a, c[1]) + Between(b, c[2]) \in Int
<1>1. c[1] \in Int /\ c[2] \in Int
  BY DEF Cells
<1> QED
  BY <1>1 DEF Between

LEMMA TopKeeps == SpiralInv /\ AlongTop => SpiralInv'
<1> SUFFICES ASSUME SpiralInv, AlongTop PROVE SpiralInv'
  OBVIOUS
<1> DEFINE n == side
           k == left
<1>1. /\ n \in Nat /\ k \in Nat /\ matrix \in [Cells -> Int] /\ number \in Int
      /\ 2 * k < n /\ top = k /\ right = n - 1 - k /\ bottom = n - 1 - k
      /\ number = Begun(n, k) /\ Written
  <2>1. walk = "top" /\ number <= side * side /\ number \in Int /\ side \in Nat
    BY DEF AlongTop, SpiralInv
  <2>2. side * side \in Int
    BY <2>1
  <2>3. OnRing
    BY <2>1, <2>2 DEF SpiralInv, Ended
  <2> QED
    BY <2>1, <2>3 DEF SpiralInv, OnRing
<1>2. /\ Write({top}, left..right, <<top, left>>)
      /\ top' = k + 1 /\ walk' = "right" /\ side' = n /\ left' = k
      /\ right' = n - 1 - k /\ bottom' = n - 1 - k
  BY <1>1 DEF AlongTop
<1>3. /\ matrix' \in [Cells -> Int]
      /\ \A r, c \in 0..n - 1 :
            matrix'[<<r, c>>] = IF r = k /\ c \in k..n - 1 - k THEN number + (c - k)
                                ELSE matrix[<<r, c>>]
  <2>1. matrix' = [c \in Cells |->
              IF c[1] \in {top} /\ c[2] \in left..right
              THEN number + Between(top, c[1]) + Between(left, c[2]) ELSE matrix[c]]
    BY <1>1, <1>2 DEF Write
  <2>2. top \in Int /\ left \in Int
    BY <1>1
  <2>3. matrix' \in [Cells -> Int]
    BY <1>1, <2>1, <2>2, Typed
  <2>4. \A r, c \in 0..n - 1 : <<r, c>> \in Cells
    BY DEF Cells
  <2>5. \A r, c \in 0..n - 1 :
              matrix'[<<r, c>>] = IF r \in {top} /\ c \in left..right
                                  THEN number + Between(top, r) + Between(left, c)
                                  ELSE matrix[<<r, c>>]
    BY <2>1, <2>4
  <2> QED
    BY <1>1, <2>3, <2>5 DEF Between
<1>4. number' = number + (n - 2 * k)
  <2>1. number' = number + Cardinality({k}) * Cardinality(k..n - 1 - k)
    BY <1>1, <1>2 DEF Write
  <2>2. Cardinality({k}) = 1 /\ Cardinality(k..n - 1 - k) = (n - 1 - k) - k + 1
    <3>1. k \in Int /\ n - 1 - k \in Int /\ ~(k > n - 1 - k)
      BY <1>1
    <3> QED
      BY <3>1, FS_Singleton, FS_Interval
  <2> QED
    BY <1>1, <2>1, <2>2
<1>5. Written'
  <2> SUFFICES ASSUME NEW r \in 0..n - 1, NEW c \in 0..n - 1,
                      r < k + 1 \/ r > n - 1 - k \/ c < k \/ c > n - 1 - k
               PROVE  matrix'[<<r, c>>] = SpiralNumber(n, r, c)
    BY <1>2 DEF Written
  <2>1. CASE r = k /\ c \in k..n - 1 - k
    <3>1. r \in k..n - 1 - k
      BY <1>1, <2>1
    <3> QED
      BY <1>1, <1>3, <2>1, <3>1, SpiralNumberIs
  <2>2. CASE ~(r = k /\ c \in k..n - 1 - k)
    <3>1. r < k \/ r > n - 1 - k \/ c < k \/ c > n - 1 - k
      BY <1>1, <2>2
    <3>2. matrix[<<r, c>>] = SpiralNumber(n, r, c)
      BY <1>1, <3>1 DEF Written
    <3> QED
      BY <1>3, <2>2, <3>2
  <2> QED
    BY <2>1, <2>2
<1>6. OnRing'
  BY <1>1, <1>2, <1>4 DEF OnRing
<1>7. number' \in Int /\ Cells' = Cells
  BY <1>1, <1>2, <1>4 DEF Cells
<1> QED
  BY <1>1, <1>2, <1>3, <1>5, <1>6, <1>7 DEF SpiralInv

LEMMA RightKeeps == SpiralInv /\ AlongRight => SpiralInv'
<1> SUFFICES ASSUME SpiralInv, AlongRight PROVE SpiralInv'
  OBVIOUS
<1> DEFINE n == side
           k == left
<1>1. /\ n \in Nat /\ k \in Nat /\ matrix \in [Cells -> Int] /\ number \in Int
      /\ top \in Nat /\ right \in Int /\ bottom \in Int /\ Written /\ walk = "right"
  BY DEF SpiralInv, AlongRight
<1>2. walk' = "bottom" /\ side' = n /\ left' = k /\ top' = top /\ bottom' = bottom /\ Cells' = Cells
  BY DEF AlongRight, Cells
<1>3. CASE top > bottom
  <2>1. UNCHANGED <<matrix, number, right>>
    BY <1>1, <1>3 DEF AlongRight
  <2>2. Written'
    BY <1>1, <1>2, <2>1 DEF Written
  <2>3. Ended
    <3>1. CASE OnRing
      <4>1. /\ 2 * k < n /\ top = k + 1 /\ bottom = n - 1 - k
            /\ number = Begun(n, k) + (n - 2 * k)
        BY <1>1, <3>1 DEF OnRing
      <4>2. n = 2 * k + 1
        BY <1>1, <1>3, <4>1
      <4>3. 4 * k * (n - k) + 1 + (n - 2 * k) = n * n + 1
        BY <1>1, <4>2
      <4> QED
        BY <1>3, <4>1, <4>3 DEF Ended, Begun
    <3> QED
      BY <3>1 DEF SpiralInv
  <2>4. Ended'
    BY <1>2, <2>1, <2>3 DEF Ended
  <2> QED
    BY <1>1, <1>2, <2>1, <2>2, <2>4 DEF SpiralInv
<1>4. CASE top <= bottom
  <2>1. /\ 2 * k < n /\ top = k + 1 /\ right = n - 1 - k /\ bottom = n - 1 - k
        /\ number = Begun(n, k) + (n - 2 * k)
    BY <1>1, <1>4 DEF SpiralInv, OnRing, Ended
  <2>2. Write(top..bottom, {right}, <<top, right>>) /\ right' = n - 2 - k
    BY <1>1, <1>4, <2>1 DEF AlongRight
  <2>3. /\ matrix' \in [Cells -> Int]
        /\ \A r, c \in 0..n - 1 :
              matrix'[<<r, c>>] = IF r \in k + 1..n - 1 - k /\ c = n - 1 - k
                                  THEN number + (r - (k + 1)) ELSE matrix[<<r, c>>]
    <3>1. matrix' = [c \in Cells |->
              IF c[1] \in top..bottom /\ c[2] \in {right}
              THEN number + Between(top, c[1]) + Between(right, c[2]) ELSE matrix[c]]
      BY <1>1, <2>2 DEF Write
    <3>2. top \in Int /\ right \in Int
      BY <1>1
    <3>3. matrix' \in [Cells -> Int]
      BY <1>1, <3>1, <3>2, Typed
    <3>4. \A r, c \in 0..n - 1 : <<r, c>> \in Cells
      BY DEF Cells
    <3>5. \A r, c \in 0..n - 1 :
              matrix'[<<r, c>>] = IF r \in top..bottom /\ c \in {right}
                                  THEN number + Between(top, r) + Between(right, c)
                                  ELSE matrix[<<r, c>>]
      BY <3>1, <3>4
    <3> QED
      BY <1>1, <2>1, <3>3, <3>5 DEF Between
  <2>4. number' = number + (n - 1 - 2 * k)
    <3>1. number' = number + Cardinality(top..bottom) * Cardinality({right})
      BY <2>2 DEF Write
    <3>2. Cardinality({right}) = 1 /\ Cardinality(top..bottom) = bottom - top + 1
      <4>1. top \in Int /\ bottom \in Int /\ ~(top > bottom)
        BY <1>1, <1>4
      <4> QED
        BY <4>1, FS_Singleton, FS_Interval
    <3> QED
      BY <1>1, <2>1, <3>1, <3>2
  <2>5. Written'
    <3> SUFFICES ASSUME NEW r \in 0..n - 1, NEW c \in 0..n - 1,
                        r < k + 1 \/ r > n - 1 - k \/ c < k \/ c > n - 2 - k
                 PROVE  matrix'[<<r, c>>] = SpiralNumber(n, r, c)
      BY <1>2, <2>1, <2>2 DEF Written
    <3>1. CASE r \in k + 1..n - 1 - k /\ c = n - 1 - k
      <4>1. r \in k..n - 1 - k /\ c \in k..n - 1 - k /\ r # k
        BY <1>1, <2>1, <3>1
      <4>2. SpiralNumber(n, r, c) = Begun(n, k) + (n - 1 - 2 * k) + (r - k)
        BY <1>1, <3>1, <4>1, SpiralNumberIs
      <4>3. Begun(n, k) \in Int
        BY <1>1 DEF Begun
      <4> QED
        BY <1>1, <2>1, <2>3, <3>1, <4>2, <4>3
    <3>2. CASE ~(r \in k + 1..n - 1 - k /\ c = n - 1 - k)
      <4>1. r < top \/ r > bottom \/ c < left \/ c > right
        BY <1>1, <2>1, <3>2
      <4>2. matrix[<<r, c>>] = SpiralNumber(n, r, c)
        BY <1>1, <4>1 DEF Written
      <4> QED
        BY <2>3, <3>2, <4>2
    <3> QED
      BY <3>1, <3>2
  <2>6. OnRing'
    BY <1>1, <1>2, <1>4, <2>1, <2>2, <2>4 DEF OnRing
  <2>7. number' \in Int /\ right' \in Int
    BY <1>1, <2>2, <2>4
  <2> QED
    BY <1>1, <1>2, <2>3, <2>5, <2>6, <2>7 DEF SpiralInv
<1> QED
  BY <1>1, <1>3, <1>4

LEMMA BottomKeeps == SpiralInv /\ AlongBottom => SpiralInv'
<1> SUFFICES ASSUME SpiralInv, AlongBottom PROVE SpiralInv'
  OBVIOUS
<1> DEFINE n == side
           k == left
<1>1. /\ n \in Nat /\ k \in Nat /\ matrix \in [Cells -> Int] /\ number \in Int
      /\ top \in Nat /\ right \in Int /\ bottom \in Int /\ Written /\ walk = "bottom"
  BY DEF SpiralInv, AlongBottom
<1>2. walk' = "left" /\ side' = n /\ left' = k /\ top' = top /\ right' = right /\ Cells' = Cells
  BY DEF AlongBottom, Cells
<1>3. CASE ~Meet
  <2>1. UNCHANGED <<matrix, number, bottom>>
    BY <1>1, <1>3 DEF AlongBottom
  <2>2. Written'
    BY <1>1, <1>2, <2>1 DEF Written
  <2>3. Ended
    BY <1>1, <1>3 DEF SpiralInv, OnRing, Meet
  <2>4. Ended'
    BY <1>2, <2>1, <2>3 DEF Ended
  <2> QED
    BY <1>1, <1>2, <2>1, <2>2, <2>4 DEF SpiralInv
<1>4. CASE Meet
  <2>1. /\ top = k + 1 /\ right = n - 2 - k /\ bottom = n - 1 - k /\ top <= bottom
        /\ number = Begun(n, k) + (n - 2 * k) + (n - 1 - 2 * k)
    BY <1>1, <1>4 DEF SpiralInv, OnRing, Ended, Meet
  <2>2. Write({bottom}, left..right, <<bottom, right>>) /\ bottom' = n - 2 - k
    BY <1>1, <1>4, <2>1 DEF AlongBottom
  <2>3. /\ matrix' \in [Cells -> Int]
        /\ \A r, c \in 0..n - 1 :
              matrix'[<<r, c>>] = IF r = n - 1 - k /\ c \in k..n - 2 - k
                                  THEN number + ((n - 2 - k) - c) ELSE matrix[<<r, c>>]
    <3>1. matrix' = [c \in Cells |->
              IF c[1] \in {bottom} /\ c[2] \in left..right
              THEN number + Between(bottom, c[1]) + Between(right, c[2]) ELSE matrix[c]]
      BY <1>1, <2>2 DEF Write
    <3>2. bottom \in Int /\ right \in Int
      BY <1>1
    <3>3. matrix' \in [Cells -> Int]
      BY <1>1, <3>1, <3>2, Typed
    <3>4. \A r, c \in 0..n - 1 : <<r, c>> \in Cells
      BY DEF Cells
    <3>5. \A r, c \in 0..n - 1 :
              matrix'[<<r, c>>] = IF r \in {bottom} /\ c \in left..right
                                  THEN number + Between(bottom, r) + Between(right, c)
                                  ELSE matrix[<<r, c>>]
      BY <3>1, <3>4
    <3> QED
      BY <1>1, <2>1, <3>3, <3>5 DEF Between
  <2>4. number' = number + (n - 1 - 2 * k)
    <3>1. number' = number + Cardinality({bottom}) * Cardinality(left..right)
      BY <2>2 DEF Write
    <3>2. Cardinality({bottom}) = 1 /\ Cardinality(left..right) = right - left + 1
      <4>1. left \in Int /\ right \in Int /\ ~(left > right)
        BY <1>1, <1>4 DEF Meet
      <4> QED
        BY <4>1, FS_Singleton, FS_Interval
    <3> QED
      BY <1>1, <2>1, <3>1, <3>2
  <2>5. Written'
    <3> SUFFICES ASSUME NEW r \in 0..n - 1, NEW c \in 0..n - 1,
                        r < k + 1 \/ r > n - 2 - k \/ c < k \/ c > n - 2 - k
                 PROVE  matrix'[<<r, c>>] = SpiralNumber(n, r, c)
      BY <1>2, <2>1, <2>2 DEF Written
    <3>1. CASE r = n - 1 - k /\ c \in k..n - 2 - k
      <4>1. r \in k..n - 1 - k /\ c \in k..n - 1 - k /\ r # k /\ c # n - 1 - k
        BY <1>1, <2>1, <3>1
      <4>2. SpiralNumber(n, r, c) = Begun(n, k) + 2 * (n - 1 - 2 * k) + (n - 1 - k - c)
        BY <1>1, <3>1, <4>1, SpiralNumberIs
      <4>3. Begun(n, k) \in Int
        BY <1>1 DEF Begun
      <4> QED
        BY <1>1, <2>1, <2>3, <3>1, <4>2, <4>3
    <3>2. CASE ~(r = n - 1 - k /\ c \in k..n - 2 - k)
      <4>1. r < top \/ r > bottom \/ c < left \/ c > right
        BY <1>1, <2>1, <3>2
      <4>2. matrix[<<r, c>>] = SpiralNumber(n, r, c)
        BY <1>1, <4>1 DEF Written
      <4> QED
        BY <2>3, <3>2, <4>2
    <3> QED
      BY <3>1, <3>2
  <2>6. OnRing'
    <3>1. Begun(n, k) \in Int
      BY <1>1 DEF Begun
    <3>2. 2 * k < n /\ top <= (n - 2 - k) + 1
      BY <1>1, <2>1
    <3> QED
      BY <1>1, <1>2, <2>1, <2>2, <2>4, <3>1, <3>2 DEF OnRing
  <2>7. number' \in Int /\ bottom' \in Int
    BY <1>1, <2>2, <2>4
  <2> QED
    BY <1>1, <1>2, <2>3, <2>5, <2>6, <2>7 DEF SpiralInv
<1> QED
  BY <1>3, <1>4

LEMMA LeftKeeps == SpiralInv /\ AlongLeft => SpiralInv'
<1> SUFFICES ASSUME SpiralInv, AlongLeft PROVE SpiralInv'
  OBVIOUS
<1> DEFINE n == side
           k == left
<1>1. /\ n \in Nat /\ k \in Nat /\ matrix \in [Cells -> Int] /\ number \in Int
      /\ top \in Nat /\ right \in Int /\ bottom \in Int /\ Written /\ walk = "left"
  BY DEF SpiralInv, AlongLeft
<1>2. walk' = "top" /\ side' = n /\ right' = right /\ top' = top /\ bottom' = bottom /\ Cells' = Cells
  BY DEF AlongLeft, Cells
<1>3. CASE ~Meet
  <2>1. UNCHANGED <<matrix, number, left>>
    BY <1>1, <1>3 DEF AlongLeft
  <2>2. Written'
    BY <1>1, <1>2, <2>1 DEF Written
  <2>3. Ended
    <3>1. CASE OnRing
      <4>1. /\ 2 * k < n /\ top = k + 1 /\ bottom = n - 2 - k /\ right = n - 2 - k
            /\ top <= bottom + 1
            /\ number = Begun(n, k) + (n - 2 * k) + 2 * (n - 1 - 2 * k)
        BY <1>1, <3>1 DEF OnRing
      <4>2. n = 2 * k + 2
        BY <1>1, <1>3, <4>1 DEF Meet
      <4>3. 4 * k * (n - k) + 1 + (n - 2 * k) + 2 * (n - 1 - 2 * k) = n * n + 1
        BY <1>1, <4>2
      <4>4. top > bottom
        BY <1>1, <4>1, <4>2
      <4> QED
        BY <4>1, <4>3, <4>4 DEF Ended, Begun
    <3> QED
      BY <3>1 DEF SpiralInv
  <2>4. Ended'
    BY <1>2, <2>1, <2>3 DEF Ended
  <2> QED
    BY <1>1, <1>2, <2>1, <2>2, <2>4 DEF SpiralInv
<1>4. CASE Meet
  <2>1. /\ top = k + 1 /\ right = n - 2 - k /\ bottom = n - 2 - k /\ top <= bottom
        /\ number = Begun(n, k) + (n - 2 * k) + 2 * (n - 1 - 2 * k)
    BY <1>1, <1>4 DEF SpiralInv, OnRing, Ended, Meet
  <2>2. Write(top..bottom, {left}, <<bottom, left>>) /\ left' = k + 1
    BY <1>1, <1>4 DEF AlongLeft
  <2>3. /\ matrix' \in [Cells -> Int]
        /\ \A r, c \in 0..n - 1 :
              matrix'[<<r, c>>] = IF r \in k + 1..n - 2 - k /\ c = k
                                  THEN number + ((n - 2 - k) - r) ELSE matrix[<<r, c>>]
    <3>1. matrix' = [c \in Cells |->
              IF c[1] \in top..bottom /\ c[2] \in {left}
              THEN number + Between(bottom, c[1]) + Between(left, c[2]) ELSE matrix[c]]
      BY <1>1, <2>2 DEF Write
    <3>2. bottom \in Int /\ left \in Int
      BY <1>1
    <3>3. matrix' \in [Cells -> Int]
      BY <1>1, <3>1, <3>2, Typed
    <3>4. \A r, c \in 0..n - 1 : <<r, c>> \in Cells
      BY DEF Cells
    <3>5. \A r, c \in 0..n - 1 :
              matrix'[<<r, c>>] = IF r \in top..bottom /\ c \in {left}
                                  THEN number + Between(bottom, r) + Between(left, c)
                                  ELSE matrix[<<r, c>>]
      BY <3>1, <3>4
    <3> QED
      BY <1>1, <2>1, <3>3, <3>5 DEF Between
  <2>4. number' = number + (n - 2 - 2 * k)
    <3>1. number' = number + Cardinality(top..bottom) * Cardinality({left})
      BY <2>2 DEF Write
    <3>2. Cardinality({left}) = 1 /\ Cardinality(top..bottom) = bottom - top + 1
      <4>1. top \in Int /\ bottom \in Int /\ ~(top > bottom)
        BY <1>1, <1>4 DEF Meet
      <4> QED
        BY <4>1, FS_Singleton, FS_Interval
    <3> QED
      BY <1>1, <2>1, <3>1, <3>2
  <2>5. Written'
    <3> SUFFICES ASSUME NEW r \in 0..n - 1, NEW c \in 0..n - 1,
                        r < k + 1 \/ r > n - 2 - k \/ c < k + 1 \/ c > n - 2 - k
                 PROVE  matrix'[<<r, c>>] = SpiralNumber(n, r, c)
      BY <1>2, <2>1, <2>2 DEF Written
    <3>1. CASE r \in k + 1..n - 2 - k /\ c = k
      <4>1. r \in k..n - 1 - k /\ c \in k..n - 1 - k /\ r # k /\ r # n - 1 - k /\ c # n - 1 - k
        BY <1>1, <2>1, <3>1
      <4>2. SpiralNumber(n, r, c) = Begun(n, k) + 3 * (n - 1 - 2 * k) + (n - 1 - k - r)
        BY <1>1, <3>1, <4>1, SpiralNumberIs
      <4>3. Begun(n, k) \in Int
        BY <1>1 DEF Begun
      <4> QED
        BY <1>1, <2>1, <2>3, <3>1, <4>2, <4>3
    <3>2. CASE ~(r \in k + 1..n - 2 - k /\ c = k)
      <4>1. r < top \/ r > bottom \/ c < left \/ c > right
        BY <1>1, <2>1, <3>2
      <4>2. matrix[<<r, c>>] = SpiralNumber(n, r, c)
        BY <1>1, <4>1 DEF Written
      <4> QED
        BY <2>3, <3>2, <4>2
    <3> QED
      BY <3>1, <3>2
  <2>6. OnRing'
    <3>1. number' = Begun(n, k + 1)
      <4>1. 4 * (k + 1) * (n - (k + 1)) = 4 * k * (n - k) + 4 * n - 8 * k - 4
        BY <1>1
      <4>2. 4 * k * (n - k) \in Int
        BY <1>1
      <4> QED
        BY <1>1, <2>1, <2>4, <4>1, <4>2 DEF Begun
    <3>2. 2 * (k + 1) < n
      BY <1>1, <2>1
    <3> QED
      BY <1>1, <1>2, <2>1, <2>2, <3>1, <3>2 DEF OnRing
  <2>7. number' \in Int /\ left' \in Nat
    BY <1>1, <2>2, <2>4
  <2> QED
    BY <1>1, <1>2, <2>3, <2>5, <2>6, <2>7 DEF SpiralInv
<1> QED
  BY <1>3, <1>4

LEMMA SpiralIdle == SpiralInv /\ UNCHANGED spiralVars => SpiralInv'
BY DEF SpiralInv, spiralVars, Cells, Written, OnRing, Ended

LEMMA SpiralRight == SpiralInv => MatrixIsSpiral
<1> SUFFICES ASSUME SpiralInv, walk = "top", number > side * side PROVE MatrixIsSpiral
  BY DEF MatrixIsSpiral
<1>1. top > bottom /\ side \in Nat /\ top \in Nat /\ bottom \in Int
  <2>1. CASE OnRing
    <3>1. 2 * left < side /\ number = 4 * left * (side - left) + 1 /\ left \in Nat /\ side \in Nat
      BY <2>1 DEF SpiralInv, OnRing, Begun
    <3>2. PICK d \in Nat \ {0} : side = 2 * left + d
      <4>1. side - 2 * left \in Nat \ {0} /\ side = 2 * left + (side - 2 * left)
        BY <3>1
      <4> QED
        BY <4>1
    <3>3. side * side = 4 * left * (side - left) + d * d
      BY <3>1, <3>2
    <3>4. d * d >= 1 /\ 4 * left * (side - left) \in Int /\ d * d \in Int
      BY <3>1, <3>2
    <3> QED
      BY <3>1, <3>3, <3>4
  <2> QED
    BY <2>1 DEF SpiralInv, Ended
<1>2. \A r \in 0..side - 1 : r < top \/ r > bottom
  BY <1>1
<1> QED
  BY <1>2 DEF SpiralInv, Written, MatrixIsSpiral

-----------------------------------------------------------------------------
(* The fleets *)

Times == [way : Int, speed : Nat \ {0}]

\* A time that is not later, and one that is the same.
Early(t, u) == ~Later(t, u)
Same(t, u) == Early(t, u) /\ Early(u, t)

LEMMA EarlyIsTotal ==
  ASSUME NEW t \in Times, NEW u \in Times
  PROVE  Early(t, t) /\ (Early(t, u) \/ Early(u, t))
<1>1. t.way \in Int /\ u.way \in Int /\ t.speed \in Nat /\ u.speed \in Nat
  BY DEF Times
<1>2. t.way * u.speed \in Int /\ u.way * t.speed \in Int /\ t.way * t.speed \in Int
  BY <1>1
<1> QED
  BY <1>2 DEF Early, Later

LEMMA EarlyAgain ==
  ASSUME NEW t \in Times, NEW u \in Times, NEW w \in Times, Early(t, u), Early(u, w)
  PROVE  Early(t, w)
<1>1. PICK a \in Int, p \in Nat \ {0} : t = [way |-> a, speed |-> p]
  BY DEF Times
<1>2. PICK b \in Int, q \in Nat \ {0} : u = [way |-> b, speed |-> q]
  BY DEF Times
<1>3. PICK c \in Int, r \in Nat \ {0} : w = [way |-> c, speed |-> r]
  BY DEF Times
<1>4. a * q <= b * p
  <2>1. a * q \in Int /\ b * p \in Int
    OBVIOUS
  <2> QED
    BY <1>1, <1>2, <2>1 DEF Early, Later
<1>5. b * r <= c * q
  <2>1. b * r \in Int /\ c * q \in Int
    OBVIOUS
  <2> QED
    BY <1>2, <1>3, <2>1 DEF Early, Later
<1>6. a * r <= c * p
  <2> SUFFICES ASSUME a * r > c * p PROVE FALSE
    OBVIOUS
  <2>1. (a * q) * r <= (b * p) * r
    BY <1>4
  <2>2. (b * r) * p <= (c * q) * p
    BY <1>5
  <2>3. q * (a * r) > q * (c * p)
    OBVIOUS
  <2>4. (a * q) * r = q * (a * r) /\ (b * p) * r = (b * r) * p /\ (c * q) * p = q * (c * p)
    OBVIOUS
  <2> QED
    BY <2>1, <2>2, <2>3, <2>4
<1> QED
  BY <1>1, <1>3, <1>6 DEF Early, Later

CarCount == Cardinality(Cars)

CarsType ==
    /\ CarCount \in Nat /\ Cars = 1..CarCount
    /\ position \in [Cars -> Int] /\ \A c \in Cars : position[c] < target
    /\ \A c, d \in Cars : position[c] = position[d] => c = d
    /\ speed \in [Cars -> Nat \ {0}]

Sorted ==
    /\ sort_array \in [Cars -> Cars]
    /\ \A a, b \in Cars : a < b => position[sort_array[a]] < position[sort_array[b]]
    /\ times = [a \in Cars |-> time(sort_array[a])]

\* The fleets of the cars from the a-th on.
Classes(a) == {together(sort_array[b]) : b \in a..CarCount}

FleetInv ==
    /\ CarsType /\ car \in 0..CarCount
    /\ times = <<>> => car = 0 /\ fleets = 0 /\ current_arrival = NoTime
    /\ times # <<>> =>
          /\ Sorted
          /\ IsFiniteSet(Classes(car + 1)) /\ fleets = Cardinality(Classes(car + 1))
          /\ car = CarCount => current_arrival = NoTime
          /\ car < CarCount =>
                current_arrival \in Times /\ Same(current_arrival, arrival(sort_array[car + 1]))

LEMMA TimesAre == CarsType => NoTime \in Times /\ \A c \in Cars : time(c) \in Times /\ time(c).way > 0
<1> SUFFICES ASSUME CarsType PROVE NoTime \in Times /\ \A c \in Cars : time(c) \in Times /\ time(c).way > 0
  OBVIOUS
<1>1. NoTime \in Times
  BY DEF NoTime, Times
<1>2. ASSUME NEW c \in Cars PROVE time(c) \in Times /\ time(c).way > 0
  <2>1. position[c] \in Int /\ position[c] < target /\ speed[c] \in Nat \ {0} /\ target \in Int
    BY BoundsAssumption DEF CarsType
  <2>2. target - position[c] \in Int /\ target - position[c] > 0
    BY <2>1
  <2> QED
    BY <2>1, <2>2 DEF time, Times
<1> QED
  BY <1>1, <1>2

LEMMA FleetStarts == FleetInit => FleetInv
<1> SUFFICES ASSUME FleetInit PROVE FleetInv
  OBVIOUS
<1>1. PICK m \in 0..MaxCars : position \in Injection(1..m, Places) /\ speed \in [1..m -> Speeds]
  BY DEF FleetInit
<1>2. m \in Nat /\ Cars = 1..m
  BY <1>1 DEF Cars, Injection
<1>3. Cardinality(1..m) = m
  <2>1. 1 \in Int /\ m \in Int /\ (1 > m => m = 0)
    BY <1>2
  <2> QED
    BY <2>1, FS_Interval
<1>4. CarCount = m
  BY <1>2, <1>3 DEF CarCount
<1>5. position \in [Cars -> Int] /\ \A c \in Cars : position[c] < target
  <2>1. position \in [Cars -> Places]
    BY <1>1, <1>2 DEF Injection
  <2> QED
    BY <2>1, BoundsAssumption
<1>6. \A c, d \in Cars : position[c] = position[d] => c = d
  BY <1>1, <1>2, <1>5 DEF Injection, IsInjective
<1>7. speed \in [Cars -> Nat \ {0}]
  BY <1>1, <1>2, BoundsAssumption
<1>8. CarsType
  BY <1>2, <1>4, <1>5, <1>6, <1>7 DEF CarsType
<1> QED
  BY <1>2, <1>4, <1>8 DEF FleetInv, FleetInit

\* All cars are sorted, and those ahead of the a-th are the ones after it.
LEMMA SortedIs ==
  CarsType /\ Sorted =>
    /\ \A c \in Cars : \E a \in 1..CarCount : sort_array[a] = c
    /\ \A a, b \in 1..CarCount : position[sort_array[b]] >= position[sort_array[a]] <=> b >= a
<1> SUFFICES ASSUME CarsType, Sorted
             PROVE  /\ \A c \in Cars : \E a \in 1..CarCount : sort_array[a] = c
                    /\ \A a, b \in 1..CarCount :
                          position[sort_array[b]] >= position[sort_array[a]] <=> b >= a
  OBVIOUS
<1>1. \A a, b \in 1..CarCount : position[sort_array[b]] >= position[sort_array[a]] <=> b >= a
  <2> SUFFICES ASSUME NEW a \in 1..CarCount, NEW b \in 1..CarCount
               PROVE  position[sort_array[b]] >= position[sort_array[a]] <=> b >= a
    OBVIOUS
  <2>1. a \in Cars /\ b \in Cars /\ position[sort_array[a]] \in Int /\ position[sort_array[b]] \in Int
    BY DEF CarsType, Sorted
  <2>2. a < b => position[sort_array[a]] < position[sort_array[b]]
    BY <2>1 DEF Sorted
  <2>3. b < a => position[sort_array[b]] < position[sort_array[a]]
    BY <2>1 DEF Sorted
  <2>4. a \in Int /\ b \in Int
    OBVIOUS
  <2> QED
    BY <2>1, <2>2, <2>3, <2>4
<1>2. \A a, b \in Cars : sort_array[a] = sort_array[b] => a = b
  <2> SUFFICES ASSUME NEW a \in Cars, NEW b \in Cars, sort_array[a] = sort_array[b] PROVE a = b
    OBVIOUS
  <2>1. a \in 1..CarCount /\ b \in 1..CarCount /\ position[sort_array[a]] \in Int
        /\ position[sort_array[a]] = position[sort_array[b]]
    BY DEF CarsType, Sorted
  <2>2. b >= a /\ a >= b
    BY <1>1, <2>1
  <2> QED
    BY <2>1, <2>2
<1>3. IsFiniteSet(Cars)
  BY FS_Interval DEF CarsType
<1>4. sort_array \in Injection(Cars, Cars)
  BY <1>2 DEF Sorted, Injection, IsInjective
<1>5. sort_array \in Surjection(Cars, Cars)
  BY <1>3, <1>4, FS_Injection
<1>6. \A c \in Cars : \E a \in Cars : sort_array[a] = c
  BY <1>5 DEF Surjection
<1> QED
  BY <1>1, <1>6 DEF CarsType

\* t is the latest of the times from the a-th car on.
LatestFrom(a, t) ==
    /\ \E b \in a..CarCount : t = time(sort_array[b])
    /\ \A b \in a..CarCount : Early(time(sort_array[b]), t)

LEMMA LatestExists ==
  CarsType /\ Sorted => \A a \in 1..CarCount : \E t : LatestFrom(a, t)
<1> SUFFICES ASSUME CarsType, Sorted PROVE \A a \in 1..CarCount : \E t : LatestFrom(a, t)
  OBVIOUS
<1> DEFINE m == CarCount
           s(b) == time(sort_array[b])
           T == {j \in Nat : j < m => \E t : LatestFrom(m - j, t)}
<1>1. m \in Nat /\ \A b \in 1..m : s(b) \in Times
  BY TimesAre DEF CarsType, Sorted
<1>2. 0 \in T
  <2> SUFFICES ASSUME 0 < m PROVE LatestFrom(m - 0, s(m))
    OBVIOUS
  <2>1. m - 0 = m /\ m \in 1..m /\ \A b \in m..m : b = m
    BY <1>1
  <2>2. Early(s(m), s(m))
    BY <1>1, <2>1, EarlyIsTotal
  <2> QED
    BY <2>1, <2>2 DEF LatestFrom
<1>3. ASSUME NEW j \in Nat, j \in T PROVE j + 1 \in T
  <2> SUFFICES ASSUME j + 1 < m PROVE \E t : LatestFrom(m - (j + 1), t)
    OBVIOUS
  <2> DEFINE a == m - (j + 1)
  <2>1. a \in 1..m /\ a + 1 \in 1..m /\ m - j = a + 1 /\ j < m
    BY <1>1
  <2>2. PICK t : LatestFrom(a + 1, t)
    BY <1>3, <2>1
  <2>3. \A b \in a..m : b = a \/ b \in a + 1..m
    BY <2>1
  <2>4. \A b \in a + 1..m : b \in a..m /\ b \in 1..m
    BY <2>1
  <2>5. a \in a..m
    BY <2>1
  <2> HIDE DEF a
  <2>6. t \in Times /\ s(a) \in Times
    BY <1>1, <2>1, <2>2, <2>4 DEF LatestFrom
  <2>7. CASE Early(s(a), t)
    BY <2>2, <2>3, <2>4, <2>7 DEF LatestFrom, a
  <2>8. CASE Early(t, s(a))
    <3>1. \A b \in a + 1..m : Early(s(b), s(a))
      BY <1>1, <2>2, <2>4, <2>6, <2>8, EarlyAgain DEF LatestFrom
    <3>2. Early(s(a), s(a))
      BY <2>6, EarlyIsTotal
    <3>3. LatestFrom(a, s(a))
      BY <2>3, <2>5, <3>1, <3>2 DEF LatestFrom
    <3> QED
      BY <3>3 DEF a
  <2> QED
    BY <2>6, <2>7, <2>8, EarlyIsTotal
<1> HIDE DEF T
<1>4. Nat \subseteq T
  BY <1>2, <1>3, NatSetInduction
<1>5. ASSUME NEW a \in 1..m PROVE \E t : LatestFrom(a, t)
  <2>1. m - a \in Nat /\ m - a < m /\ m - (m - a) = a
    BY <1>1
  <2> QED
    BY <1>4, <2>1 DEF T
<1> QED
  BY <1>5

LEMMA ArrivalIs ==
  CarsType /\ Sorted =>
    \A a \in 1..CarCount : LatestFrom(a, arrival(sort_array[a])) /\ arrival(sort_array[a]) \in Times
<1> SUFFICES ASSUME CarsType, Sorted, NEW a \in 1..CarCount
             PROVE  LatestFrom(a, arrival(sort_array[a])) /\ arrival(sort_array[a]) \in Times
  OBVIOUS
<1> DEFINE c == sort_array[a]
           D == {d \in Cars : position[d] >= position[c]}
           S == {time(d) : d \in D}
<1>1. CarCount \in Nat /\ Cars = 1..CarCount /\ c \in Cars
  BY DEF CarsType, Sorted
<1>2. \A b \in a..CarCount : b \in 1..CarCount /\ sort_array[b] \in D
  <2>1. \A b \in a..CarCount : b \in 1..CarCount /\ b >= a
    BY <1>1
  <2> QED
    BY <1>1, <2>1, SortedIs DEF Sorted
<1>3. \A d \in D : \E b \in a..CarCount : d = sort_array[b]
  <2> SUFFICES ASSUME NEW d \in D PROVE \E b \in a..CarCount : d = sort_array[b]
    OBVIOUS
  <2>1. PICK b \in 1..CarCount : sort_array[b] = d
    BY SortedIs
  <2>2. b >= a
    BY <2>1, SortedIs
  <2>3. b \in a..CarCount
    BY <1>1, <2>2
  <2> QED
    BY <2>1, <2>3
<1>4. arrival(c) = CHOOSE t \in S : \A d \in Cars : position[d] >= position[c] => ~Later(time(d), t)
  BY DEF arrival
<1>5. PICK u : LatestFrom(a, u)
  BY LatestExists
<1>6. u \in S /\ \A d \in D : ~Later(time(d), u)
  BY <1>2, <1>3, <1>5 DEF LatestFrom, Early
<1> HIDE DEF c
<1>7. arrival(c) \in S /\ \A d \in Cars : position[d] >= position[c] => ~Later(time(d), arrival(c))
  BY <1>4, <1>6
<1>8. \A d \in D : d \in Cars /\ position[d] >= position[c]
  OBVIOUS
<1>9. \A b \in a..CarCount : Early(time(sort_array[b]), arrival(c))
  BY <1>2, <1>7, <1>8 DEF Early
<1>10. \E b \in a..CarCount : arrival(c) = time(sort_array[b])
  BY <1>3, <1>7
<1>11. arrival(c) \in Times
  BY <1>7, <1>8, TimesAre
<1> QED
  BY <1>9, <1>10, <1>11 DEF LatestFrom, c

LEMMA ArrivalsAre == CarsType /\ Sorted => \A c \in Cars : arrival(c) \in Times
BY SortedIs, ArrivalIs

LEMMA SortKeeps == FleetInv /\ Sort => FleetInv'
<1> SUFFICES ASSUME FleetInv, Sort PROVE FleetInv'
  OBVIOUS
<1>1. /\ Cars # {} /\ times = <<>> /\ car' = CarCount /\ UNCHANGED <<position, speed, current_arrival, fleets>>
  BY DEF Sort, CarCount
<1>2. CarsType /\ CarCount \in Nat /\ fleets = 0 /\ current_arrival = NoTime
  BY <1>1 DEF FleetInv, CarsType
<1>3. CarsType' /\ Cars' = Cars /\ CarCount' = CarCount
  BY <1>1, <1>2 DEF CarsType, Cars, CarCount
<1>4. Sorted'
  BY <1>1, <1>3 DEF Sort, Sorted, time
<1>5. Classes(car + 1)' = {}
  <2>1. (car + 1)'..CarCount' = {}
    BY <1>1, <1>2, <1>3
  <2> QED
    BY <2>1 DEF Classes
<1>6. IsFiniteSet(Classes(car + 1)') /\ Cardinality(Classes(car + 1)') = 0
  BY <1>5, FS_EmptySet
<1>7. times' # <<>>
  <2>1. times' = [a \in Cars |-> time(sort_array'[a])]
    BY DEF Sort
  <2>2. DOMAIN times' = Cars
    BY <2>1
  <2>3. DOMAIN << >> = {}
    OBVIOUS
  <2> QED
    BY <1>1, <2>2, <2>3
<1>8. car' \in 0..CarCount' /\ ~(car' < CarCount')
  BY <1>1, <1>2, <1>3
<1> QED
  BY <1>1, <1>2, <1>3, <1>4, <1>6, <1>7, <1>8 DEF FleetInv

LEMMA PassKeepsFleets == FleetInv /\ Pass => FleetInv'
<1> SUFFICES ASSUME FleetInv, Pass PROVE FleetInv'
  OBVIOUS
<1> DEFINE m == CarCount
           a == car
           A(b) == arrival(sort_array[b])
           s(b) == time(sort_array[b])
<1>1. /\ CarsType /\ m \in Nat /\ Cars = 1..m /\ a \in 1..m /\ times # <<>> /\ Sorted
      /\ IsFiniteSet(Classes(a + 1)) /\ fleets = Cardinality(Classes(a + 1))
      /\ a = m => current_arrival = NoTime
      /\ a < m => current_arrival \in Times /\ Same(current_arrival, A(a + 1))
  <2>1. car > 0 /\ CarsType /\ CarCount \in Nat /\ car \in 0..CarCount /\ times # <<>>
    BY DEF FleetInv, CarsType, Pass
  <2> QED
    BY <2>1 DEF FleetInv, CarsType
<1>2. /\ car' = a - 1 /\ car' + 1 = a /\ UNCHANGED <<position, speed, sort_array, times>>
      /\ CarsType' /\ Sorted' /\ Cars' = Cars /\ CarCount' = m
  <2>1. car' = a - 1 /\ UNCHANGED <<position, speed, sort_array, times>>
    BY DEF Pass
  <2>2. Cars' = Cars /\ CarCount' = m
    BY <2>1 DEF Cars, CarCount
  <2>3. CarsType' /\ Sorted'
    BY <1>1, <2>1, <2>2 DEF CarsType, Sorted, time
  <2> QED
    BY <1>1, <2>1, <2>2, <2>3
<1>3. \A b \in 1..m : s(b) \in Times /\ s(b).way > 0 /\ A(b) \in Times /\ LatestFrom(b, A(b))
                      /\ sort_array[b] \in Cars
  BY <1>1, TimesAre, ArrivalIs DEF Sorted
<1>4. \A c \in Cars : arrival(c)' = arrival(c) /\ together(c)' = together(c)
  BY <1>2 DEF arrival, together, time, Cars
<1>5. times[a] = s(a)
  BY <1>1 DEF Sorted
<1>6. a < m => a + 1 \in 1..m
  BY <1>1
<1>7. /\ \A b \in a..m : b = a \/ b \in a + 1..m
      /\ \A b \in a + 1..m : b \in a..m /\ b \in 1..m /\ a < m
      /\ a \in a..m
  BY <1>1
<1>8. Classes(a) = Classes(a + 1) \cup {together(sort_array[a])}
  BY <1>7 DEF Classes
<1>9. Classes(car + 1)' = Classes(a)
  <2>1. \A b \in a..m : sort_array[b] \in Cars
    <3>1. \A b \in a..m : b \in 1..m
      BY <1>1
    <3> QED
      BY <1>3, <3>1
  <2> QED
    BY <1>2, <1>4, <2>1 DEF Classes
<1>10. IsFiniteSet(Classes(a))
  BY <1>1, <1>8, FS_AddElement
<1>11. NoTime \in Times
  BY <1>1, TimesAre
<1>12. current_arrival \in Times
  BY <1>1, <1>6, <1>11
\* Each car ahead arrives no later than what limits this one.
<1>13. \A b \in a + 1..m : Early(A(b), current_arrival) /\ Early(s(b), current_arrival)
  <2> SUFFICES ASSUME NEW b \in a + 1..m
               PROVE  Early(A(b), current_arrival) /\ Early(s(b), current_arrival)
    OBVIOUS
  <2>1. a < m /\ a + 1 \in 1..m /\ b \in 1..m /\ \A d \in b..m : d \in a + 1..m /\ d \in 1..m
    BY <1>1, <1>7
  <2>2. LatestFrom(a + 1, A(a + 1)) /\ LatestFrom(b, A(b)) /\ A(a + 1) \in Times
    BY <1>3, <2>1
  <2>3. PICK d \in b..m : A(b) = s(d)
    BY <2>2 DEF LatestFrom
  <2>4. Early(s(d), A(a + 1)) /\ Early(s(b), A(a + 1))
    BY <2>1, <2>2 DEF LatestFrom
  <2>5. Early(A(a + 1), current_arrival)
    BY <1>1, <2>1 DEF Same
  <2>6. s(d) \in Times /\ s(b) \in Times
    BY <1>3, <2>1
  <2> QED
    BY <1>12, <2>2, <2>3, <2>4, <2>5, <2>6, EarlyAgain
<1>14. CASE Later(times[a], current_arrival)
  <2>1. fleets' = fleets + 1 /\ current_arrival' = s(a) /\ Later(s(a), current_arrival)
    BY <1>5, <1>14 DEF Pass
  <2>2. Same(s(a), A(a))
    <3>1. Early(s(a), A(a))
      BY <1>1, <1>3, <1>7 DEF LatestFrom
    <3>2. PICK b \in a..m : A(a) = s(b)
      BY <1>1, <1>3 DEF LatestFrom
    <3>3. CASE b = a
      BY <1>1, <1>3, <3>1, <3>2, <3>3, EarlyIsTotal DEF Same
    <3>4. CASE b \in a + 1..m
      <4>1. Early(s(b), current_arrival) /\ Early(current_arrival, s(a))
        <5>1. ~Early(s(a), current_arrival)
          BY <2>1 DEF Early
        <5> QED
          BY <1>1, <1>3, <1>12, <1>13, <3>4, <5>1, EarlyIsTotal
      <4>2. s(b) \in Times /\ s(a) \in Times
        BY <1>1, <1>3, <1>7, <3>4
      <4>3. Early(s(b), s(a))
        BY <1>12, <4>1, <4>2, EarlyAgain
      <4> QED
        BY <3>1, <3>2, <4>3 DEF Same
    <3> QED
      BY <1>7, <3>3, <3>4
  <2>3. sort_array[a] \in together(sort_array[a])
    <3>1. Early(A(a), A(a))
      BY <1>1, <1>3, EarlyIsTotal
    <3> QED
      BY <1>1, <1>3, <3>1 DEF together, Early
  <2>4. \A b \in a + 1..m : sort_array[a] \notin together(sort_array[b])
    <3> SUFFICES ASSUME NEW b \in a + 1..m, Early(A(a), A(b)) PROVE FALSE
      BY DEF together, Early
    <3>1. s(a) \in Times /\ A(a) \in Times /\ A(b) \in Times
      BY <1>1, <1>3, <1>7
    <3>2. Early(s(a), A(b))
      BY <2>2, <3>1, EarlyAgain DEF Same
    <3>3. Early(s(a), current_arrival)
      BY <1>12, <1>13, <3>1, <3>2, EarlyAgain
    <3> QED
      BY <2>1, <3>3 DEF Early
  <2>5. together(sort_array[a]) \notin Classes(a + 1)
    BY <2>3, <2>4 DEF Classes
  <2>6. Cardinality(Classes(a)) = fleets + 1
    BY <1>1, <1>8, <2>5, FS_AddElement
  <2>7. current_arrival' \in Times /\ Same(current_arrival', arrival(sort_array[car + 1])')
    <3>1. arrival(sort_array[car + 1])' = A(a)
      BY <1>1, <1>2 DEF arrival, time, Cars
    <3> QED
      BY <1>1, <1>2, <1>3, <2>1, <2>2, <3>1
  <2>8. car' \in 0..CarCount' /\ car' # CarCount'
    BY <1>1, <1>2
  <2> QED
    BY <1>1, <1>2, <1>9, <1>10, <2>1, <2>6, <2>7, <2>8 DEF FleetInv, Same, Early, Later
<1>15. CASE ~Later(times[a], current_arrival)
  <2>1. fleets' = fleets /\ current_arrival' = current_arrival /\ Early(s(a), current_arrival)
    BY <1>5, <1>15 DEF Pass, Early
  <2>2. a < m
    <3> SUFFICES ASSUME a = m PROVE FALSE
      BY <1>1
    <3>1. s(a) \in Times /\ s(a).way > 0 /\ current_arrival = NoTime
      BY <1>1, <1>3
    <3>2. s(a).way \in Int /\ s(a).speed \in Nat
      BY <3>1 DEF Times
    <3>3. Later(s(a), NoTime)
      BY <3>1, <3>2 DEF Later, NoTime
    <3> QED
      BY <2>1, <3>1, <3>3 DEF Early
  <2>3. a + 1 \in 1..m /\ Same(current_arrival, A(a + 1)) /\ A(a + 1) \in Times /\ A(a) \in Times
        /\ s(a) \in Times
    BY <1>1, <1>3, <1>6, <2>2
  <2>4. Early(A(a), A(a + 1))
    <3>1. PICK b \in a..m : A(a) = s(b)
      BY <1>1, <1>3 DEF LatestFrom
    <3>2. Early(s(b), current_arrival)
      BY <1>7, <1>13, <2>1
    <3> QED
      BY <1>12, <2>3, <3>1, <3>2, EarlyAgain DEF Same
  <2>5. Early(A(a + 1), A(a))
    <3>1. PICK b \in a + 1..m : A(a + 1) = s(b)
      BY <1>3, <2>3 DEF LatestFrom
    <3> QED
      BY <1>1, <1>3, <1>7, <3>1 DEF LatestFrom
  <2>6. together(sort_array[a]) = together(sort_array[a + 1])
    <3> SUFFICES ASSUME NEW c \in Cars
                 PROVE  c \in together(sort_array[a]) <=> c \in together(sort_array[a + 1])
      BY DEF together
    <3>1. arrival(c) \in Times
      BY <1>1, ArrivalsAre
    <3>2. Early(A(a), arrival(c)) <=> Early(A(a + 1), arrival(c))
      BY <2>3, <2>4, <2>5, <3>1, EarlyAgain
    <3>3. Early(arrival(c), A(a)) <=> Early(arrival(c), A(a + 1))
      BY <2>3, <2>4, <2>5, <3>1, EarlyAgain
    <3> QED
      BY <3>2, <3>3 DEF together, Early
  <2>7. Classes(a) = Classes(a + 1)
    <3>1. together(sort_array[a + 1]) \in Classes(a + 1)
      <4>1. a + 1 \in a + 1..CarCount
        BY <1>1, <2>2
      <4> QED
        BY <4>1 DEF Classes
    <3> QED
      BY <1>8, <2>6, <3>1
  <2>8. Same(current_arrival, A(a))
    BY <1>12, <2>3, <2>4, <2>5, EarlyAgain DEF Same
  <2>9. Same(current_arrival', arrival(sort_array[car + 1])')
    <3>1. arrival(sort_array[car + 1])' = A(a)
      BY <1>1, <1>2 DEF arrival, time, Cars
    <3> QED
      BY <1>2, <2>1, <2>8, <3>1
  <2>10. car' \in 0..CarCount' /\ car' # CarCount'
    BY <1>1, <1>2
  <2> QED
    BY <1>1, <1>2, <1>9, <1>10, <1>12, <2>1, <2>7, <2>9, <2>10 DEF FleetInv, Same, Early, Later
<1> QED
  BY <1>14, <1>15

LEMMA FleetIdle == FleetInv /\ UNCHANGED fleetVars => FleetInv'
<1> SUFFICES ASSUME FleetInv, UNCHANGED fleetVars PROVE FleetInv'
  OBVIOUS
<1>1. UNCHANGED <<position, speed, sort_array, times, car, current_arrival, fleets>>
  BY DEF fleetVars
<1>2. Cars' = Cars /\ CarCount' = CarCount
  BY <1>1 DEF Cars, CarCount
<1>3. CarsType' <=> CarsType
  BY <1>1, <1>2 DEF CarsType
<1>4. Sorted' <=> Sorted
  BY <1>1, <1>2 DEF Sorted, time
<1>5. Classes(car + 1)' = Classes(car + 1) /\ arrival(sort_array[car + 1])' = arrival(sort_array[car + 1])
  BY <1>1, <1>2 DEF Classes, together, arrival, time
<1> QED
  BY <1>1, <1>2, <1>3, <1>4, <1>5 DEF FleetInv, Same, Early, Later

LEMMA FleetsRight == FleetInv => FleetsArriveTogether
<1> SUFFICES ASSUME FleetInv, car = 0, Cars = {} \/ times # <<>>
             PROVE  fleets = Cardinality({together(c) : c \in Cars})
  BY DEF FleetsArriveTogether
<1>1. CASE times # <<>>
  <2>1. Sorted /\ CarsType /\ fleets = Cardinality(Classes(1))
    BY <1>1 DEF FleetInv
  <2>2. \A c \in Cars : \E b \in 1..CarCount : sort_array[b] = c
    BY <2>1, SortedIs
  <2>3. \A b \in 1..CarCount : sort_array[b] \in Cars
    BY <2>1 DEF Sorted, CarsType
  <2>4. Classes(1) = {together(c) : c \in Cars}
    BY <2>2, <2>3 DEF Classes
  <2> QED
    BY <2>1, <2>4
<1>2. CASE times = <<>>
  <2>1. fleets = 0 /\ {together(c) : c \in Cars} = {}
    BY <1>2 DEF FleetInv
  <2> QED
    BY <2>1, FS_EmptySet
<1> QED
  BY <1>1, <1>2

LEMMA BoundsKeep ==
  SpiralInv /\ FleetInv /\ [BoundsNext]_<<spiralVars, fleetVars>> => SpiralInv' /\ FleetInv'
<1> SUFFICES ASSUME SpiralInv, FleetInv, [BoundsNext]_<<spiralVars, fleetVars>>
             PROVE  SpiralInv' /\ FleetInv'
  OBVIOUS
<1>1. [SpiralNext]_spiralVars => SpiralInv'
  BY TopKeeps, RightKeeps, BottomKeeps, LeftKeeps, SpiralIdle DEF SpiralNext
<1>2. [FleetNext]_fleetVars => FleetInv'
  BY SortKeeps, PassKeepsFleets, FleetIdle DEF FleetNext
<1>3. [SpiralNext]_spiralVars /\ [FleetNext]_fleetVars
  BY DEF BoundsNext
<1> QED
  BY <1>1, <1>2, <1>3

\* generateMatrix and carFleet, for any size of the matrix and any cars whose positions
\* differ: the cells hold the numbers of the spiral, and the fleets counted are those
\* that arrive together (examples.py, BoundsMeetRight).
THEOREM BoundsMeetRightHolds == BoundsSpec => []BoundsMeetRight
<1>1. BoundsInit => SpiralInv /\ FleetInv
  BY SpiralStarts, FleetStarts DEF BoundsInit
<1>2. SpiralInv /\ FleetInv => BoundsMeetRight
  BY SpiralRight, FleetsRight DEF BoundsMeetRight
<1> QED
  BY <1>1, <1>2, BoundsKeep, PTL DEF BoundsSpec

-----------------------------------------------------------------------------
(* Euler's steps *)

Raised(base, m, h) == h = [k \in 0..m |-> IF k = 0 THEN 1 ELSE base * h[k - 1]]

LEMMA RaisedExists ==
  ASSUME NEW base \in Int, NEW N \in Nat
  PROVE  \E h : Raised(base, N, h) /\ \A k \in 0..N : h[k] \in Int
<1> DEFINE T == {m \in Nat : \E h : Raised(base, m, h) /\ \A k \in 0..m : h[k] \in Int}
<1>1. 0 \in T
  <2> DEFINE h == [k \in 0..0 |-> 1]
  <2>1. Raised(base, 0, h) /\ \A k \in 0..0 : h[k] \in Int
    BY DEF Raised
  <2> HIDE DEF h
  <2> QED
    BY <2>1
<1>2. ASSUME NEW m \in Nat, m \in T PROVE m + 1 \in T
  <2>1. PICK h : Raised(base, m, h) /\ \A k \in 0..m : h[k] \in Int
    BY <1>2
  <2> DEFINE u == [k \in 0..m + 1 |-> IF k = m + 1 THEN base * h[m] ELSE h[k]]
  <2>2. h[m] \in Int
    BY <2>1
  <2>6. base * h[m] \in Int
    BY <2>2
  <2>3. \A k \in 0..m + 1 : u[k] \in Int
    BY <2>1, <2>6
  <2>4. ASSUME NEW k \in 0..m + 1 PROVE u[k] = IF k = 0 THEN 1 ELSE base * u[k - 1]
    <3>1. CASE k = m + 1
      BY <3>1
    <3>2. CASE k # m + 1
      <4>1. k \in 0..m
        BY <3>2
      <4>2. (k = 0 => h[k] = 1) /\ (k # 0 => h[k] = base * h[k - 1])
        BY <2>1, <4>1 DEF Raised
      <4>3. u[k] = h[k] /\ (k # 0 => u[k - 1] = h[k - 1])
        BY <3>2
      <4> QED
        BY <4>2, <4>3
    <3> QED
      BY <3>1, <3>2
  <2>5. Raised(base, m + 1, u)
    BY <2>4 DEF Raised
  <2> HIDE DEF u
  <2> QED
    BY <2>3, <2>5
<1> HIDE DEF T
<1>3. Nat \subseteq T
  BY <1>1, <1>2, NatSetInduction
<1> QED
  BY <1>3 DEF T

LEMMA RaisedAgree ==
  ASSUME NEW base, NEW m \in Nat, NEW N \in Nat, m <= N,
         NEW h, Raised(base, m, h), NEW g, Raised(base, N, g)
  PROVE  \A k \in 0..m : h[k] = g[k]
<1> DEFINE T == {k \in Nat : k <= m => h[k] = g[k]}
<1>1. 0 \in T
  <2>1. 0 \in 0..m /\ 0 \in 0..N
    OBVIOUS
  <2>2. h[0] = 1
    BY <2>1 DEF Raised
  <2>3. g[0] = 1
    BY <2>1 DEF Raised
  <2> QED
    BY <2>2, <2>3
<1>2. ASSUME NEW k \in Nat, k \in T PROVE k + 1 \in T
  <2> SUFFICES ASSUME k + 1 <= m PROVE h[k + 1] = g[k + 1]
    OBVIOUS
  <2>1. k + 1 \in 0..m /\ k + 1 \in 0..N /\ k + 1 # 0 /\ (k + 1) - 1 = k
    OBVIOUS
  <2>2. h[k + 1] = base * h[k]
    BY <2>1 DEF Raised
  <2>3. g[k + 1] = base * g[k]
    BY <2>1 DEF Raised
  <2>4. h[k] = g[k]
    BY <1>2
  <2> QED
    BY <2>2, <2>3, <2>4
<1> HIDE DEF T
<1>3. Nat \subseteq T
  BY <1>1, <1>2, NatSetInduction
<1> QED
  BY <1>3 DEF T

\* power is what its name says.
LEMMA PowerIs ==
  ASSUME NEW base \in Int, NEW m \in Nat
  PROVE  /\ power(base, m) \in Int
         /\ power(base, 0) = 1
         /\ power(base, m + 1) = base * power(base, m)
<1>1. ASSUME NEW k \in Nat
      PROVE  \E h : Raised(base, k, h) /\ power(base, k) = h[k] /\ h[k] \in Int
  <2> DEFINE raised == CHOOSE h : Raised(base, k, h)
  <2>1. PICK h : Raised(base, k, h) /\ \A j \in 0..k : h[j] \in Int
    BY RaisedExists
  <2>2. Raised(base, k, raised)
    BY <2>1
  <2>3. power(base, k) = raised[k]
    BY DEF power, Raised
  <2> HIDE DEF raised
  <2>4. \A j \in 0..k : h[j] = raised[j]
    BY <2>1, <2>2, RaisedAgree
  <2>5. k \in 0..k
    OBVIOUS
  <2> QED
    BY <2>1, <2>3, <2>4, <2>5
<1>2. PICK h : Raised(base, m, h) /\ power(base, m) = h[m] /\ h[m] \in Int
  BY <1>1
<1>3. PICK g : Raised(base, m + 1, g) /\ power(base, m + 1) = g[m + 1]
  BY <1>1
<1>4. PICK f : Raised(base, 0, f) /\ power(base, 0) = f[0]
  BY <1>1
<1>5. h[m] = g[m]
  <2>1. m + 1 \in Nat /\ m <= m + 1 /\ m \in 0..m
    OBVIOUS
  <2>2. \A k \in 0..m : h[k] = g[k]
    BY <1>2, <1>3, <2>1, RaisedAgree
  <2> QED
    BY <2>1, <2>2
<1>6. m + 1 \in 0..m + 1 /\ m + 1 # 0 /\ (m + 1) - 1 = m /\ 0 \in 0..0
  OBVIOUS
<1>7. g[m + 1] = base * g[m]
  BY <1>3, <1>6 DEF Raised
<1>8. f[0] = 1
  BY <1>4, <1>6 DEF Raised
<1> QED
  BY <1>2, <1>3, <1>4, <1>5, <1>7, <1>8

\* What is left to the source, by both methods.
Left(v) == V * v.den - v.num

Fractions == [num : Int, den : Nat \ {0}]

\* On the run of the lecture, five volts and steps of three tau.
Exploding ==
    /\ steps \in 0..4 /\ vf.den = 1
    /\ vf.num = CASE steps = 0 -> 0 [] steps = 1 -> 15 [] steps = 2 -> -15
                  [] steps = 3 -> 45 [] steps = 4 -> -75

EulerInv ==
    /\ ratio[1] \in Nat \ {0} /\ ratio[2] \in Nat \ {0} /\ steps \in Nat
    /\ vb \in Fractions /\ vf \in Fractions
    /\ vb.num >= 0
    /\ power(ratio[2], steps) > 0
    /\ Left(vb) = V * power(ratio[2], steps)
    /\ steps = 0 => vf = [num |-> 0, den |-> 1]
    /\ ratio[1] <= 2 * ratio[2] => Left(vf) <= V * vf.den /\ -Left(vf) <= V * vf.den
    /\ ratio[1] > 2 * ratio[2] /\ steps > 0 => Left(vf) > V * vf.den \/ -Left(vf) > V * vf.den
    /\ ratio[1] = ratio[2] /\ steps > 0 => Left(vf) = 0
    /\ V = 5 /\ Span = 10 /\ ratio = <<3, 1>> => Exploding

LEMMA EulerStarts == EulerInit => EulerInv
<1> SUFFICES ASSUME EulerInit PROVE EulerInv
  OBVIOUS
<1>1. ratio[1] \in Nat \ {0} /\ ratio[2] \in Nat \ {0}
  BY EulerAssumption DEF EulerInit
<1>2. power(ratio[2], 0) = 1
  <2>1. ratio[2] \in Int /\ 0 \in Nat
    BY <1>1
  <2> QED
    BY <2>1, PowerIs
<1>3. V \in Nat \ {0}
  BY EulerAssumption
<1>4. vb = [num |-> 0, den |-> 1] /\ vf = [num |-> 0, den |-> 1] /\ steps = 0
  BY DEF EulerInit
<1>5. Left(vb) = V /\ Left(vf) = V
  BY <1>3, <1>4 DEF Left
<1> QED
  BY <1>1, <1>2, <1>3, <1>4, <1>5 DEF EulerInv, Fractions, Exploding

\* One step of forward Euler multiplies what is left by q - p, and the denominator by q.
LEMMA ForwardLeft ==
  ASSUME NEW v \in Fractions, NEW p \in Nat \ {0}, NEW q \in Nat \ {0}
  PROVE  /\ forward(v, p, q) \in Fractions
         /\ forward(v, p, q).den = v.den * q
         /\ Left(forward(v, p, q)) = Left(v) * (q - p)
<1>1. V \in Nat \ {0}
  BY EulerAssumption
<1>2. PICK a \in Int, d \in Nat \ {0} : v = [num |-> a, den |-> d]
  BY DEF Fractions
<1>3. forward(v, p, q) = [num |-> a * q + p * (V * d - a), den |-> d * q]
  BY <1>2 DEF forward
<1>4. a * q + p * (V * d - a) \in Int /\ d * q \in Nat \ {0}
  BY <1>1
<1>5. V * (d * q) - (a * q + p * (V * d - a)) = (V * d - a) * (q - p)
  BY <1>1
<1> QED
  BY <1>2, <1>3, <1>4, <1>5 DEF Fractions, Left

LEMMA BackwardLeft ==
  ASSUME NEW v \in Fractions, v.num >= 0, NEW p \in Nat \ {0}, NEW q \in Nat \ {0}
  PROVE  /\ backward(v, p, q) \in Fractions
         /\ backward(v, p, q).num >= 0
         /\ Left(backward(v, p, q)) = Left(v) * q
<1>1. V \in Nat \ {0}
  BY EulerAssumption
<1>2. PICK a \in Nat, d \in Nat \ {0} : v = [num |-> a, den |-> d]
  BY DEF Fractions
<1>3. backward(v, p, q) = [num |-> a * q + p * V * d, den |-> d * (q + p)]
  BY <1>2 DEF backward
<1>4. a * q + p * V * d \in Nat /\ d * (q + p) \in Nat \ {0}
  BY <1>1
<1>5. V * (d * (q + p)) - (a * q + p * V * d) = (V * d - a) * q
  BY <1>1
<1> QED
  BY <1>2, <1>3, <1>4, <1>5 DEF Fractions, Left

LEMMA Shrinks ==
  ASSUME NEW M \in Nat, NEW e \in Int, e <= M, -e <= M,
         NEW q \in Nat, NEW f \in Int, f <= q, -f <= q
  PROVE  e * f <= M * q /\ -(e * f) <= M * q
<1>1. PICK a \in Nat : a <= M /\ (e = a \/ e = -a)
  OBVIOUS
<1>2. PICK b \in Nat : b <= q /\ (f = b \/ f = -b)
  OBVIOUS
<1>3. e * f = a * b \/ e * f = -(a * b)
  BY <1>1, <1>2
<1>4. a * b <= M * b /\ M * b <= M * q /\ 0 <= a * b
  BY <1>1, <1>2
<1> QED
  BY <1>3, <1>4

LEMMA Grows ==
  ASSUME NEW M \in Nat \ {0}, NEW e \in Int, e >= M \/ -e >= M,
         NEW q \in Nat \ {0}, NEW f \in Int, -f > q
  PROVE  e * f > M * q \/ -(e * f) > M * q
<1>1. PICK a \in Nat : a >= M /\ (e = a \/ e = -a)
  OBVIOUS
<1>2. PICK b \in Nat : b > q /\ f = -b
  OBVIOUS
<1>3. e * f = a * b \/ e * f = -(a * b)
  BY <1>1, <1>2
<1>4. a * b >= M * b /\ M * b > M * q
  BY <1>1, <1>2
<1> QED
  BY <1>3, <1>4

LEMMA EulerKeeps == EulerInv /\ [EulerNext]_eulerVars => EulerInv'
<1> SUFFICES ASSUME EulerInv, [EulerNext]_eulerVars PROVE EulerInv'
  OBVIOUS
<1>1. CASE UNCHANGED eulerVars
  BY <1>1 DEF EulerInv, eulerVars, Exploding, Left
<1>2. CASE EulerNext
  <2> DEFINE p == ratio[1]
             q == ratio[2]
             M == V * vf.den
             e == Left(vf)
  <2>1. /\ p \in Nat \ {0} /\ q \in Nat \ {0} /\ V \in Nat \ {0} /\ ratio' = ratio
        /\ steps \in Nat /\ steps' = steps + 1
        /\ vb' = backward(vb, p, q) /\ vf' = forward(vf, p, q)
        /\ vf \in Fractions /\ vb \in Fractions /\ vb.num >= 0
    BY <1>2, EulerAssumption DEF EulerNext, EulerInv
  <2>2. vb' \in Fractions /\ vb'.num >= 0 /\ Left(vb)' = Left(vb) * q
    BY <2>1, BackwardLeft DEF Left
  <2>3. vf' \in Fractions /\ vf'.den = vf.den * q /\ Left(vf)' = e * (q - p)
    BY <2>1, ForwardLeft DEF Left
  <2>4. /\ power(q, steps) \in Int
        /\ power(q, steps') = q * power(q, steps)
    <3>1. q \in Int
      BY <2>1
    <3> QED
      BY <2>1, <3>1, PowerIs
  <2>5. power(q, steps) > 0 /\ Left(vb) = V * power(q, steps)
    BY DEF EulerInv
  <2>6. power(q, steps') > 0 /\ Left(vb)' = V * power(q, steps')
    <3> DEFINE w == power(q, steps)
    <3>1. w \in Nat \ {0} /\ Left(vb)' = (V * w) * q /\ power(q, steps') = q * w
      BY <2>2, <2>4, <2>5
    <3> HIDE DEF w
    <3>2. q * w > 0 /\ (V * w) * q = V * (q * w)
      BY <2>1, <3>1
    <3> QED
      BY <3>1, <3>2
  <2>7. e \in Int /\ M \in Nat \ {0} /\ V * vf'.den = M * q /\ vf.den \in Nat \ {0}
    <3>1. vf.den \in Nat \ {0} /\ vf.num \in Int
      BY <2>1 DEF Fractions
    <3>2. V * vf.den \in Nat \ {0} /\ V * (vf.den * q) = (V * vf.den) * q
      BY <2>1, <3>1
    <3> QED
      BY <2>1, <2>3, <3>1, <3>2 DEF Left
  <2> HIDE DEF M, e
  <2>8. p <= 2 * q => e * (q - p) <= M * q /\ -(e * (q - p)) <= M * q
    <3> SUFFICES ASSUME p <= 2 * q PROVE e * (q - p) <= M * q /\ -(e * (q - p)) <= M * q
      OBVIOUS
    <3>1. e <= M /\ -e <= M
      BY DEF EulerInv, M, e
    <3>2. q - p \in Int /\ q - p <= q /\ -(q - p) <= q
      BY <2>1
    <3> QED
      BY <2>1, <2>7, <3>1, <3>2, Shrinks
  <2>9. p > 2 * q => e * (q - p) > M * q \/ -(e * (q - p)) > M * q
    <3> SUFFICES ASSUME p > 2 * q PROVE e * (q - p) > M * q \/ -(e * (q - p)) > M * q
      OBVIOUS
    <3>1. CASE steps = 0
      <4>1. e = M
        BY <2>7, <3>1 DEF EulerInv, M, e, Left
      <4>2. q - p \in Int /\ -(q - p) > q
        BY <2>1
      <4> QED
        BY <2>1, <2>7, <4>1, <4>2, Grows
    <3>2. CASE steps > 0
      <4>1. e > M \/ -e > M
        BY <3>2 DEF EulerInv, M, e
      <4>2. q - p \in Int /\ -(q - p) > q
        BY <2>1
      <4> QED
        BY <2>1, <2>7, <4>1, <4>2, Grows
    <3> QED
      BY <2>1, <3>1, <3>2
  <2>10. p = q => e * (q - p) = 0
    BY <2>1, <2>7
  <2>11. V = 5 /\ Span = 10 /\ ratio = <<3, 1>> => Exploding'
    <3> SUFFICES ASSUME V = 5, Span = 10, ratio = <<3, 1>> PROVE Exploding'
      OBVIOUS
    <3>1. Exploding
      BY DEF EulerInv
    <3>2. p = 3 /\ q = 1 /\ steps * 3 < 10
      BY <1>2 DEF EulerNext, Charging
    <3>3. steps \in 0..3
      BY <2>1, <3>2
    <3>4. vf'.num = vf.num * 1 + 3 * (5 * vf.den - vf.num) /\ vf'.den = vf.den * 1
      BY <2>1, <3>2 DEF forward
    <3>5. vf.den = 1
      BY <3>1 DEF Exploding
    <3>6. CASE steps = 0
      BY <2>1, <3>1, <3>4, <3>5, <3>6 DEF Exploding
    <3>7. CASE steps = 1
      BY <2>1, <3>1, <3>4, <3>5, <3>7 DEF Exploding
    <3>8. CASE steps = 2
      BY <2>1, <3>1, <3>4, <3>5, <3>8 DEF Exploding
    <3>9. CASE steps = 3
      BY <2>1, <3>1, <3>4, <3>5, <3>9 DEF Exploding
    <3> QED
      BY <3>3, <3>6, <3>7, <3>8, <3>9
  <2>12. steps' # 0 /\ steps' \in Nat
    BY <2>1
  <2> QED
    BY <2>1, <2>2, <2>3, <2>6, <2>7, <2>8, <2>9, <2>10, <2>11, <2>12 DEF EulerInv
<1> QED
  BY <1>1, <1>2

LEMMA EulerIsStable == EulerInv => StepsAreStable
<1> SUFFICES ASSUME EulerInv PROVE StepsAreStable
  OBVIOUS
<1>1. /\ V \in Nat \ {0} /\ ratio[1] \in Nat \ {0} /\ ratio[2] \in Nat \ {0} /\ steps \in Nat
      /\ vb.num \in Int /\ vb.den \in Nat \ {0} /\ vf.num \in Int /\ vf.den \in Nat \ {0}
  BY EulerAssumption DEF EulerInv, Fractions
<1>2. power(ratio[2], steps) \in Int
  <2>1. ratio[2] \in Int /\ steps \in Nat
    BY <1>1
  <2> QED
    BY <2>1, PowerIs
<1>3. 0 <= vb.num /\ vb.num < V * vb.den /\ (V * vb.den - vb.num) = V * power(ratio[2], steps)
  <2>1. V * power(ratio[2], steps) > 0 /\ V * vb.den - vb.num = V * power(ratio[2], steps)
    BY <1>1, <1>2 DEF EulerInv, Left
  <2> QED
    BY <1>1, <1>2, <2>1 DEF EulerInv
<1>4. WithinTwice(vf) <=> Left(vf) <= V * vf.den /\ -Left(vf) <= V * vf.den
  <2> DEFINE M == V * vf.den
  <2>1. M \in Int /\ 2 * V * vf.den = 2 * M
    BY <1>1
  <2>2. Left(vf) = M - vf.num
    BY DEF Left
  <2> HIDE DEF M
  <2> QED
    BY <1>1, <2>1, <2>2 DEF WithinTwice, M
<1>5. /\ ratio[1] <= 2 * ratio[2] => WithinTwice(vf)
      /\ ratio[1] > 2 * ratio[2] /\ steps > 0 => ~WithinTwice(vf)
  <2>1. V * vf.den \in Int /\ Left(vf) \in Int
    BY <1>1 DEF Left
  <2> QED
    BY <1>4, <2>1 DEF EulerInv
<1>6. ratio[1] = ratio[2] /\ steps > 0 => Volts(vf, V)
  BY <1>1 DEF EulerInv, Left, Volts
<1>7. V = 5 /\ Span = 10 /\ ratio = <<3, 1>> /\ ~Charging(Span) => Volts(vf, -75)
  <2> SUFFICES ASSUME V = 5, Span = 10, ratio = <<3, 1>>, ~Charging(Span) PROVE Volts(vf, -75)
    OBVIOUS
  <2>1. Exploding
    BY DEF EulerInv
  <2>2. ~(steps * 3 < 10)
    BY DEF Charging
  <2>3. steps = 4
    BY <2>1, <2>2 DEF Exploding
  <2> QED
    BY <2>1, <2>3 DEF Exploding, Volts
<1> QED
  BY <1>3, <1>5, <1>6, <1>7 DEF StepsAreStable

\* Euler's steps, for any voltage and any step: backward Euler approaches the source and
\* stays below it; forward Euler stays within twice the source exactly if a step is no
\* longer than 2 tau; and the script's run at three tau ends at -75 V.
THEOREM StepsAreStableHolds == EulerSpec => []StepsAreStable
BY EulerStarts, EulerKeeps, EulerIsStable, PTL DEF EulerSpec
=============================================================================
