------------------------------ MODULE LabsProofs ------------------------------
(* Of the small programs: the limiter lets through what its rate allows, neither    *)
(* more nor less, for any keys, rates and times; the messages of shm_demo arrive      *)
(* once and in order, for any number of them and of runs; 020_dedupe_list keeps the   *)
(* first occurrences, for lists of any length; attempts of the practice runner are     *)
(* kept apart, for any terminals and cases; the hits of the caches of read_path_lab    *)
(* follow the reuse of keys, for any stream and capacity; 020_hash_table_demo finds the *)
(* keys it was given, for any hash function; and the peak of 014_fifo_sizing is exact,  *)
(* for any burst and timing.                                                            *)
EXTENDS MCLabs, FiniteSetTheorems, SequenceTheorems, TLAPS

(* Token bucket *)

\* The calls of a key in a sequence of calls, and which of the a-th to the b-th call it
\* had allowed.
Ours(cs, k) == {q \in 1..Len(cs) : cs[q].key = k}
Allowed(cs, k, a, b) == {q \in a..b : cs[q].ok /\ cs[q].key = k}
Taken(cs, k, a, b) == Cardinality(Allowed(cs, k, a, b))

\* What would be left at a time of a bucket that was full at the a-th call.
Room(cs, k, a, now) ==
    (Capacity + (Rate * (now - cs[a].now))) - (Token * Taken(cs, k, a, Len(cs)))

Call == [key : Key, now : Int, ok : BOOLEAN]

BucketTypes ==
    /\ calls \in Seq(Call)
    /\ bucket \in [DOMAIN bucket -> [tokens : Int, last : Int]]
    /\ \A k \in Key : k \in DOMAIN bucket <=> Ours(calls, k) # {}

\* A bucket holds the least that its key's calls leave.
LeastInv ==
    \A k \in DOMAIN bucket :
        /\ \A a \in Ours(calls, k) : bucket[k].tokens <= Room(calls, k, a, bucket[k].last)
        /\ \E a \in Ours(calls, k) : bucket[k].tokens = Room(calls, k, a, bucket[k].last)

BucketInv == BucketTypes /\ LeastInv /\ LimitIsExact

LEMMA TakenIsNat ==
  ASSUME NEW k, NEW a \in Nat, NEW b \in Nat
  PROVE  IsFiniteSet(Allowed(calls, k, a, b)) /\ Taken(calls, k, a, b) \in Nat
<1>1. IsFiniteSet(a..b) /\ Allowed(calls, k, a, b) \subseteq a..b
  BY FS_Interval DEF Allowed
<1> QED
  BY <1>1, FS_Subset, FS_CardinalityType DEF Taken

\* Time that passes adds the same to whatever is left.
LEMMA RoomGrows ==
  ASSUME BucketTypes, NEW k, NEW a \in Ours(calls, k), NEW x \in Int, NEW y \in Int
  PROVE  /\ Room(calls, k, a, x) \in Int
         /\ Room(calls, k, a, y) = Room(calls, k, a, x) + ((y - x) * Rate)
<1>1. a \in 1..Len(calls) /\ Len(calls) \in Nat /\ calls[a].now \in Int
  <2>1. a \in 1..Len(calls) /\ Len(calls) \in Nat
    BY DEF BucketTypes, Ours
  <2>2. calls[a] \in Call
    BY <2>1, ElementOfSeq DEF BucketTypes
  <2> QED
    BY <2>1, <2>2 DEF Call
<1>2. Taken(calls, k, a, Len(calls)) \in Nat
  BY <1>1, TakenIsNat
<1> DEFINE z == calls[a].now
           spent == Token * Taken(calls, k, a, Len(calls))
<1>3. spent \in Int /\ Capacity \in Int /\ Rate \in Int /\ z \in Int
  BY <1>1, <1>2, BucketAssumption
<1>4. /\ Room(calls, k, a, x) = (Capacity + (Rate * (x - z))) - spent
      /\ Room(calls, k, a, y) = (Capacity + (Rate * (y - z))) - spent
  BY DEF Room
<1> HIDE DEF z, spent
<1>5. Rate * (y - z) = (Rate * (x - z)) + ((y - x) * Rate)
  BY <1>3
<1> QED
  BY <1>3, <1>4, <1>5

\* The tokens the limiter finds when it is asked.
Found(key, now) == IF key \in DOMAIN bucket THEN Refilled(bucket[key], now) ELSE Capacity

\* They are the least of a full bucket and of what the key's calls leave.
LEMMA FoundIsLeast ==
  ASSUME BucketInv, NEW key \in Key, NEW now \in Int
  PROVE  /\ Found(key, now) \in Int
         /\ Found(key, now) <= Capacity
         /\ \A a \in Ours(calls, key) : Found(key, now) <= Room(calls, key, a, now)
         /\ \/ Found(key, now) = Capacity
            \/ \E a \in Ours(calls, key) : Found(key, now) = Room(calls, key, a, now)
<1> DEFINE b == bucket[key]
<1>1. CASE key \in DOMAIN bucket
  <2>1. b.tokens \in Int /\ b.last \in Int
    BY <1>1 DEF BucketInv, BucketTypes
  <2>2. Found(key, now) = Lesser(Capacity, b.tokens + ((now - b.last) * Rate))
    BY <1>1 DEF Found, Refilled
  <2>3. \A a \in Ours(calls, key) :
           /\ Room(calls, key, a, b.last) \in Int
           /\ Room(calls, key, a, now) = Room(calls, key, a, b.last) + ((now - b.last) * Rate)
    BY <2>1, RoomGrows DEF BucketInv
  <2>4. /\ \A a \in Ours(calls, key) : b.tokens <= Room(calls, key, a, b.last)
        /\ \E a \in Ours(calls, key) : b.tokens = Room(calls, key, a, b.last)
    BY <1>1 DEF BucketInv, LeastInv
  <2>5. Capacity \in Int /\ ((now - b.last) * Rate) \in Int
    BY <2>1, BucketAssumption
  <2> QED
    BY <2>1, <2>2, <2>3, <2>4, <2>5 DEF Lesser
<1>2. CASE key \notin DOMAIN bucket
  <2>1. Ours(calls, key) = {} /\ Found(key, now) = Capacity
    BY <1>2 DEF BucketInv, BucketTypes, Found
  <2> QED
    BY <2>1, BucketAssumption
<1> QED
  BY <1>1, <1>2

\* A call takes a token of its own bucket when it is allowed, and its bucket was full then.
LEMMA CallTakes ==
  ASSUME BucketTypes, NEW key \in Key, NEW now, now \in Int, Allow(key, now),
         NEW j, j = Len(calls) + 1,
         NEW ok \in BOOLEAN, ok <=> Found(key, now) >= Token
  PROVE  /\ j \in Nat /\ Len(calls') = j
         /\ calls'[j] = [key |-> key, now |-> now, ok |-> ok]
         /\ \A a \in 1..Len(calls) : calls'[a] = calls[a]
         /\ calls' \in Seq(Call)
         /\ \A k : Ours(calls', k) = IF k = key THEN Ours(calls, k) \cup {j} ELSE Ours(calls, k)
         /\ \A k : \A a \in Ours(calls, k), x \in Int :
               Room(calls', k, a, x) = IF k = key /\ ok THEN Room(calls, k, a, x) - Token
                                                        ELSE Room(calls, k, a, x)
         /\ ok => Room(calls', key, j, now) = Capacity - Token
         /\ ~ok => Room(calls', key, j, now) = Capacity
<1> DEFINE call == [key |-> key, now |-> now, ok |-> ok]
<1>1. calls' = Append(calls, call)
  BY DEF Allow, Found
<1>2. calls \in Seq(Call) /\ Len(calls) \in Nat
  BY DEF BucketTypes
<1>3. call \in Call
  BY DEF Call
<1>4. /\ j \in Nat /\ Len(calls') = j /\ calls'[j] = call
      /\ \A a \in 1..Len(calls) : calls'[a] = calls[a]
      /\ calls' \in Seq(Call)
  BY <1>1, <1>2, <1>3
<1>5. call.key = key /\ call.ok = ok /\ call.now = now
  OBVIOUS
<1> HIDE DEF call
<1>6. \A k : Ours(calls', k) = IF k = key THEN Ours(calls, k) \cup {j} ELSE Ours(calls, k)
  BY <1>2, <1>4, <1>5 DEF Ours
<1>7. ASSUME NEW k, NEW a \in 1..j, NEW old,
             old = {q \in a..Len(calls) : calls[q].ok /\ calls[q].key = k},
             IsFiniteSet(old), Cardinality(old) \in Nat
      PROVE  Taken(calls', k, a, Len(calls')) =
                IF k = key /\ ok THEN Cardinality(old) + 1 ELSE Cardinality(old)
  <2>1. a \in Nat /\ \A q \in a..Len(calls) : q \in 1..Len(calls) /\ q # j
    BY <1>2
  <2>2. j \notin old /\ a..j = (a..Len(calls)) \cup {j}
    BY <1>2, <1>7, <2>1
  <2>3. Taken(calls', k, a, Len(calls')) = Cardinality({q \in a..j : calls'[q].ok /\ calls'[q].key = k})
    BY <1>4 DEF Taken, Allowed
  <2>4. CASE k = key /\ ok
    <3>1. {q \in a..j : calls'[q].ok /\ calls'[q].key = k} = old \cup {j}
      BY <1>4, <1>5, <1>7, <2>1, <2>2, <2>4
    <3>2. Cardinality(old \cup {j}) = Cardinality(old) + 1
      BY <1>7, <2>2, FS_AddElement
    <3> QED
      BY <2>3, <2>4, <3>1, <3>2
  <2>5. CASE ~(k = key /\ ok)
    <3>1. {q \in a..j : calls'[q].ok /\ calls'[q].key = k} = old
      BY <1>4, <1>5, <1>7, <2>1, <2>2, <2>5
    <3> QED
      BY <2>3, <2>5, <3>1
  <2> QED
    BY <2>4, <2>5
<1>8. ASSUME NEW k, NEW a \in Ours(calls, k), NEW x \in Int
      PROVE  Room(calls', k, a, x) = IF k = key /\ ok THEN Room(calls, k, a, x) - Token
                                                      ELSE Room(calls, k, a, x)
  <2>1. a \in 1..Len(calls) /\ a \in 1..j /\ a \in Nat
    BY <1>2 DEF Ours
  <2> DEFINE c == Capacity + (Rate * (x - calls[a].now))
             m == Taken(calls, k, a, Len(calls))
  <2>2. /\ m \in Nat
        /\ Taken(calls', k, a, Len(calls')) = IF k = key /\ ok THEN m + 1 ELSE m
    <3> DEFINE old == Allowed(calls, k, a, Len(calls))
    <3>1. /\ old = {q \in a..Len(calls) : calls[q].ok /\ calls[q].key = k}
          /\ m = Cardinality(old)
      BY DEF Taken, Allowed
    <3>2. IsFiniteSet(old) /\ m \in Nat
      BY <1>2, <2>1, TakenIsNat
    <3> HIDE DEF old, m
    <3> QED
      BY <1>7, <2>1, <3>1, <3>2
  <2>3. c \in Int
    <3>1. calls[a] \in Call
      BY <1>2, <2>1, ElementOfSeq
    <3> QED
      BY <3>1, BucketAssumption DEF Call
  <2>4. Room(calls, k, a, x) = c - (Token * m)
    BY DEF Room
  <2>5. Room(calls', k, a, x) = c - (Token * Taken(calls', k, a, Len(calls')))
    BY <1>4, <2>1 DEF Room
  <2> HIDE DEF c, m
  <2>6. Token * (m + 1) = (Token * m) + Token /\ Token * m \in Int /\ Token \in Int
    BY <2>2, BucketAssumption
  <2>7. CASE k = key /\ ok
    BY <2>2, <2>3, <2>4, <2>5, <2>6, <2>7
  <2>8. CASE ~(k = key /\ ok)
    BY <2>2, <2>4, <2>5, <2>8
  <2> QED
    BY <2>7, <2>8
<1>9. Room(calls', key, j, now) = IF ok THEN Capacity - Token ELSE Capacity
  <2>1. j \in 1..j /\ {q \in j..Len(calls) : calls[q].ok /\ calls[q].key = key} = {}
    BY <1>2
  <2>2. Taken(calls', key, j, Len(calls')) = IF ok THEN 0 + 1 ELSE 0
    BY <1>7, <2>1, FS_EmptySet
  <2>3. Room(calls', key, j, now) =
           (Capacity + (Rate * (now - now))) - (Token * Taken(calls', key, j, Len(calls')))
    BY <1>4, <1>5 DEF Room
  <2>4. Token * 0 = 0 /\ Token * 1 = Token /\ 0 + 1 = 1 /\ Rate * (now - now) = 0
    BY BucketAssumption
  <2>5. Token \in Int /\ Capacity \in Int
    BY BucketAssumption
  <2> QED
    BY <2>2, <2>3, <2>4, <2>5
<1> QED
  BY <1>4, <1>6, <1>8, <1>9 DEF call

\* Earlier calls are judged as they were, and this one by what the limiter found.
LEMMA CallKeepsLimit ==
  ASSUME BucketInv, NEW key \in Key, NEW now \in Int, Allow(key, now)
  PROVE  LimitIsExact'
<1>0. PICK j : j = Len(calls) + 1
  OBVIOUS
<1>1. PICK ok \in BOOLEAN : ok <=> Found(key, now) >= Token
  OBVIOUS
<1>2. BucketTypes /\ Len(calls) \in Nat /\ Token \in Int
  BY BucketAssumption DEF BucketInv, BucketTypes
<1>3. /\ j \in Nat /\ Len(calls') = j
      /\ calls'[j] = [key |-> key, now |-> now, ok |-> ok]
      /\ \A a \in 1..Len(calls) : calls'[a] = calls[a]
      /\ Ours(calls', key) = Ours(calls, key) \cup {j}
  BY <1>0, <1>1, <1>2, CallTakes
<1>4. ASSUME NEW b \in 1..Len(calls)
      PROVE  calls'[b].ok <=>
               \A a \in {q \in 1..b : calls'[q].key = calls'[b].key} :
                  Spent(a, b)' + Token <= Capacity + Rate * (calls'[b].now - calls'[a].now)
  <2>1. \A a \in 1..b : a \in 1..Len(calls) /\ calls'[a] = calls[a]
    BY <1>2, <1>3
  <2>2. ASSUME NEW a \in 1..b PROVE Spent(a, b)' = Spent(a, b)
    <3>1. \A q \in a..b - 1 : q \in 1..b
      BY <1>2
    <3>2. b \in 1..b
      BY <1>2
    <3>3. {q \in a..b - 1 : calls'[q].ok /\ calls'[q].key = calls'[b].key}
             = {q \in a..b - 1 : calls[q].ok /\ calls[q].key = calls[b].key}
      BY <2>1, <3>1, <3>2
    <3> QED
      BY <3>3 DEF Spent
  <2>3. {q \in 1..b : calls'[q].key = calls'[b].key} = {q \in 1..b : calls[q].key = calls[b].key}
    BY <2>1
  <2>4. calls[b].ok <=>
           \A a \in {q \in 1..b : calls[q].key = calls[b].key} :
              Spent(a, b) + Token <= Capacity + Rate * (calls[b].now - calls[a].now)
    BY DEF BucketInv, LimitIsExact
  <2>5. b \in 1..b
    BY <1>2
  <2> QED
    BY <2>1, <2>2, <2>3, <2>4, <2>5
<1>5. calls'[j].ok <=>
         \A a \in {q \in 1..j : calls'[q].key = calls'[j].key} :
            Spent(a, j)' + Token <= Capacity + Rate * (calls'[j].now - calls'[a].now)
  <2>1. calls'[j].ok = ok /\ calls'[j].key = key /\ calls'[j].now = now
    BY <1>3
  <2>2. {q \in 1..j : calls'[q].key = calls'[j].key} = Ours(calls, key) \cup {j}
    BY <1>3, <2>1 DEF Ours
  <2>3. ASSUME NEW a \in Ours(calls, key)
        PROVE  (Spent(a, j)' + Token <= Capacity + Rate * (calls'[j].now - calls'[a].now))
                  <=> Token <= Room(calls, key, a, now)
    <3>1. a \in 1..Len(calls) /\ a \in Nat /\ calls'[a] = calls[a] /\ calls[a] \in Call
      BY <1>2, <1>3, ElementOfSeq DEF Ours, BucketTypes
    <3> DEFINE c == Capacity + (Rate * (now - calls[a].now))
               spent == Token * Taken(calls, key, a, Len(calls))
    <3>2. c \in Int /\ spent \in Int
      <4>1. Taken(calls, key, a, Len(calls)) \in Nat
        BY <1>2, <3>1, TakenIsNat
      <4> QED
        BY <3>1, <4>1, BucketAssumption DEF Call
    <3>3. Spent(a, j)' = spent
      <4>1. j - 1 = Len(calls) /\ \A q \in a..j - 1 : q \in 1..Len(calls)
        BY <1>0, <1>2, <3>1
      <4>2. {q \in a..j - 1 : calls'[q].ok /\ calls'[q].key = calls'[j].key}
               = Allowed(calls, key, a, Len(calls))
        BY <1>3, <2>1, <4>1 DEF Allowed
      <4> QED
        BY <4>2 DEF Spent, Taken
    <3>4. Room(calls, key, a, now) = c - spent
      BY DEF Room
    <3>5. Capacity + Rate * (calls'[j].now - calls'[a].now) = c
      BY <2>1, <3>1
    <3> HIDE DEF c, spent
    <3> QED
      BY <1>2, <3>2, <3>3, <3>4, <3>5
  <2>4. (Spent(j, j)' + Token <= Capacity + Rate * (calls'[j].now - calls'[j].now))
           <=> Token <= Capacity
    <3>1. j..j - 1 = {} /\ {q \in j..j - 1 : calls'[q].ok /\ calls'[q].key = calls'[j].key} = {}
      BY <1>3
    <3>2. Spent(j, j)' = Token * 0
      BY <3>1, FS_EmptySet DEF Spent
    <3>3. Rate * (now - now) = 0 /\ Token * 0 = 0
      BY BucketAssumption
    <3> QED
      BY <2>1, <3>2, <3>3, BucketAssumption
  <2>5. /\ Found(key, now) \in Int
        /\ Found(key, now) <= Capacity
        /\ \A a \in Ours(calls, key) : Found(key, now) <= Room(calls, key, a, now)
        /\ \/ Found(key, now) = Capacity
           \/ \E a \in Ours(calls, key) : Found(key, now) = Room(calls, key, a, now)
    BY FoundIsLeast
  <2>6. \A a \in Ours(calls, key) : Room(calls, key, a, now) \in Int
    BY <1>2, RoomGrows
  <2>7. ok <=> Token <= Capacity /\ \A a \in Ours(calls, key) : Token <= Room(calls, key, a, now)
    BY <1>1, <1>2, <2>5, <2>6, BucketAssumption
  <2> QED
    BY <2>1, <2>2, <2>3, <2>4, <2>7
<1>6. 1..Len(calls') = 1..Len(calls) \cup {j}
  BY <1>0, <1>2, <1>3
<1>7. ASSUME NEW b \in 1..Len(calls')
      PROVE  calls'[b].ok <=>
               \A a \in {q \in 1..b : calls'[q].key = calls'[b].key} :
                  Spent(a, b)' + Token <= Capacity + Rate * (calls'[b].now - calls'[a].now)
  BY <1>4, <1>5, <1>6
<1> QED
  BY <1>7 DEF LimitIsExact, Spent

\* The bucket that was asked holds the least again, the other buckets what they rest.
LEMMA CallKeepsBuckets ==
  ASSUME BucketInv, NEW key \in Key, NEW now \in Int, Allow(key, now)
  PROVE  BucketTypes' /\ LeastInv'
<1>0. PICK j : j = Len(calls) + 1
  OBVIOUS
<1>types. BucketTypes
  BY DEF BucketInv
<1>1. PICK ok \in BOOLEAN : ok <=> Found(key, now) >= Token
  OBVIOUS
<1>2. BucketTypes /\ Token \in Int /\ Capacity \in Int /\ Rate \in Int
  BY BucketAssumption DEF BucketInv
<1>3. /\ j \in Nat
      /\ calls' \in Seq(Call)
      /\ \A k : Ours(calls', k) = IF k = key THEN Ours(calls, k) \cup {j} ELSE Ours(calls, k)
      /\ \A k : \A a \in Ours(calls, k), x \in Int :
            Room(calls', k, a, x) = IF k = key /\ ok THEN Room(calls, k, a, x) - Token
                                                     ELSE Room(calls, k, a, x)
      /\ ok => Room(calls', key, j, now) = Capacity - Token
      /\ ~ok => Room(calls', key, j, now) = Capacity
  <2>1. j \in Nat /\ calls' \in Seq(Call)
    BY <1>0, <1>1, <1>types, CallTakes
  <2>2. \A k : Ours(calls', k) = IF k = key THEN Ours(calls, k) \cup {j} ELSE Ours(calls, k)
    BY <1>0, <1>1, <1>types, CallTakes
  <2>3. \A k : \A a \in Ours(calls, k), x \in Int :
           Room(calls', k, a, x) = IF k = key /\ ok THEN Room(calls, k, a, x) - Token
                                                    ELSE Room(calls, k, a, x)
    BY <1>0, <1>1, <1>types, CallTakes
  <2>4. /\ calls'[j] = [key |-> key, now |-> now, ok |-> ok]
        /\ ok => Room(calls', key, j, now) = Capacity - Token
        /\ ~ok => Room(calls', key, j, now) = Capacity
    BY <1>0, <1>1, <1>types, CallTakes
  <2> QED
    BY <2>1, <2>2, <2>3, <2>4
<1> DEFINE t == Found(key, now)
<1>4. /\ t \in Int /\ t <= Capacity
      /\ \A a \in Ours(calls, key) : t <= Room(calls, key, a, now)
      /\ t = Capacity \/ \E a \in Ours(calls, key) : t = Room(calls, key, a, now)
  BY FoundIsLeast
<1> DEFINE rest == IF ok THEN t - Token ELSE t
<1>5. bucket' = [k \in DOMAIN bucket \cup {key} |->
                    IF k = key THEN [tokens |-> rest, last |-> now] ELSE bucket[k]]
  BY <1>1 DEF Allow, Found
<1>6. rest \in Int
  BY <1>2, <1>4
<1> HIDE DEF rest, t
<1>7. /\ DOMAIN bucket' = DOMAIN bucket \cup {key}
      /\ bucket'[key].tokens = rest /\ bucket'[key].last = now
      /\ bucket'[key] \in [tokens : Int, last : Int]
      /\ \A k \in DOMAIN bucket \ {key} : bucket'[k] = bucket[k]
  BY <1>5, <1>6
<1>8. BucketTypes'
  <2>1. bucket' \in [DOMAIN bucket' -> [tokens : Int, last : Int]]
    BY <1>2, <1>5, <1>7 DEF BucketTypes
  <2>2. \A k \in Key : k \in DOMAIN bucket' <=> Ours(calls', k) # {}
    BY <1>2, <1>3, <1>7 DEF BucketTypes
  <2> QED
    BY <1>3, <2>1, <2>2 DEF BucketTypes
<1>9. /\ \A a \in Ours(calls', key) : rest <= Room(calls', key, a, now)
      /\ \E a \in Ours(calls', key) : rest = Room(calls', key, a, now)
  <2>1. Ours(calls', key) = Ours(calls, key) \cup {j}
    BY <1>3
  <2>2. Room(calls', key, j, now) = IF ok THEN Capacity - Token ELSE Capacity
    BY <1>3
  <2>3. \A a \in Ours(calls, key) : /\ Room(calls, key, a, now) \in Int
                             /\ Room(calls', key, a, now) = IF ok THEN Room(calls, key, a, now) - Token
                                                           ELSE Room(calls, key, a, now)
    BY <1>2, <1>3, RoomGrows
  <2>4. \A a \in Ours(calls', key) : rest <= Room(calls', key, a, now)
    <3>1. ASSUME NEW a \in Ours(calls, key) PROVE rest <= Room(calls', key, a, now)
      BY <1>2, <1>4, <2>3, <3>1 DEF rest
    <3>2. rest <= Room(calls', key, j, now)
      BY <1>2, <1>4, <2>2 DEF rest
    <3> QED
      BY <2>1, <3>1, <3>2
  <2>5. \E a \in Ours(calls', key) : rest = Room(calls', key, a, now)
    <3>1. CASE t = Capacity
      <4>1. rest = Room(calls', key, j, now)
        BY <2>2, <3>1 DEF rest
      <4> QED
        BY <2>1, <4>1
    <3>2. CASE \E a \in Ours(calls, key) : t = Room(calls, key, a, now)
      <4>1. PICK a \in Ours(calls, key) : t = Room(calls, key, a, now)
        BY <3>2
      <4>2. rest = Room(calls', key, a, now)
        BY <2>3, <4>1 DEF rest
      <4> QED
        BY <2>1, <4>2
    <3> QED
      BY <1>4, <3>1, <3>2
  <2> QED
    BY <2>4, <2>5
<1>10. LeastInv'
  <2>1. ASSUME NEW k \in DOMAIN bucket', k # key
        PROVE  /\ \A a \in Ours(calls', k) : bucket'[k].tokens <= Room(calls', k, a, bucket'[k].last)
               /\ \E a \in Ours(calls', k) : bucket'[k].tokens = Room(calls', k, a, bucket'[k].last)
    <3>1. k \in DOMAIN bucket /\ bucket'[k] = bucket[k] /\ Ours(calls', k) = Ours(calls, k)
      BY <1>3, <1>7, <2>1
    <3>2. bucket[k].last \in Int
      BY <1>2, <3>1 DEF BucketTypes
    <3>3. PICK x \in Int : x = bucket[k].last
      BY <3>2
    <3>4. \A a \in Ours(calls, k) : Room(calls', k, a, x) = Room(calls, k, a, x)
      BY <1>3, <2>1
    <3>5. /\ \A a \in Ours(calls, k) : bucket[k].tokens <= Room(calls, k, a, x)
          /\ \E a \in Ours(calls, k) : bucket[k].tokens = Room(calls, k, a, x)
      BY <3>1, <3>3 DEF BucketInv, LeastInv
    <3>6. \A a : Room(calls', k, a, bucket'[k].last) = Room(calls', k, a, x)
      BY <3>1, <3>3 DEF Room
    <3> QED
      BY <3>1, <3>3, <3>4, <3>5, <3>6
  <2>2. ASSUME NEW k \in DOMAIN bucket', k = key
        PROVE  /\ \A a \in Ours(calls', k) : bucket'[k].tokens <= Room(calls', k, a, bucket'[k].last)
               /\ \E a \in Ours(calls', k) : bucket'[k].tokens = Room(calls', k, a, bucket'[k].last)
    <3>1. \A a : Room(calls', k, a, bucket'[k].last) = Room(calls', k, a, now)
      BY <1>7, <2>2 DEF Room
    <3> QED
      BY <1>7, <1>9, <2>2, <3>1
  <2> QED
    BY <2>1, <2>2 DEF LeastInv
<1> QED
  BY <1>8, <1>10

LEMMA BucketNextKeeps == BucketInv /\ [BucketNext]_bucketVars => BucketInv'
<1> SUFFICES ASSUME BucketInv, [BucketNext]_bucketVars PROVE BucketInv'
  OBVIOUS
<1>1. ASSUME NEW key \in Key, NEW now \in 0..MaxTime, Allow(key, now) PROVE BucketInv'
  <2>1. now \in Int
    BY BucketAssumption
  <2> QED
    BY <1>1, <2>1, CallKeepsLimit, CallKeepsBuckets DEF BucketInv
<1>2. CASE UNCHANGED bucketVars
  <2>1. bucket' = bucket /\ calls' = calls
    BY <1>2 DEF bucketVars
  <2>2. BucketTypes'
    BY <2>1 DEF BucketInv, BucketTypes, Ours
  <2>3. LeastInv'
    <3>1. LeastInv
      BY DEF BucketInv
    <3> QED
      BY <2>1, <3>1 DEF LeastInv
  <2>4. LimitIsExact'
    BY <2>1 DEF BucketInv, LimitIsExact, Spent
  <2> QED
    BY <2>2, <2>3, <2>4 DEF BucketInv
<1> QED
  BY <1>1, <1>2 DEF BucketNext

LEMMA BucketStarts == BucketInit => BucketInv
  BY DEF BucketInit, BucketInv, BucketTypes, LeastInv, LimitIsExact, Ours

\* A request passes exactly when no stretch of its key's requests that ends with it takes
\* more than a full bucket and what flows in meanwhile (TokenBucket, RateLimiter.allow): for
\* any keys, capacity, rate and times, the clock jumping forth and back.
THEOREM LimitIsExactHolds == Spec => []LimitIsExact
<1>1. Init => BucketInv
  BY BucketStarts DEF Init
<1>2. BucketInv /\ [Next]_vars => BucketInv'
  <2>1. [Next]_vars => [BucketNext]_bucketVars
    BY DEF Next, vars
  <2> QED
    BY <2>1, BucketNextKeeps
<1>3. BucketInv => LimitIsExact
  BY DEF BucketInv
<1> QED
  BY <1>1, <1>2, <1>3, PTL DEF Spec

-------------------------------------------------------------------------------
(* Shared-memory demo *)

WriterPlaces == {"ended", "section", "objects", "lock", "sequence", "text", "unlock", "signal",
                 "ack", "close", "closing"}
ReaderPlaces == {"ended", "section", "objects", "ready", "lock", "print", "unlock", "signal",
                 "close", "closing"}

Text == Nat \X Nat
Block == [sequence : Nat, text : Text]

DemoTypes ==
    /\ pc \in [Demo!Role -> WriterPlaces \cup ReaderPlaces]
    /\ pc["writer"] \in WriterPlaces /\ pc["reader"] \in ReaderPlaces
    /\ i \in [Demo!Role -> Nat] /\ runs \in [Demo!Role -> Nat]
    /\ block \in Block
    /\ written \in Seq(Text) /\ printed \in Seq(Block)

\* What a process has open where it is, and who owns the mutex.
HandlesInv ==
    /\ \A r \in Demo!Role : /\ r \in mapped <=> pc[r] \notin {"ended", "section", "closing"}
                            /\ r \in opened <=> pc[r] \notin {"ended", "section", "objects"}
    /\ lock = "writer" <=> pc["writer"] \in {"sequence", "text", "unlock"}
    /\ lock = "reader" <=> pc["reader"] \in {"print", "unlock"}

\* The block is torn only between the two halves of a write.
WholeInv ==
    /\ pc["writer"] = "text" => block.sequence = i["writer"]
    /\ ~cut => /\ Demo!Whole(block) \/ pc["writer"] = "text"
               /\ \A m \in 1..Len(printed) : Demo!Whole(printed[m])

\* Outside a round of the writer, and of the reader.
WriterIdle == pc["writer"] \in WriterPlaces \ {"unlock", "signal", "ack"}
ReaderIdle == pc["reader"] \in {"ended", "section", "objects", "ready", "close", "closing"}

\* The phases of a round: the writer writes, announces it and waits, the reader takes the
\* lock, prints and answers.
RoundInv ==
    \/ ~ready /\ ~ack /\ WriterIdle /\ ReaderIdle /\ Len(written) = Len(printed)
    \/ ~ready /\ ~ack /\ pc["writer"] \in {"unlock", "signal"} /\ ReaderIdle
       /\ Len(written) = Len(printed) + 1
    \/ ready /\ ~ack /\ pc["writer"] = "ack" /\ ReaderIdle /\ Len(written) = Len(printed) + 1
    \/ ~ready /\ ~ack /\ pc["writer"] = "ack" /\ pc["reader"] \in {"lock", "print"}
       /\ Len(written) = Len(printed) + 1
    \/ ~ready /\ ~ack /\ pc["writer"] = "ack" /\ pc["reader"] \in {"unlock", "signal"}
       /\ Len(written) = Len(printed)
    \/ ~ready /\ ack /\ pc["writer"] = "ack" /\ ReaderIdle /\ Len(written) = Len(printed)

\* What was printed is what was written, and what is yet to be printed is in the block.
OrderInv ==
    /\ \A m \in 1..Len(printed) : printed[m].text = written[m]
    /\ Len(written) = Len(printed) + 1 => block.text = written[Len(written)]

DemoInv == DemoTypes /\ HandlesInv /\ WholeInv /\ (~killed => RoundInv /\ OrderInv)

\* Every step keeps the types.
LEMMA DemoKeepsTypes ==
  ASSUME DemoTypes, Demo!DemoNext
  PROVE  DemoTypes'
<1> USE DEF DemoTypes, WriterPlaces, ReaderPlaces, Text, Block, Demo!EmptyBlock, Demo!NoText, Demo!Goes, Demo!First, Demo!objects, Demo!history, Demo!Role
<1>1. ASSUME NEW r \in Demo!Role, Demo!Run(r) PROVE DemoTypes'
  BY <1>1 DEF Demo!Run
<1>2. ASSUME NEW r \in Demo!Role, Demo!MapSection(r) PROVE DemoTypes'
  BY <1>2 DEF Demo!MapSection
<1>3. ASSUME NEW r \in Demo!Role, Demo!OpenObjects(r) PROVE DemoTypes'
  BY <1>3 DEF Demo!OpenObjects
<1>4. ASSUME NEW r \in Demo!Role, Demo!WaitForLock(r) PROVE DemoTypes'
  BY <1>4 DEF Demo!WaitForLock
<1>5. ASSUME NEW r \in Demo!Role, Demo!ReleaseMutex(r) PROVE DemoTypes'
  BY <1>5 DEF Demo!ReleaseMutex
<1>6. ASSUME NEW r \in Demo!Role, Demo!CloseSection(r) PROVE DemoTypes'
  BY <1>6 DEF Demo!CloseSection
<1>7. ASSUME NEW r \in Demo!Role, Demo!CloseObjects(r) PROVE DemoTypes'
  BY <1>7 DEF Demo!CloseObjects
<1>8. ASSUME NEW r \in Demo!Role, Demo!Kill(r) PROVE DemoTypes'
  BY <1>8 DEF Demo!Kill
<1>9. CASE Demo!WriteSequence
  BY <1>9 DEF Demo!WriteSequence
<1>10. CASE Demo!WriteText
  <2> DEFINE text == <<i["writer"], runs["writer"]>>
  <2>1. text \in Text
    OBVIOUS
  <2>2. block' = [block EXCEPT !.text = text] /\ written' = Append(written, text)
    BY <1>10 DEF Demo!WriteText
  <2>3. written' \in Seq(Text) /\ block' \in Block
    <3> HIDE DEF text, Text
    <3> QED
      BY <2>1, <2>2
  <2> QED
    BY <1>10, <2>3 DEF Demo!WriteText
<1>11. CASE Demo!SetReady
  BY <1>11 DEF Demo!SetReady
<1>12. CASE Demo!WaitForAck
  BY <1>12 DEF Demo!WaitForAck, Demo!Round
<1>13. CASE Demo!WaitForReady
  BY <1>13 DEF Demo!WaitForReady
<1>14. CASE Demo!PrintBlock
  BY <1>14 DEF Demo!PrintBlock
<1>15. CASE Demo!SetAck
  BY <1>15 DEF Demo!SetAck, Demo!Round
<1> QED
  BY <1>1, <1>2, <1>3, <1>4, <1>5, <1>6, <1>7, <1>8,
     <1>9, <1>10, <1>11, <1>12, <1>13, <1>14, <1>15
     DEF Demo!DemoNext, Demo!WriterStep, Demo!ReaderStep, Demo!CommonStep

\* A process has open what its place says, and owns the mutex where it says so.
LEMMA DemoKeepsHandles ==
  ASSUME DemoTypes, HandlesInv, Demo!DemoNext
  PROVE  HandlesInv'
<1> USE DEF DemoTypes, HandlesInv, WriterPlaces, ReaderPlaces, Demo!Nobody, Demo!Goes, Demo!First, Demo!objects, Demo!history, Demo!Role
<1>1. ASSUME NEW r \in Demo!Role, Demo!Run(r) PROVE HandlesInv'
  BY <1>1 DEF Demo!Run
<1>2. ASSUME NEW r \in Demo!Role, Demo!MapSection(r) PROVE HandlesInv'
  BY <1>2 DEF Demo!MapSection
<1>3. ASSUME NEW r \in Demo!Role, Demo!OpenObjects(r) PROVE HandlesInv'
  BY <1>3 DEF Demo!OpenObjects
<1>4. ASSUME NEW r \in Demo!Role, Demo!WaitForLock(r) PROVE HandlesInv'
  BY <1>4 DEF Demo!WaitForLock
<1>5. ASSUME NEW r \in Demo!Role, Demo!ReleaseMutex(r) PROVE HandlesInv'
  BY <1>5 DEF Demo!ReleaseMutex
<1>6. ASSUME NEW r \in Demo!Role, Demo!CloseSection(r) PROVE HandlesInv'
  BY <1>6 DEF Demo!CloseSection
<1>7. ASSUME NEW r \in Demo!Role, Demo!CloseObjects(r) PROVE HandlesInv'
  BY <1>7 DEF Demo!CloseObjects
<1>8. ASSUME NEW r \in Demo!Role, Demo!Kill(r) PROVE HandlesInv'
  BY <1>8 DEF Demo!Kill
<1>9. CASE Demo!WriteSequence
  BY <1>9 DEF Demo!WriteSequence
<1>10. CASE Demo!WriteText
  BY <1>10 DEF Demo!WriteText
<1>11. CASE Demo!SetReady
  BY <1>11 DEF Demo!SetReady
<1>12. CASE Demo!WaitForAck
  BY <1>12 DEF Demo!WaitForAck, Demo!Round
<1>13. CASE Demo!WaitForReady
  BY <1>13 DEF Demo!WaitForReady
<1>14. CASE Demo!PrintBlock
  BY <1>14 DEF Demo!PrintBlock
<1>15. CASE Demo!SetAck
  BY <1>15 DEF Demo!SetAck, Demo!Round
<1> QED
  BY <1>1, <1>2, <1>3, <1>4, <1>5, <1>6, <1>7, <1>8,
     <1>9, <1>10, <1>11, <1>12, <1>13, <1>14, <1>15
     DEF Demo!DemoNext, Demo!WriterStep, Demo!ReaderStep, Demo!CommonStep

\* A torn block is completed under the lock before a reader sees it, unless its writer is
\* killed.
LEMMA DemoKeepsWhole ==
  ASSUME DemoTypes, HandlesInv, WholeInv, Demo!DemoNext
  PROVE  WholeInv'
<1> USE DEF DemoTypes, HandlesInv, WholeInv, WriterPlaces, ReaderPlaces, Text, Block,
           Demo!EmptyBlock, Demo!NoText, Demo!Whole, Demo!Goes, Demo!First, Demo!objects, Demo!history, Demo!Role
<1>1. ASSUME NEW r \in Demo!Role, Demo!Run(r) PROVE WholeInv'
  BY <1>1 DEF Demo!Run
<1>2. ASSUME NEW r \in Demo!Role, Demo!MapSection(r) PROVE WholeInv'
  BY <1>2 DEF Demo!MapSection
<1>3. ASSUME NEW r \in Demo!Role, Demo!OpenObjects(r) PROVE WholeInv'
  BY <1>3 DEF Demo!OpenObjects
<1>4. ASSUME NEW r \in Demo!Role, Demo!WaitForLock(r) PROVE WholeInv'
  BY <1>4 DEF Demo!WaitForLock
<1>5. ASSUME NEW r \in Demo!Role, Demo!ReleaseMutex(r) PROVE WholeInv'
  BY <1>5 DEF Demo!ReleaseMutex
<1>6. ASSUME NEW r \in Demo!Role, Demo!CloseSection(r) PROVE WholeInv'
  BY <1>6 DEF Demo!CloseSection
<1>7. ASSUME NEW r \in Demo!Role, Demo!CloseObjects(r) PROVE WholeInv'
  BY <1>7 DEF Demo!CloseObjects
<1>8. ASSUME NEW r \in Demo!Role, Demo!Kill(r) PROVE WholeInv'
  BY <1>8 DEF Demo!Kill
<1>9. CASE Demo!WriteSequence
  BY <1>9 DEF Demo!WriteSequence
<1>10. CASE Demo!WriteText
  BY <1>10 DEF Demo!WriteText
<1>11. CASE Demo!SetReady
  BY <1>11 DEF Demo!SetReady
<1>12. CASE Demo!WaitForAck
  BY <1>12 DEF Demo!WaitForAck, Demo!Round
<1>13. CASE Demo!WaitForReady
  BY <1>13 DEF Demo!WaitForReady
<1>14. CASE Demo!PrintBlock
  BY SMTT(30), ZenonT(30), <1>14 DEF Demo!PrintBlock
<1>15. CASE Demo!SetAck
  BY <1>15 DEF Demo!SetAck, Demo!Round
<1> QED
  BY <1>1, <1>2, <1>3, <1>4, <1>5, <1>6, <1>7, <1>8,
     <1>9, <1>10, <1>11, <1>12, <1>13, <1>14, <1>15
     DEF Demo!DemoNext, Demo!WriterStep, Demo!ReaderStep, Demo!CommonStep

\* The phases of a round follow one another.
LEMMA DemoKeepsRounds ==
  ASSUME DemoTypes, HandlesInv, RoundInv, ~killed', Demo!DemoNext
  PROVE  RoundInv'
<1> USE DEF DemoTypes, HandlesInv, RoundInv, WriterIdle, ReaderIdle, WriterPlaces,
           ReaderPlaces, Demo!Goes, Demo!First, Demo!objects, Demo!history, Demo!Role
<1>1. ASSUME NEW r \in Demo!Role, Demo!Run(r) PROVE RoundInv'
  BY <1>1 DEF Demo!Run
<1>2. ASSUME NEW r \in Demo!Role, Demo!MapSection(r) PROVE RoundInv'
  BY <1>2 DEF Demo!MapSection
<1>3. ASSUME NEW r \in Demo!Role, Demo!OpenObjects(r) PROVE RoundInv'
  BY <1>3 DEF Demo!OpenObjects
<1>4. ASSUME NEW r \in Demo!Role, Demo!WaitForLock(r) PROVE RoundInv'
  BY <1>4 DEF Demo!WaitForLock
<1>5. ASSUME NEW r \in Demo!Role, Demo!ReleaseMutex(r) PROVE RoundInv'
  BY <1>5 DEF Demo!ReleaseMutex
<1>6. ASSUME NEW r \in Demo!Role, Demo!CloseSection(r) PROVE RoundInv'
  BY <1>6 DEF Demo!CloseSection
<1>7. ASSUME NEW r \in Demo!Role, Demo!CloseObjects(r) PROVE RoundInv'
  BY <1>7 DEF Demo!CloseObjects
<1>8. ASSUME NEW r \in Demo!Role, Demo!Kill(r) PROVE RoundInv'
  BY <1>8 DEF Demo!Kill
<1>9. CASE Demo!WriteSequence
  BY <1>9 DEF Demo!WriteSequence
<1>10. CASE Demo!WriteText
  BY <1>10 DEF Demo!WriteText
<1>11. CASE Demo!SetReady
  BY <1>11 DEF Demo!SetReady
<1>12. CASE Demo!WaitForAck
  BY <1>12 DEF Demo!WaitForAck, Demo!Round
<1>13. CASE Demo!WaitForReady
  BY <1>13 DEF Demo!WaitForReady
<1>14. CASE Demo!PrintBlock
  BY <1>14 DEF Demo!PrintBlock
<1>15. CASE Demo!SetAck
  BY <1>15 DEF Demo!SetAck, Demo!Round
<1> QED
  BY <1>1, <1>2, <1>3, <1>4, <1>5, <1>6, <1>7, <1>8,
     <1>9, <1>10, <1>11, <1>12, <1>13, <1>14, <1>15
     DEF Demo!DemoNext, Demo!WriterStep, Demo!ReaderStep, Demo!CommonStep

\* What is printed next is what was written last.
LEMMA DemoKeepsOrder ==
  ASSUME DemoTypes, HandlesInv, RoundInv, OrderInv, Demo!DemoNext
  PROVE  OrderInv'
<1> USE DEF DemoTypes, Demo!Goes, Demo!Role, Demo!history, Demo!objects
<1>1. CASE UNCHANGED <<block, written, printed>>
  BY <1>1 DEF OrderInv
<1>2. ASSUME NEW r \in Demo!Role, Demo!MapSection(r), block' # block PROVE OrderInv'
  <2>1. mapped = {} /\ UNCHANGED <<written, printed>>
    BY <1>2 DEF Demo!MapSection
  <2>2. Len(written) = Len(printed)
    BY <2>1 DEF HandlesInv, RoundInv
  <2> QED
    BY <2>1, <2>2 DEF OrderInv
<1>3. CASE Demo!WriteSequence
  <2>1. Len(written) = Len(printed) /\ UNCHANGED <<written, printed>>
    BY <1>3 DEF Demo!WriteSequence, RoundInv
  <2> QED
    BY <2>1 DEF OrderInv
<1>4. CASE Demo!WriteText
  <2> DEFINE text == <<i["writer"], runs["writer"]>>
  <2>1. Len(written) = Len(printed)
    BY <1>4 DEF Demo!WriteText, RoundInv
  <2>2. text \in Text /\ block'.text = text /\ written' = Append(written, text)
          /\ printed' = printed
    BY <1>4 DEF Demo!WriteText, Text, Block
  <2> HIDE DEF text
  <2>3. /\ Len(written') = Len(written) + 1 /\ written'[Len(written) + 1] = text
        /\ \A m \in 1..Len(written) : written'[m] = written[m]
    BY <2>2
  <2> QED
    BY <2>1, <2>2, <2>3 DEF OrderInv
<1>5. CASE Demo!PrintBlock
  <2>1. Len(written) = Len(printed) + 1
    BY <1>5 DEF Demo!PrintBlock, RoundInv, ReaderIdle
  <2>2. printed' = Append(printed, block) /\ written' = written
    BY <1>5 DEF Demo!PrintBlock
  <2>3. /\ Len(printed') = Len(printed) + 1 /\ printed'[Len(printed) + 1] = block
        /\ \A m \in 1..Len(printed) : printed'[m] = printed[m]
    BY <2>2
  <2>4. Len(printed) \in Nat
    OBVIOUS
  <2>5. ASSUME NEW m \in 1..Len(printed') PROVE printed'[m].text = written'[m]
    BY <2>1, <2>2, <2>3, <2>4 DEF OrderInv
  <2> QED
    BY <2>1, <2>2, <2>3, <2>4, <2>5 DEF OrderInv
<1>6. ASSUME Demo!DemoNext, ~UNCHANGED <<block, written, printed>>
      PROVE  \/ \E r \in Demo!Role : Demo!MapSection(r) /\ block' # block
             \/ Demo!WriteSequence \/ Demo!WriteText \/ Demo!PrintBlock
  BY <1>6 DEF Demo!DemoNext, Demo!WriterStep, Demo!ReaderStep, Demo!CommonStep, Demo!Run,
              Demo!MapSection, Demo!OpenObjects, Demo!WaitForLock, Demo!ReleaseMutex,
              Demo!CloseSection, Demo!CloseObjects, Demo!Kill, Demo!SetReady, Demo!WaitForAck,
              Demo!WaitForReady, Demo!SetAck
<1> QED
  BY <1>1, <1>2, <1>3, <1>4, <1>5, <1>6

LEMMA DemoStarts == Demo!DemoInit => DemoInv
  BY DEF Demo!DemoInit, DemoInv, DemoTypes, HandlesInv, WholeInv, RoundInv, OrderInv, WriterIdle,
         ReaderIdle, WriterPlaces, ReaderPlaces, Text, Block, Demo!Role, Demo!Whole,
         Demo!EmptyBlock, Demo!NoText, Demo!Nobody

\* Once a process was killed, one was killed.
LEMMA KilledStays == ASSUME Demo!DemoNext, killed PROVE killed'
  BY DEF Demo!DemoNext, Demo!WriterStep, Demo!ReaderStep, Demo!CommonStep, Demo!Run,
         Demo!MapSection, Demo!OpenObjects, Demo!WaitForLock, Demo!ReleaseMutex,
         Demo!CloseSection, Demo!CloseObjects, Demo!Kill, Demo!SetReady, Demo!WaitForAck,
         Demo!WaitForReady, Demo!SetAck, Demo!WriteSequence, Demo!WriteText, Demo!PrintBlock,
         Demo!history, Demo!objects

LEMMA DemoNextKeeps == DemoInv /\ [Demo!DemoNext]_demo => DemoInv'
<1> SUFFICES ASSUME DemoInv, [Demo!DemoNext]_demo PROVE DemoInv'
  OBVIOUS
<1>1. CASE Demo!DemoNext
  <2>1. DemoTypes' /\ HandlesInv' /\ WholeInv'
    BY <1>1, DemoKeepsTypes, DemoKeepsHandles, DemoKeepsWhole DEF DemoInv
  <2>2. ASSUME ~killed' PROVE RoundInv' /\ OrderInv'
    <3>1. RoundInv /\ OrderInv
      BY <1>1, <2>2, KilledStays DEF DemoInv
    <3> QED
      BY <1>1, <2>2, <3>1, DemoKeepsRounds, DemoKeepsOrder DEF DemoInv
  <2> QED
    BY <2>1, <2>2 DEF DemoInv
<1>2. CASE UNCHANGED demo
  <2>1. /\ pc' = pc /\ i' = i /\ runs' = runs /\ mapped' = mapped /\ opened' = opened
        /\ block' = block /\ lock' = lock /\ ready' = ready /\ ack' = ack
        /\ written' = written /\ printed' = printed /\ killed' = killed /\ cut' = cut
    BY <1>2 DEF demo
  <2>2. DemoTypes' /\ HandlesInv'
    BY <2>1 DEF DemoInv, DemoTypes, HandlesInv
  <2>3. WholeInv' /\ (~killed' => RoundInv' /\ OrderInv')
    BY <2>1 DEF DemoInv, WholeInv, RoundInv, OrderInv, WriterIdle, ReaderIdle, Demo!Whole
  <2> QED
    BY <2>2, <2>3 DEF DemoInv
<1> QED
  BY <1>1, <1>2

\* Unless a process is killed, the text of every message is printed once and in the order of
\* writing, over all the runs of both programs, with the writer at most one ahead; and with
\* kills no reader prints a torn block unless a writer was killed between the two halves
\* (shm_demo.c).  For any number of messages and of runs.
THEOREM MessagesArriveOnceHolds == Spec => []MessagesArriveOnce
<1>1. Init => DemoInv
  BY DemoStarts DEF Init
<1>2. DemoInv /\ [Next]_vars => DemoInv'
  <2>1. [Next]_vars => [Demo!DemoNext]_demo
    BY DEF Next, vars
  <2> QED
    BY <2>1, DemoNextKeeps
<1>3. DemoInv => MessagesArriveOnce
  <2> SUFFICES ASSUME DemoInv PROVE Demo!MessagesArriveOnce
    BY DEF MessagesArriveOnce
  <2>1. ~cut => \A m \in 1..Len(printed) : Demo!Whole(printed[m])
    BY DEF DemoInv, WholeInv
  <2>2. ASSUME ~killed
        PROVE  LET texts == [m \in 1..Len(printed) |-> printed[m].text] IN
               /\ Len(texts) \in {Len(written) - 1, Len(written)}
               /\ texts = SubSeq(written, 1, Len(texts))
    <3> DEFINE texts == [m \in 1..Len(printed) |-> printed[m].text]
    <3>1. DemoTypes /\ RoundInv /\ OrderInv
      BY <2>2 DEF DemoInv
    <3>2. Len(printed) \in Nat /\ Len(written) \in Nat /\ Len(texts) = Len(printed)
      BY <3>1 DEF DemoTypes
    <3>3. Len(printed) <= Len(written) /\ Len(written) <= Len(printed) + 1
      BY <3>1, <3>2 DEF RoundInv
    <3>4. \A m \in 1..Len(printed) : texts[m] = written[m]
      BY <3>1 DEF OrderInv
    <3>5. texts = SubSeq(written, 1, Len(texts))
      <4> DEFINE k == Len(printed)
                 sub == SubSeq(written, 1, k)
      <4>1. k \in Nat /\ k <= Len(written) /\ Len(texts) = k /\ written \in Seq(Text)
        BY <3>1, <3>2, <3>3 DEF DemoTypes
      <4>2. sub = [m \in 1..k |-> written[m]]
        <5>1. sub \in Seq(Text) /\ Len(sub) = k /\ \A m \in 1..k : sub[m] = written[m]
          BY <4>1, SubSeqProperties
        <5> HIDE DEF sub
        <5> QED
          BY <4>1, <5>1
      <4>3. texts = [m \in 1..k |-> written[m]]
        BY <3>4
      <4> QED
        BY <4>1, <4>2, <4>3
    <3> QED
      BY <3>2, <3>3, <3>5
  <2> QED
    BY <2>1, <2>2 DEF Demo!MessagesArriveOnce
<1> QED
  BY <1>1, <1>2, <1>3, PTL DEF Spec

-------------------------------------------------------------------------------
(* Recursion *)

\* Induction, on a set: the prover does not instantiate a predicate.
LEMMA NatSetInduction ==
  ASSUME NEW S, 0 \in S, \A m \in Nat : m \in S => m + 1 \in S
  PROVE  Nat \subseteq S
<1> DEFINE T == Nat \ S
           R == OpToRel(<, Nat)
<1>1. SUFFICES ASSUME T # {} PROVE FALSE
  OBVIOUS
<1>2. IsWellFoundedOn(R, Nat)
  BY NatLessThanWellFounded
<1>3. PICK x \in T : \A y \in T : ~(<<y, x>> \in R)
  BY <1>1, <1>2, WFMin
<1>4. \A a, b \in Nat : <<a, b>> \in R <=> a < b
  BY DEF OpToRel
<1>5. x \in Nat /\ x # 0 /\ x - 1 \in Nat /\ x - 1 < x
  OBVIOUS
<1>6. x - 1 \in S
  BY <1>3, <1>4, <1>5
<1> QED
  BY <1>5, <1>6

\* What a loop of m rounds has after each, where F gives a round's result.
Rounds(base, F, h, m) == h = [j \in 0..m |-> IF j = 0 THEN base ELSE F[<<h[j - 1], j>>]]

LEMMA RoundsExist ==
  ASSUME NEW X, NEW base \in X, NEW N \in Nat, NEW F, \A x \in X, j \in 1..N : F[<<x, j>>] \in X
  PROVE  \E h : Rounds(base, F, h, N) /\ \A j \in 0..N : h[j] \in X
<1> DEFINE S == {m \in Nat : m <= N => \E h : Rounds(base, F, h, m) /\ \A j \in 0..m : h[j] \in X}
<1>1. 0 \in S
  <2> DEFINE h == [j \in 0..0 |-> base]
  <2>1. Rounds(base, F, h, 0) /\ \A j \in 0..0 : h[j] \in X
    BY DEF Rounds
  <2> HIDE DEF h
  <2> QED
    BY <2>1
<1>2. ASSUME NEW m \in Nat, m \in S PROVE m + 1 \in S
  <2> SUFFICES ASSUME m + 1 <= N
               PROVE  \E h : Rounds(base, F, h, m + 1) /\ \A j \in 0..m + 1 : h[j] \in X
    OBVIOUS
  <2>1. PICK h : Rounds(base, F, h, m) /\ \A j \in 0..m : h[j] \in X
    BY <1>2
  <2> DEFINE u == [j \in 0..m + 1 |-> IF j = m + 1 THEN F[<<h[m], m + 1>>] ELSE h[j]]
  <2>2. F[<<h[m], m + 1>>] \in X
    BY <2>1
  <2>3. \A j \in 0..m + 1 : u[j] \in X
    BY <2>1, <2>2
  <2>4. ASSUME NEW j \in 0..m + 1 PROVE u[j] = IF j = 0 THEN base ELSE F[<<u[j - 1], j>>]
    <3>1. CASE j = m + 1
      BY <3>1
    <3>2. CASE j # m + 1
      <4>1. h[j] = IF j = 0 THEN base ELSE F[<<h[j - 1], j>>]
        BY <2>1, <3>2 DEF Rounds
      <4>2. u[j] = h[j] /\ (j # 0 => u[j - 1] = h[j - 1])
        BY <3>2
      <4> QED
        BY <4>1, <4>2
    <3> QED
      BY <3>1, <3>2
  <2>5. Rounds(base, F, u, m + 1)
    BY <2>4 DEF Rounds
  <2> HIDE DEF u
  <2> QED
    BY <2>3, <2>5
<1> HIDE DEF S
<1>3. Nat \subseteq S
  BY <1>1, <1>2, NatSetInduction
<1> QED
  BY <1>3 DEF S

-------------------------------------------------------------------------------
(* Hash sets of chains, and how they grow *)

\* The arrays of m buckets of keys, and those that hold the keys of P, each once and in the
\* chain its hash asks for.
Arrays(V, m) == [0..m - 1 -> Seq(V)]
Chain(h, P, m, b) == {v \in P : h[v] % m = b}
Lists(s, P) == /\ \A j \in 1..Len(s) : s[j] \in P
               /\ \A v \in P : \E j \in 1..Len(s) : s[j] = v
               /\ \A j, k \in 1..Len(s) : s[j] = s[k] => j = k
Exact(V, h, bs, P, m) ==
    bs \in Arrays(V, m) /\ \A b \in 0..m - 1 : Lists(bs[b], Chain(h, P, m, b))

LEMMA HashIs ==
  ASSUME NEW V, NEW h \in [V -> Nat], NEW v \in V, NEW m \in Nat \ {0}
  PROVE  h[v] % m \in 0..m - 1
<1> DEFINE x == h[v]
<1>1. x \in Nat
  OBVIOUS
<1> HIDE DEF x
<1>2. x % m \in 0..m - 1
  BY <1>1
<1> QED
  BY <1>2 DEF x

LEMMA ArraySize ==
  ASSUME NEW V, NEW m \in Nat, NEW bs \in Arrays(V, m)
  PROVE  Cardinality(DOMAIN bs) = m /\ DOMAIN bs = 0..m - 1
<1>1. DOMAIN bs = 0..m - 1
  BY DEF Arrays
<1>2. Cardinality(0..m - 1) = m
  <2>1. 0 \in Int /\ m - 1 \in Int
    OBVIOUS
  <2>2. Cardinality(0..m - 1) = IF 0 > m - 1 THEN 0 ELSE (m - 1) - 0 + 1
    BY ONLY <2>1, FS_Interval
  <2> QED
    BY <2>2
<1> QED
  BY <1>1, <1>2

LEMMA EmptyIsExact ==
  ASSUME NEW V, NEW h, NEW m \in Nat
  PROVE  Exact(V, h, [b \in 0..m - 1 |-> <<>>], {}, m)
BY DEF Exact, Arrays, Lists, Chain

\* A key that is added to its chain.
LEMMA LongerIsExact ==
  ASSUME NEW V, NEW h \in [V -> Nat], NEW m \in Nat \ {0}, NEW P \in SUBSET V,
         NEW bs, Exact(V, h, bs, P, m), NEW v \in V, v \notin P,
         NEW s \in Seq(V), Lists(s, Chain(h, P, m, h[v] % m) \cup {v})
  PROVE  Exact(V, h, [bs EXCEPT ![h[v] % m] = s], P \cup {v}, m)
<1> DEFINE c == h[v] % m
           cs == [bs EXCEPT ![c] = s]
<1>1. bs \in [0..m - 1 -> Seq(V)] /\ c \in 0..m - 1
  BY HashIs DEF Exact, Arrays
<1>2. Chain(h, P \cup {v}, m, c) = Chain(h, P, m, c) \cup {v}
  BY DEF Chain
<1>3. \A b \in 0..m - 1 : b # c => Chain(h, P \cup {v}, m, b) = Chain(h, P, m, b)
  BY DEF Chain
<1>4. Lists(s, Chain(h, P \cup {v}, m, c))
  BY <1>2
<1> HIDE DEF c
<1>5. cs \in Arrays(V, m) /\ cs[c] = s /\ \A b \in 0..m - 1 : b # c => cs[b] = bs[b]
  BY <1>1 DEF Arrays
<1>6. ASSUME NEW b \in 0..m - 1 PROVE Lists(cs[b], Chain(h, P \cup {v}, m, b))
  BY <1>3, <1>4, <1>5 DEF Exact
<1> QED
  BY <1>5, <1>6 DEF Exact, c

\* A chain that is moved, key after key, into an array that has none of its keys.
LEMMA MovedIsExact ==
  ASSUME NEW V, NEW h, NEW m \in Nat \ {0}, NEW P \in SUBSET V,
         NEW s \in Seq(V), NEW Q \in SUBSET V, Lists(s, Q), P \cap Q = {},
         NEW g, Exact(V, h, g[0], P, m),
         \A k \in 1..Len(s), R \in SUBSET V :
             Exact(V, h, g[k - 1], R, m) /\ s[k] \notin R => Exact(V, h, g[k], R \cup {s[k]}, m)
  PROVE  Exact(V, h, g[Len(s)], P \cup Q, m)
<1> DEFINE N == Len(s)
           Had(k) == {s[j] : j \in 1..k}
           S == {k \in Nat : k <= N => Exact(V, h, g[k], P \cup Had(k), m)}
<1>1. N \in Nat /\ \A j \in 1..N : s[j] \in V
  OBVIOUS
<1> HIDE DEF N
<1>2. 0 \in S
  <2>1. Had(0) = {}
    BY <1>1
  <2> QED
    BY <2>1
<1>3. ASSUME NEW k \in Nat, k \in S PROVE k + 1 \in S
  <2> SUFFICES ASSUME k + 1 <= N PROVE Exact(V, h, g[k + 1], P \cup Had(k + 1), m)
    OBVIOUS
  <2> DEFINE v == s[k + 1]
             R == P \cup Had(k)
  <2>1. k + 1 \in 1..N /\ (k + 1) - 1 = k
    BY <1>1
  <2>2. v \in V /\ v \notin R /\ R \in SUBSET V
    <3>1. \A j \in 1..k : j \in 1..N /\ j # k + 1
      BY <1>1, <2>1
    <3>2. v \in Q /\ v \notin P
      BY <2>1 DEF Lists, N
    <3>3. v \notin Had(k)
      BY <2>1, <3>1 DEF Lists, N
    <3> QED
      BY <1>1, <3>1, <3>2, <3>3
  <2>3. P \cup Had(k + 1) = R \cup {v}
    <3>1. \A j \in 1..k + 1 : j = k + 1 \/ j \in 1..k
      OBVIOUS
    <3>2. k + 1 \in 1..k + 1 /\ \A j \in 1..k : j \in 1..k + 1
      OBVIOUS
    <3>3. Had(k + 1) = Had(k) \cup {v}
      BY <3>1, <3>2
    <3> QED
      BY <3>3
  <2>4. Exact(V, h, g[k], R, m)
    <3> HIDE DEF Had
    <3>1. k <= N
      BY <1>1, <2>1
    <3> QED
      BY <1>3, <3>1
  <2> HIDE DEF v, R
  <2>5. Exact(V, h, g[k + 1], R \cup {v}, m)
    BY <2>1, <2>2, <2>4 DEF N, v
  <2> QED
    BY <2>3, <2>5
<1>4. Exact(V, h, g[N], P \cup Had(N), m)
  <2> HIDE DEF S
  <2>1. Nat \subseteq S
    BY <1>2, <1>3, NatSetInduction
  <2>2. N \in S /\ N <= N
    BY <1>1, <2>1
  <2> HIDE DEF Had
  <2> QED
    BY <2>2 DEF S
<1>5. Had(N) = Q
  BY DEF Lists, N
<1> QED
  BY <1>4, <1>5 DEF N

\* An array that is moved into an empty one of M buckets, chain after chain.
LEMMA GrownIsExact ==
  ASSUME NEW V, NEW h \in [V -> Nat], NEW m \in Nat \ {0}, NEW M \in Nat \ {0},
         NEW P \in SUBSET V, NEW g, Exact(V, h, g[0], {}, M),
         \A b \in 0..m - 1, R \in SUBSET V :
             Exact(V, h, g[b], R, M) /\ R \cap Chain(h, P, m, b) = {}
                 => Exact(V, h, g[b + 1], R \cup Chain(h, P, m, b), M)
  PROVE  Exact(V, h, g[m], P, M)
<1> DEFINE Had(b) == {v \in P : h[v] % m < b}
           S == {b \in Nat : b <= m => Exact(V, h, g[b], Had(b), M)}
<1>1. \A v \in P : h[v] % m \in 0..m - 1
  BY HashIs
<1>2. 0 \in S
  <2>1. Had(0) = {}
    BY <1>1
  <2> QED
    BY <2>1
<1>3. ASSUME NEW b \in Nat, b \in S PROVE b + 1 \in S
  <2> HIDE DEF Had
  <2> SUFFICES ASSUME b + 1 <= m PROVE Exact(V, h, g[b + 1], Had(b + 1), M)
    OBVIOUS
  <2>1. b \in 0..m - 1 /\ b <= m
    OBVIOUS
  <2>2. Exact(V, h, g[b], Had(b), M)
    BY <1>3, <2>1
  <2> USE DEF Had
  <2>3. /\ Had(b + 1) = Had(b) \cup Chain(h, P, m, b)
        /\ Had(b) \cap Chain(h, P, m, b) = {}
        /\ Had(b) \in SUBSET V
    <3>1. ASSUME NEW v \in P PROVE /\ h[v] % m < b + 1 <=> h[v] % m < b \/ h[v] % m = b
                                   /\ ~(h[v] % m < b /\ h[v] % m = b)
      <4> DEFINE x == h[v] % m
      <4>1. x \in Nat
        BY <1>1
      <4> HIDE DEF x
      <4>2. (x < b + 1 <=> x < b \/ x = b) /\ ~(x < b /\ x = b)
        BY <4>1
      <4> QED
        BY <4>2 DEF x
    <3> QED
      BY <3>1 DEF Chain
  <2> HIDE DEF Had
  <2> QED
    BY <2>1, <2>2, <2>3
<1>4. Exact(V, h, g[m], Had(m), M)
  <2> HIDE DEF S
  <2>1. Nat \subseteq S
    BY <1>2, <1>3, NatSetInduction
  <2>2. m \in S /\ m <= m
    BY <2>1
  <2> HIDE DEF Had
  <2> QED
    BY <2>2 DEF S
<1>5. Had(m) = P
  BY <1>1
<1> QED
  BY <1>4, <1>5

-------------------------------------------------------------------------------
(* 020_dedupe_list: its hash set *)

\* The operators of the libraries, by the names they have in the instance.
LEMMA DedupeNames ==
  /\ \A S : Dedupe!Cardinality(S) = Cardinality(S)
  /\ \A s : Dedupe!Range(s) = {s[j] : j \in DOMAIN s}
  /\ \A s : Dedupe!IsInjective(s) <=> \A a, b \in DOMAIN s : s[a] = s[b] => a = b
<1>1. ASSUME NEW S PROVE Dedupe!Cardinality(S) = Cardinality(S)
  BY DEF Dedupe!Cardinality, Cardinality
<1>2. \A s : Dedupe!Range(s) = {s[j] : j \in DOMAIN s}
  BY DEF Dedupe!Range
<1>3. \A s : Dedupe!IsInjective(s) <=> \A a, b \in DOMAIN s : s[a] = s[b] => a = b
  BY DEF Dedupe!IsInjective
<1> QED
  BY <1>1, <1>2, <1>3

LEMMA DedupeBucketIs ==
  ASSUME NEW m \in Nat \ {0}, NEW bs \in Arrays(Value, m)
  PROVE  /\ Dedupe!nbuckets(bs) = m
         /\ \A v \in Value : /\ Dedupe!BucketOf(v, bs) = hash_int[v] % m
                             /\ hash_int[v] % m \in 0..m - 1
<1>1. hash_int \in [Value -> Nat]
  BY LabsAssumption DEF Dedupe!DedupeAssumption
<1>2. Dedupe!nbuckets(bs) = m
  BY ArraySize, DedupeNames DEF Dedupe!nbuckets
<1>3. \A v \in Value : hash_int[v] % m \in 0..m - 1
  BY <1>1, HashIs
<1> QED
  BY <1>2, <1>3 DEF Dedupe!BucketOf

\* A key that is put in front of a chain.
LEMMA ConsLists ==
  ASSUME NEW s \in Seq(Value), NEW P \in SUBSET Value, Lists(s, P), NEW v \in Value, v \notin P
  PROVE  <<v>> \o s \in Seq(Value) /\ Lists(<<v>> \o s, P \cup {v})
<1> DEFINE t == <<v>> \o s
<1>1. /\ t \in Seq(Value) /\ Len(s) \in Nat /\ Len(t) = Len(s) + 1
      /\ \A j \in 1..Len(s) + 1 : t[j] = IF j = 1 THEN v ELSE s[j - 1]
  OBVIOUS
<1> HIDE DEF t
<1>2. ASSUME NEW j \in 1..Len(t) PROVE t[j] \in P \cup {v}
  BY <1>1 DEF Lists
<1>3. ASSUME NEW w \in P \cup {v} PROVE \E j \in 1..Len(t) : t[j] = w
  <2>1. CASE w = v
    BY <1>1, <2>1
  <2>2. CASE w \in P
    <3>1. PICK j \in 1..Len(s) : s[j] = w
      BY <2>2 DEF Lists
    <3>2. j + 1 \in 1..Len(t) /\ t[j + 1] = w
      BY <1>1, <3>1
    <3> QED
      BY <3>2
  <2> QED
    BY <2>1, <2>2
<1>4. ASSUME NEW j \in 1..Len(t), NEW k \in 1..Len(t), t[j] = t[k] PROVE j = k
  <2>1. \A p \in 1..Len(t) : IF p = 1 THEN t[p] = v
                             ELSE p - 1 \in 1..Len(s) /\ t[p] = s[p - 1] /\ t[p] # v
    BY <1>1 DEF Lists
  <2>2. j # 1 /\ k # 1 => j - 1 = k - 1
    BY SMTT(30), ZenonT(30), <1>4, <2>1 DEF Lists
  <2> QED
    BY <1>1, <1>4, <2>1, <2>2
<1> QED
  BY <1>1, <1>2, <1>3, <1>4 DEF Lists, t

LEMMA ChainedIs ==
  ASSUME NEW m \in Nat \ {0}, NEW P \in SUBSET Value, NEW bs, Exact(Value, hash_int, bs, P, m),
         NEW v \in Value, v \notin P
  PROVE  Exact(Value, hash_int, Dedupe!Chained(bs, v), P \cup {v}, m)
<1> DEFINE c == hash_int[v] % m
           Q == Chain(hash_int, P, m, c)
<1>1. hash_int \in [Value -> Nat]
  BY LabsAssumption DEF Dedupe!DedupeAssumption
<1>2. bs \in [0..m - 1 -> Seq(Value)] /\ c \in 0..m - 1 /\ Dedupe!BucketOf(v, bs) = c
  BY DedupeBucketIs DEF Exact, Arrays
<1>3. Dedupe!Chained(bs, v) = [bs EXCEPT ![c] = <<v>> \o bs[c]]
  BY <1>2 DEF Dedupe!Chained
<1>4. Lists(bs[c], Q) /\ Q \in SUBSET Value /\ v \notin Q
  BY <1>2 DEF Exact, Chain
<1>5. <<v>> \o bs[c] \in Seq(Value) /\ Lists(<<v>> \o bs[c], Q \cup {v})
  <2> HIDE DEF c, Q
  <2> QED
    BY <1>2, <1>4, ConsLists
<1> DEFINE t == <<v>> \o bs[c]
<1>6. t \in Seq(Value) /\ Lists(t, Q \cup {v})
  BY <1>5
<1> HIDE DEF t
<1>7. Exact(Value, hash_int, [bs EXCEPT ![c] = t], P \cup {v}, m)
  BY <1>1, <1>6, LongerIsExact
<1> QED
  BY <1>3, <1>7 DEF t

\* A chain that is moved, key after key.
LEMMA MovedRounds ==
  ASSUME NEW m \in Nat \ {0}, NEW bs \in Arrays(Value, m), NEW s \in Seq(Value)
  PROVE  \E h : /\ h = [k \in 0..Len(s) |-> IF k = 0 THEN bs ELSE Dedupe!Chained(h[k - 1], s[k])]
                /\ \A k \in 0..Len(s) : h[k] \in Arrays(Value, m)
                /\ Dedupe!Moved(bs, s) = h[Len(s)]
<1> DEFINE X == Arrays(Value, m)
           N == Len(s)
           F == [a \in X \X (1..N) |-> Dedupe!Chained(a[1], s[a[2]])]
           Is(h) == h = [k \in 0..N |-> IF k = 0 THEN bs ELSE Dedupe!Chained(h[k - 1], s[k])]
           g == CHOOSE h : Is(h)
<1>1. N \in Nat /\ \A j \in 1..N : s[j] \in Value
  OBVIOUS
<1>2. ASSUME NEW x \in X, NEW v \in Value PROVE Dedupe!Chained(x, v) \in X
  <2>1. x \in [0..m - 1 -> Seq(Value)] /\ Dedupe!BucketOf(v, x) \in 0..m - 1
    <3>1. Dedupe!BucketOf(v, x) = hash_int[v] % m /\ hash_int[v] % m \in 0..m - 1
      BY DedupeBucketIs
    <3> QED
      BY <3>1 DEF Arrays
  <2>2. <<v>> \o x[Dedupe!BucketOf(v, x)] \in Seq(Value)
    BY <2>1
  <2> QED
    BY <2>1, <2>2 DEF Arrays, Dedupe!Chained
<1> HIDE DEF X
<1>3. \A x \in X, j \in 1..N : F[<<x, j>>] = Dedupe!Chained(x, s[j]) /\ F[<<x, j>>] \in X
  BY <1>1, <1>2
<1> HIDE DEF F, N
<1>4. bs \in X
  BY DEF X
<1>5. PICK u : Rounds(bs, F, u, N) /\ \A j \in 0..N : u[j] \in X
  BY <1>1, <1>3, <1>4, RoundsExist
<1>6. Is(u)
  <2>1. ASSUME NEW k \in 0..N
        PROVE  u[k] = IF k = 0 THEN bs ELSE Dedupe!Chained(u[k - 1], s[k])
    <3>1. u[k] = IF k = 0 THEN bs ELSE F[<<u[k - 1], k>>]
      BY <1>5 DEF Rounds
    <3>2. k # 0 => k - 1 \in 0..N /\ k \in 1..N
      BY <1>1
    <3>3. k # 0 => F[<<u[k - 1], k>>] = Dedupe!Chained(u[k - 1], s[k])
      BY <1>3, <1>5, <3>2
    <3> QED
      BY <3>1, <3>3
  <2>2. u = [k \in 0..N |-> u[k]]
    BY <1>5 DEF Rounds
  <2> QED
    BY <2>1, <2>2
<1>7. Is(g)
  BY <1>6
<1>8. Dedupe!Moved(bs, s) = g[N]
  BY DEF Dedupe!Moved, N
<1> HIDE DEF g
<1>9. ASSUME NEW j \in 0..N PROVE g[j] \in X
  <2> DEFINE S == {k \in Nat : k <= N => g[k] \in X}
  <2>1. 0 \in S
    BY <1>1, <1>4, <1>7
  <2>2. ASSUME NEW k \in Nat, k \in S PROVE k + 1 \in S
    <3> SUFFICES ASSUME k + 1 <= N PROVE g[k + 1] \in X
      OBVIOUS
    <3>1. k + 1 \in 1..N /\ k + 1 \in 0..N /\ (k + 1) - 1 = k /\ k + 1 # 0 /\ k <= N
      BY <1>1
    <3>2. g[k + 1] = Dedupe!Chained(g[k], s[k + 1])
      BY <1>7, <3>1
    <3>3. g[k] \in X /\ s[k + 1] \in Value
      BY <1>1, <2>2, <3>1
    <3> QED
      BY <1>2, <3>2, <3>3
  <2> HIDE DEF S
  <2>3. Nat \subseteq S
    BY <2>1, <2>2, NatSetInduction
  <2>4. j \in S /\ j <= N
    BY <1>1, <2>3
  <2> QED
    BY <2>4 DEF S
<1> QED
  BY <1>7, <1>8, <1>9 DEF N, X

\* A chain that is moved into an array that has none of its keys.
LEMMA MovedIs ==
  ASSUME NEW m \in Nat \ {0}, NEW P \in SUBSET Value, NEW bs, Exact(Value, hash_int, bs, P, m),
         NEW s \in Seq(Value), NEW Q \in SUBSET Value, Lists(s, Q), P \cap Q = {}
  PROVE  Exact(Value, hash_int, Dedupe!Moved(bs, s), P \cup Q, m)
<1>1. bs \in Arrays(Value, m)
  BY DEF Exact
<1>2. PICK h : /\ h = [k \in 0..Len(s) |-> IF k = 0 THEN bs ELSE Dedupe!Chained(h[k - 1], s[k])]
               /\ Dedupe!Moved(bs, s) = h[Len(s)]
  BY <1>1, MovedRounds
<1>3. h[0] = bs /\ \A k \in 1..Len(s) : h[k] = Dedupe!Chained(h[k - 1], s[k])
  <2>1. Len(s) \in Nat /\ 0 \in 0..Len(s) /\ \A k \in 1..Len(s) : k \in 0..Len(s) /\ k # 0
    OBVIOUS
  <2> QED
    BY <1>2, <2>1
<1>4. ASSUME NEW k \in 1..Len(s), NEW R \in SUBSET Value,
             Exact(Value, hash_int, h[k - 1], R, m), s[k] \notin R
      PROVE  Exact(Value, hash_int, h[k], R \cup {s[k]}, m)
  <2>1. s[k] \in Value
    OBVIOUS
  <2> QED
    BY <1>3, <1>4, <2>1, ChainedIs
<1>5. Exact(Value, hash_int, h[Len(s)], P \cup Q, m)
  BY <1>3, <1>4, MovedIsExact
<1> QED
  BY <1>2, <1>5

\* The array of twice the size holds what the array held.
LEMMA GrownIs ==
  ASSUME NEW m \in Nat \ {0}, NEW P \in SUBSET Value, NEW bs, Exact(Value, hash_int, bs, P, m)
  PROVE  Exact(Value, hash_int, Dedupe!Grown(bs), P, 2 * m)
<1> DEFINE M == 2 * m
           X == Arrays(Value, M)
           base == Dedupe!EmptyBuckets(M)
           F == [a \in X \X (1..m) |-> Dedupe!Moved(a[1], bs[a[2] - 1])]
           Is(h) == h = [b \in 0..m |-> IF b = 0 THEN base ELSE Dedupe!Moved(h[b - 1], bs[b - 1])]
           g == CHOOSE h : Is(h)
<1>1. M \in Nat \ {0}
  OBVIOUS
<1>2. bs \in [0..m - 1 -> Seq(Value)] /\ Dedupe!nbuckets(bs) = m
  BY DedupeBucketIs DEF Exact, Arrays
<1> HIDE DEF M
<1>3. ASSUME NEW x \in X, NEW s \in Seq(Value) PROVE Dedupe!Moved(x, s) \in X
  <2>1. PICK h : (\A k \in 0..Len(s) : h[k] \in Arrays(Value, M)) /\ Dedupe!Moved(x, s) = h[Len(s)]
    BY <1>1, MovedRounds
  <2>2. Len(s) \in 0..Len(s)
    OBVIOUS
  <2> QED
    BY <2>1, <2>2
<1>4. base \in X /\ Exact(Value, hash_int, base, {}, M)
  BY <1>1, EmptyIsExact DEF Exact, Dedupe!EmptyBuckets
<1> HIDE DEF X, base
<1>5. \A x \in X, j \in 1..m : F[<<x, j>>] = Dedupe!Moved(x, bs[j - 1]) /\ F[<<x, j>>] \in X
  BY <1>2, <1>3
<1> HIDE DEF F
<1>6. PICK u : Rounds(base, F, u, m) /\ \A j \in 0..m : u[j] \in X
  BY <1>4, <1>5, RoundsExist
<1>7. Is(u)
  <2>1. ASSUME NEW b \in 0..m
        PROVE  u[b] = IF b = 0 THEN base ELSE Dedupe!Moved(u[b - 1], bs[b - 1])
    <3>1. u[b] = IF b = 0 THEN base ELSE F[<<u[b - 1], b>>]
      BY <1>6 DEF Rounds
    <3>2. b # 0 => b - 1 \in 0..m /\ b \in 1..m
      OBVIOUS
    <3>3. b # 0 => F[<<u[b - 1], b>>] = Dedupe!Moved(u[b - 1], bs[b - 1])
      BY <1>5, <1>6, <3>2
    <3> QED
      BY <3>1, <3>3
  <2>2. u = [b \in 0..m |-> u[b]]
    BY <1>6 DEF Rounds
  <2> QED
    BY <2>1, <2>2
<1>8. Is(g)
  BY <1>7
<1>9. Dedupe!Grown(bs) = g[m]
  BY <1>2 DEF Dedupe!Grown, M, base
<1> HIDE DEF g
<1>10. ASSUME NEW b \in 0..m - 1, NEW R \in SUBSET Value, Exact(Value, hash_int, g[b], R, M),
              R \cap Chain(hash_int, P, m, b) = {}
       PROVE  Exact(Value, hash_int, g[b + 1], R \cup Chain(hash_int, P, m, b), M)
  <2>1. g[b + 1] = Dedupe!Moved(g[b], bs[b])
    <3>1. b + 1 \in 0..m /\ (b + 1) - 1 = b /\ b + 1 # 0
      OBVIOUS
    <3> QED
      BY <1>8, <3>1
  <2>2. bs[b] \in Seq(Value) /\ Lists(bs[b], Chain(hash_int, P, m, b))
    BY <1>2 DEF Exact
  <2>3. Chain(hash_int, P, m, b) \in SUBSET Value
    BY DEF Chain
  <2> QED
    BY <1>1, <1>10, <2>1, <2>2, <2>3, MovedIs
<1>11. g[0] = base
  <2>1. 0 \in 0..m
    OBVIOUS
  <2> QED
    BY <1>8, <2>1
<1>12. hash_int \in [Value -> Nat]
  BY LabsAssumption DEF Dedupe!DedupeAssumption
<1>13. Exact(Value, hash_int, g[m], P, M)
  BY <1>1, <1>4, <1>10, <1>11, <1>12, GrownIsExact
<1> QED
  BY <1>9, <1>13 DEF M

\* set_contains finds what the array holds.
LEMMA ContainsIs ==
  ASSUME NEW m \in Nat \ {0}, NEW P \in SUBSET Value, Exact(Value, hash_int, buckets, P, m),
         NEW v \in Value
  PROVE  Dedupe!set_contains(v) <=> v \in P
<1> DEFINE h == hash_int[v] % m
<1>1. h \in 0..m - 1 /\ Dedupe!BucketOf(v, buckets) = h
  BY DedupeBucketIs DEF Exact
<1>2. Lists(buckets[h], Chain(hash_int, P, m, h)) /\ buckets[h] \in Seq(Value)
  BY <1>1 DEF Exact, Arrays
<1>3. v \in P <=> v \in Chain(hash_int, P, m, h)
  BY DEF Chain
<1> HIDE DEF h
<1>4. v \in P <=> \E j \in 1..Len(buckets[h]) : buckets[h][j] = v
  BY <1>2, <1>3 DEF Lists
<1> QED
  BY <1>1, <1>2, <1>4, DedupeNames DEF Dedupe!set_contains

-------------------------------------------------------------------------------
(* 020_dedupe_list: the list *)

\* The nodes that were not given back, and what comes after m among those of R.
Live == (1..Len(val)) \ {freed[j] : j \in 1..Len(freed)}
Follows(R, m, x) == IF x = 0 THEN \A y \in R : y <= m
                             ELSE x \in R /\ m < x /\ \A y \in R : m < y => x <= y
Seen == {val[m] : m \in 1..Dedupe!Passed}

DedupeTypes ==
    /\ phase \in {"build", "scan", "free", "end"}
    /\ val \in Seq(Value) /\ Len(val) <= MaxNodes
    /\ next \in Seq(Nat) /\ Len(next) = Len(val)
    /\ freed \in Seq(1..Len(val))

\* The links lead from each live node to the next one.
LinksInv ==
    /\ Follows(Live, 0, head)
    /\ \A m \in Live : Follows(Live, m, next[m])
    /\ \A j, k \in 1..Len(freed) : freed[j] = freed[k] => j = k

BuildInv ==
    phase = "build" =>
        /\ tail = Len(val) /\ freed = <<>> /\ prev = 0
        /\ Exact(Value, hash_int, buckets, {}, nbuckets0) /\ count = 0

\* While the list is scanned, prev is the live node before cur.
ScanInv ==
    phase = "scan" =>
        /\ cur \in 0..Len(val)
        /\ Live = Dedupe!Remaining
        /\ prev \in 0..Dedupe!Passed /\ (prev = 0 \/ prev \in Live)
        /\ Follows(Live, prev, cur)
        /\ \E m \in Nat \ {0} : Exact(Value, hash_int, buckets, Seen, m) /\ count * 4 <= m * 3
        /\ count = Cardinality(Seen)

DedupeInv == DedupeTypes /\ LinksInv /\ BuildInv /\ ScanInv /\ (phase = "end" => head = 0)

LEMMA DedupeStarts == Dedupe!DedupeInit => DedupeInv
<1> SUFFICES ASSUME Dedupe!DedupeInit PROVE DedupeInv
  OBVIOUS
<1>1. /\ phase = "build" /\ val = <<>> /\ next = <<>> /\ head = 0 /\ tail = 0 /\ prev = 0
      /\ buckets = Dedupe!EmptyBuckets(nbuckets0) /\ count = 0 /\ freed = <<>>
  BY DEF Dedupe!DedupeInit, Dedupe!NULL
<1>2. nbuckets0 \in Nat /\ MaxNodes \in Nat
  BY LabsAssumption DEF Dedupe!DedupeAssumption
<1>3. DedupeTypes
  BY <1>1, <1>2 DEF DedupeTypes
<1>4. Live = {}
  BY <1>1 DEF Live
<1>5. LinksInv
  BY <1>1, <1>4 DEF LinksInv, Follows
<1>6. BuildInv
  <2>1. Exact(Value, hash_int, [b \in 0..nbuckets0 - 1 |-> <<>>], {}, nbuckets0)
    BY <1>2, EmptyIsExact
  <2>2. buckets = [b \in 0..nbuckets0 - 1 |-> <<>>]
    BY <1>1 DEF Dedupe!EmptyBuckets
  <2> QED
    BY <1>1, <2>1, <2>2 DEF BuildInv
<1> QED
  BY <1>1, <1>3, <1>5, <1>6 DEF DedupeInv, ScanInv

LEMMA PushKeeps ==
  ASSUME DedupeInv, NEW v \in Value, Dedupe!push_back(v)
  PROVE  DedupeInv'
<1> DEFINE L == Len(val)
           m == L + 1
<1>1. /\ phase = "build" /\ phase' = "build" /\ m <= MaxNodes
      /\ val' = Append(val, v)
      /\ next' = Append(IF tail # 0 THEN [next EXCEPT ![tail] = m] ELSE next, 0)
      /\ head' = IF tail # 0 THEN head ELSE m
      /\ tail' = m /\ prev' = prev /\ cur' = cur /\ buckets' = buckets /\ count' = count
      /\ freed' = freed
  BY DEF Dedupe!push_back, Dedupe!NULL
<1>2. /\ val \in Seq(Value) /\ next \in Seq(Nat) /\ Len(next) = L /\ L \in Nat /\ tail = L
      /\ freed = <<>> /\ prev = 0 /\ Exact(Value, hash_int, buckets, {}, nbuckets0) /\ count = 0
  BY <1>1 DEF DedupeInv, DedupeTypes, BuildInv
<1>3. val' \in Seq(Value) /\ Len(val') = m
  BY <1>1, <1>2
<1> DEFINE w == IF tail # 0 THEN [next EXCEPT ![tail] = m] ELSE next
<1>4. w \in Seq(Nat) /\ Len(w) = L /\ \A j \in 1..L : w[j] = IF j = L THEN m ELSE next[j]
  BY <1>2
<1> HIDE DEF w
<1>5. /\ next' \in Seq(Nat) /\ Len(next') = m /\ next'[m] = 0
      /\ \A j \in 1..L : next'[j] = IF j = L THEN m ELSE next[j]
  BY <1>1, <1>2, <1>4 DEF w
<1>6. DedupeTypes'
  BY <1>1, <1>2, <1>3, <1>5 DEF DedupeTypes
<1>7. Live = 1..L /\ Live' = 1..m
  BY <1>1, <1>2, <1>3 DEF Live
<1>8. Follows(1..L, 0, head) /\ \A j \in 1..L : Follows(1..L, j, next[j])
  BY <1>7 DEF DedupeInv, LinksInv
<1>9. Follows(1..m, 0, head')
  <2>1. CASE L = 0
    BY <1>1, <1>2, <2>1 DEF Follows
  <2>2. CASE L # 0
    <3>1. head' = head /\ 1 \in 1..L
      BY <1>1, <1>2, <2>2
    <3>2. head = 1
      BY <1>2, <1>8, <3>1 DEF Follows
    <3> QED
      BY <1>2, <3>1, <3>2 DEF Follows
  <2> QED
    BY <2>1, <2>2
<1>10. ASSUME NEW j \in 1..m PROVE Follows(1..m, j, next'[j])
  <2>1. CASE j = m
    BY <1>2, <1>5, <2>1 DEF Follows
  <2>2. CASE j = L
    BY <1>2, <1>5, <2>2 DEF Follows
  <2>3. CASE j < L
    <3>1. j + 1 \in 1..L /\ j \in 1..L /\ j # L
      BY <1>2, <2>3
    <3>2. next'[j] = next[j] /\ Follows(1..L, j, next[j])
      BY <1>5, <1>8, <3>1
    <3>3. next[j] = j + 1
      BY <1>2, <3>1, <3>2 DEF Follows
    <3> QED
      BY <1>2, <3>1, <3>2, <3>3 DEF Follows
  <2> QED
    BY <1>2, <2>1, <2>2, <2>3
<1> HIDE DEF m, L
<1>11. LinksInv'
  <2>1. Follows(Live', 0, head') /\ \A j \in Live' : Follows(Live', j, next'[j])
    BY <1>7, <1>9, <1>10
  <2>2. \A j, k \in 1..Len(freed') : freed'[j] = freed'[k] => j = k
    BY <1>1, <1>2
  <2> QED
    BY <2>1, <2>2 DEF LinksInv
<1>12. BuildInv' /\ ScanInv'
  BY <1>1, <1>2, <1>3 DEF BuildInv, ScanInv
<1> QED
  BY <1>1, <1>6, <1>11, <1>12 DEF DedupeInv

LEMMA StartScanKeeps ==
  ASSUME DedupeInv, Dedupe!StartScan
  PROVE  DedupeInv'
<1>1. /\ phase = "build" /\ phase' = "scan" /\ cur' = head /\ val' = val /\ next' = next
      /\ head' = head /\ tail' = tail /\ prev' = prev /\ buckets' = buckets /\ count' = count
      /\ freed' = freed
  BY DEF Dedupe!StartScan
<1>2. /\ freed = <<>> /\ prev = 0 /\ Exact(Value, hash_int, buckets, {}, nbuckets0) /\ count = 0
      /\ DedupeTypes /\ LinksInv /\ Len(val) \in Nat
  BY <1>1 DEF DedupeInv, BuildInv, DedupeTypes
<1>3. DedupeTypes' /\ Live' = Live
  BY <1>1, <1>2 DEF DedupeTypes, Live
<1>4. LinksInv'
  BY <1>1, <1>2, <1>3 DEF LinksInv
<1>5. Live = 1..Len(val)
  BY <1>2 DEF Live
<1>6. head \in 0..Len(val) /\ (head = 0 => Len(val) = 0) /\ (head # 0 => head = 1)
  <2>1. Follows(1..Len(val), 0, head)
    BY <1>2, <1>5 DEF LinksInv
  <2>2. CASE head = 0
    <3>1. \A y \in 1..Len(val) : y <= 0
      BY <2>1, <2>2 DEF Follows
    <3> QED
      BY <1>2, <2>2, <3>1
  <2>3. CASE head # 0
    <3>1. head \in 1..Len(val) /\ \A y \in 1..Len(val) : 0 < y => head <= y
      BY <2>1, <2>3 DEF Follows
    <3>2. 1 \in 1..Len(val)
      BY <1>2, <3>1
    <3> QED
      BY <1>2, <3>1, <3>2
  <2> QED
    BY <2>2, <2>3
<1>7. (Dedupe!Passed)' = 0
  BY <1>1, <1>6 DEF Dedupe!Passed, Dedupe!NULL
<1>8. Seen' = {} /\ (Dedupe!Remaining)' = 1..Len(val)
  BY <1>1, <1>7 DEF Seen, Dedupe!Remaining
<1>9. nbuckets0 \in Nat \ {0} /\ Cardinality({}) = 0
  BY LabsAssumption, FS_EmptySet DEF Dedupe!DedupeAssumption
<1>10. ScanInv'
  <2>1. Follows(Live, 0, head)
    BY <1>2 DEF LinksInv
  <2>2. cur' \in 0..Len(val') /\ Live' = (Dedupe!Remaining)'
    BY <1>1, <1>3, <1>5, <1>6, <1>8
  <2>3. prev' \in 0..(Dedupe!Passed)' /\ prev' = 0
    BY <1>1, <1>2, <1>7
  <2>4. Follows(Live', prev', cur')
    BY <1>1, <1>2, <1>3, <2>1
  <2>5. Exact(Value, hash_int, buckets', Seen', nbuckets0) /\ count' * 4 <= nbuckets0 * 3 /\ count' = Cardinality(Seen')
    BY <1>1, <1>2, <1>8, <1>9
  <2> QED
    BY <1>9, <2>2, <2>3, <2>4, <2>5 DEF ScanInv
<1> QED
  BY <1>1, <1>3, <1>4, <1>10 DEF DedupeInv, BuildInv

\* The values of the nodes passed, while one more is.
LEMMA SeenIs ==
  ASSUME DedupeInv, phase = "scan", cur # 0, val' = val,
         cur' = IF cur = Len(val) THEN 0 ELSE cur + 1
  PROVE  /\ cur \in 1..Len(val) /\ Len(val) \in Nat
         /\ Dedupe!Passed = cur - 1 /\ (Dedupe!Passed)' = cur
         /\ Seen = {val[m] : m \in 1..cur - 1} /\ Seen' = Seen \cup {val[cur]}
         /\ Seen \in SUBSET Value /\ val[cur] \in Value
         /\ IsFiniteSet(Seen) /\ Cardinality(Seen) \in Nat
<1>1. cur \in 1..Len(val) /\ Len(val) \in Nat /\ val \in Seq(Value)
  BY DEF DedupeInv, DedupeTypes, ScanInv
<1>2. Dedupe!Passed = cur - 1 /\ (Dedupe!Passed)' = cur
  BY <1>1 DEF Dedupe!Passed, Dedupe!NULL
<1>3. Seen = {val[m] : m \in 1..cur - 1} /\ Seen' = {val[m] : m \in 1..cur}
  BY <1>2 DEF Seen
<1>4. \A m : m \in 1..cur <=> m \in 1..cur - 1 \/ m = cur
  BY <1>1
<1>5. Seen' = Seen \cup {val[cur]}
  BY <1>3, <1>4
<1>6. Seen \in SUBSET Value /\ val[cur] \in Value
  BY <1>1, <1>3
<1>7. IsFiniteSet(Seen)
  <2>1. IsFiniteSet(1..cur - 1)
    BY <1>1, FS_Interval
  <2> DEFINE S == 1..cur - 1
             f == [m \in S |-> val[m]]
             T == {val[m] : m \in S}
  <2>2. f \in Surjection(S, T)
    BY DEF Surjection
  <2> HIDE DEF f, T
  <2>3. IsFiniteSet(T)
    BY <2>1, <2>2, FS_Surjection
  <2> QED
    BY <1>3, <2>3 DEF T
<1> QED
  BY <1>1, <1>2, <1>3, <1>5, <1>6, <1>7, FS_CardinalityType

\* While the list is scanned, the node after cur is the next one allocated.
LEMMA AfterCur ==
  ASSUME DedupeInv, phase = "scan", cur # 0
  PROVE  /\ cur \in Live /\ next[cur] = IF cur = Len(val) THEN 0 ELSE cur + 1
         /\ Live \subseteq 1..Len(val)
<1>1. cur \in 1..Len(val) /\ Len(val) \in Nat
  BY DEF DedupeInv, DedupeTypes, ScanInv
<1>2. Live = Dedupe!Remaining /\ Dedupe!Passed = cur - 1
  BY DEF DedupeInv, ScanInv, Dedupe!Passed, Dedupe!NULL
<1>3. \A m \in 1..Len(val) : m >= cur => m \in Live
  BY <1>1, <1>2 DEF Dedupe!Remaining
<1>4. Live \subseteq 1..Len(val)
  BY DEF Live
<1>5. cur \in Live /\ Follows(Live, cur, next[cur])
  BY <1>1, <1>3 DEF DedupeInv, LinksInv
<1> DEFINE x == next[cur]
<1>6. /\ x # 0 => x \in 1..Len(val) /\ cur < x /\ \A y \in Live : cur < y => x <= y
      /\ x = 0 => \A y \in Live : y <= cur
  BY <1>4, <1>5 DEF Follows
<1> HIDE DEF x
<1>7. cur = Len(val) => x = 0
  BY <1>1, <1>6
<1>8. cur # Len(val) => x = cur + 1
  <2> SUFFICES ASSUME cur # Len(val) PROVE x = cur + 1
    OBVIOUS
  <2>1. cur + 1 \in Live
    BY <1>1, <1>3
  <2>2. x # 0
    BY <1>1, <1>6, <2>1
  <2> QED
    BY <1>1, <1>6, <2>1, <2>2
<1> QED
  BY <1>4, <1>5, <1>7, <1>8 DEF x

\* A node whose value is new stays.
LEMMA KeepFirstKeeps ==
  ASSUME DedupeInv, Dedupe!KeepFirst
  PROVE  DedupeInv'
<1>1. /\ phase = "scan" /\ cur # 0 /\ ~Dedupe!set_contains(val[cur]) /\ Dedupe!set_add(val[cur])
      /\ prev' = cur /\ cur' = next[cur] /\ phase' = phase /\ val' = val /\ next' = next
      /\ head' = head /\ tail' = tail /\ freed' = freed
  BY DEF Dedupe!KeepFirst, Dedupe!NULL
<1>2. /\ cur \in Live /\ cur' = IF cur = Len(val) THEN 0 ELSE cur + 1
      /\ Live \subseteq 1..Len(val)
  BY <1>1, AfterCur
<1>3. /\ cur \in 1..Len(val) /\ Len(val) \in Nat
      /\ Dedupe!Passed = cur - 1 /\ (Dedupe!Passed)' = cur
      /\ Seen = {val[m] : m \in 1..cur - 1} /\ Seen' = Seen \cup {val[cur]}
      /\ Seen \in SUBSET Value /\ val[cur] \in Value
      /\ IsFiniteSet(Seen) /\ Cardinality(Seen) \in Nat
  BY <1>1, <1>2, SeenIs
<1>4. DedupeTypes /\ LinksInv /\ ScanInv
  BY DEF DedupeInv
<1>5. DedupeTypes' /\ Live' = Live
  BY <1>1, <1>4 DEF DedupeTypes, Live
<1>6. LinksInv'
  BY <1>1, <1>4, <1>5 DEF LinksInv
<1>7. PICK m \in Nat \ {0} : Exact(Value, hash_int, buckets, Seen, m) /\ count * 4 <= m * 3
  BY <1>1, <1>4 DEF ScanInv
<1>8. val[cur] \notin Seen
  BY <1>1, <1>3, <1>7, ContainsIs
<1>9. count \in Nat /\ count = Cardinality(Seen)
  BY <1>1, <1>3, <1>4 DEF ScanInv
<1>10. count' = count + 1 /\ Cardinality(Seen') = count + 1
  BY <1>1, <1>3, <1>8, <1>9, FS_AddElement DEF Dedupe!set_add
<1>11. \E p \in Nat \ {0} : Exact(Value, hash_int, buckets', Seen', p) /\ count' * 4 <= p * 3
  <2>1. Dedupe!nbuckets(buckets) = m
    BY <1>7, DedupeBucketIs DEF Exact
  <2>2. CASE Dedupe!MustGrow
    <3>1. buckets' = Dedupe!Chained(Dedupe!Grown(buckets), val[cur])
      BY <1>1, <2>2 DEF Dedupe!set_add
    <3>2. Exact(Value, hash_int, Dedupe!Grown(buckets), Seen, 2 * m) /\ 2 * m \in Nat \ {0}
      BY <1>3, <1>7, GrownIs
    <3>3. Exact(Value, hash_int, buckets', Seen', 2 * m)
      BY <1>3, <1>8, <3>1, <3>2, ChainedIs
    <3>4. count' * 4 <= (2 * m) * 3
      BY <1>7, <1>9, <1>10
    <3> QED
      BY <3>2, <3>3, <3>4
  <2>3. CASE ~Dedupe!MustGrow
    <3>1. buckets' = Dedupe!Chained(buckets, val[cur])
      BY <1>1, <2>3 DEF Dedupe!set_add
    <3>2. Exact(Value, hash_int, buckets', Seen', m)
      BY <1>3, <1>7, <1>8, <3>1, ChainedIs
    <3>3. count' * 4 <= m * 3
      BY <1>9, <1>10, <2>1, <2>3 DEF Dedupe!MustGrow
    <3> QED
      BY <3>2, <3>3
  <2> QED
    BY <2>2, <2>3
<1>12. Live' = (Dedupe!Remaining)'
  <2>1. Live = {j \in 1..Len(val) : j > cur - 1 \/ \A e \in 1..j - 1 : val[e] # val[j]}
    BY <1>1, <1>3, <1>4 DEF ScanInv, Dedupe!Remaining
  <2>2. (Dedupe!Remaining)' = {j \in 1..Len(val) : j > cur \/ \A e \in 1..j - 1 : val[e] # val[j]}
    BY <1>1, <1>3 DEF Dedupe!Remaining
  <2>3. ASSUME NEW j \in 1..Len(val)
        PROVE  (j > cur - 1 \/ \A e \in 1..j - 1 : val[e] # val[j])
                  <=> (j > cur \/ \A e \in 1..j - 1 : val[e] # val[j])
    <3>1. CASE j = cur
      BY <1>3, <1>8, <3>1
    <3>2. CASE j # cur
      BY <1>3, <3>2
    <3> QED
      BY <3>1, <3>2
  <2> QED
    BY <1>5, <2>1, <2>2, <2>3
<1>13. ScanInv'
  <2>1. cur' \in 0..Len(val') /\ prev' \in 0..(Dedupe!Passed)' /\ prev' \in Live'
    BY <1>1, <1>2, <1>3, <1>5
  <2>2. Follows(Live', prev', cur')
    BY <1>1, <1>2, <1>4, <1>5 DEF LinksInv
  <2> QED
    BY <1>10, <1>11, <1>12, <2>1, <2>2 DEF ScanInv
<1> QED
  BY <1>1, <1>5, <1>6, <1>13 DEF DedupeInv, BuildInv

\* A node whose value was seen is taken out: prev then leads to what cur led to.
LEMMA RemoveKeeps ==
  ASSUME DedupeInv, Dedupe!RemoveDuplicate
  PROVE  DedupeInv'
<1>1. /\ phase = "scan" /\ cur # 0 /\ Dedupe!set_contains(val[cur])
      /\ next' = [next EXCEPT ![prev] = next[cur], ![cur] = Dedupe!Garbage]
      /\ freed' = Append(freed, cur)
      /\ prev' = prev /\ cur' = next[cur] /\ phase' = phase /\ val' = val
      /\ head' = head /\ tail' = tail /\ buckets' = buckets /\ count' = count
  BY DEF Dedupe!RemoveDuplicate, Dedupe!NULL
<1>2. /\ cur \in Live /\ cur' = IF cur = Len(val) THEN 0 ELSE cur + 1
      /\ Live \subseteq 1..Len(val)
  BY <1>1, AfterCur
<1>3. /\ cur \in 1..Len(val) /\ Len(val) \in Nat
      /\ Dedupe!Passed = cur - 1 /\ (Dedupe!Passed)' = cur
      /\ Seen = {val[m] : m \in 1..cur - 1} /\ Seen' = Seen \cup {val[cur]}
      /\ Seen \in SUBSET Value /\ val[cur] \in Value
  BY <1>1, <1>2, SeenIs
<1>4. DedupeTypes /\ LinksInv /\ ScanInv
  BY DEF DedupeInv
<1>5. PICK m \in Nat \ {0} : Exact(Value, hash_int, buckets, Seen, m) /\ count * 4 <= m * 3
  BY <1>1, <1>4 DEF ScanInv
<1>6. val[cur] \in Seen
  BY <1>1, <1>3, <1>5, ContainsIs
<1>7. Seen' = Seen
  BY <1>3, <1>6
<1>8. PICK e \in 1..cur - 1 : val[e] = val[cur]
  BY <1>3, <1>6
<1>9. prev \in 0..cur - 1 /\ (prev = 0 \/ prev \in Live) /\ Follows(Live, prev, cur)
  BY <1>1, <1>3, <1>4 DEF ScanInv
<1>10. Live = {j \in 1..Len(val) : j > cur - 1 \/ \A c \in 1..j - 1 : val[c] # val[j]}
  BY <1>1, <1>3, <1>4 DEF ScanInv, Dedupe!Remaining
<1>11. prev # 0 /\ prev \in Live
  <2>1. 1 \in Live /\ 1 < cur
    BY <1>3, <1>8, <1>10
  <2> QED
    BY <1>1, <1>3, <1>9, <2>1 DEF Follows
<1>12. /\ freed' \in Seq(1..Len(val)) /\ Len(freed') = Len(freed) + 1 /\ Len(freed) \in Nat
       /\ freed'[Len(freed) + 1] = cur /\ \A j \in 1..Len(freed) : freed'[j] = freed[j]
  BY <1>1, <1>3, <1>4 DEF DedupeTypes
<1>13. Live' = Live \ {cur}
  <2>1. \A j : j \in 1..Len(freed') <=> j \in 1..Len(freed) \/ j = Len(freed) + 1
    BY <1>12
  <2>2. {freed'[j] : j \in 1..Len(freed')} = {freed[j] : j \in 1..Len(freed)} \cup {cur}
    BY <1>12, <2>1
  <2> QED
    BY <1>1, <2>2 DEF Live
<1>14. /\ next' \in Seq(Nat) /\ Len(next') = Len(next)
       /\ \A j \in 1..Len(val) : j # cur => next'[j] = IF j = prev THEN next[cur] ELSE next[j]
  <2>1. next \in Seq(Nat) /\ Len(next) = Len(val) /\ Dedupe!Garbage \in Nat
    BY <1>4, LabsAssumption DEF DedupeTypes, Dedupe!DedupeAssumption, Dedupe!Garbage
  <2>2. next[cur] \in Nat /\ prev \in 1..Len(val)
    BY SMTT(30), ZenonT(30), <1>2, <1>3, <1>11, <2>1
  <2> DEFINE x == next[cur]
             g == Dedupe!Garbage
             u == [next EXCEPT ![prev] = x, ![cur] = g]
  <2>3. next' = u
    BY <1>1
  <2> HIDE DEF x, g
  <2>4. u \in Seq(Nat) /\ Len(u) = Len(next)
    BY <1>3, <2>1, <2>2 DEF x, g
  <2>5. \A j \in 1..Len(val) : j # cur => u[j] = IF j = prev THEN x ELSE next[j]
    BY <1>3, <2>1, <2>2
  <2> QED
    BY <2>3, <2>4, <2>5 DEF x
<1>15. DedupeTypes'
  BY <1>1, <1>4, <1>12, <1>14 DEF DedupeTypes
<1>16. cur' = next[cur] /\ Follows(Live, cur, next[cur])
  BY <1>1, <1>2, <1>4 DEF LinksInv
<1>17. Follows(Live', prev, next[cur])
  <2>1. ASSUME NEW y \in Live', prev < y PROVE y # cur /\ cur < y
    BY <1>2, <1>3, <1>9, <1>13, <2>1 DEF Follows
  <2>2. CASE next[cur] = 0
    <3>1. \A y \in Live' : y <= cur
      BY <1>13, <1>16, <2>2 DEF Follows
    <3>2. \A y \in Live' : y \in Nat
      BY <1>2, <1>13
    <3>3. \A y \in Live' : y <= prev
      BY <1>3, <1>9, <2>1, <3>1, <3>2
    <3> QED
      BY <2>2, <3>3 DEF Follows
  <2>3. CASE next[cur] # 0
    <3>1. next[cur] \in Live /\ cur < next[cur] /\ \A y \in Live : cur < y => next[cur] <= y
      BY <1>16, <2>3 DEF Follows
    <3>2. next[cur] \in Live' /\ prev < next[cur]
      <4> DEFINE x == next[cur]
      <4>1. x \in Live /\ x \in 1..Len(val) /\ cur < x
        BY <1>2, <3>1
      <4> HIDE DEF x
      <4>2. x # cur /\ prev < x
        BY <1>3, <1>9, <4>1
      <4> QED
        BY <1>13, <4>1, <4>2 DEF x
    <3>3. \A y \in Live' : prev < y => next[cur] <= y
      BY <1>13, <2>1, <3>1
    <3> QED
      BY <2>3, <3>2, <3>3 DEF Follows
  <2> QED
    BY <2>2, <2>3
<1>18. LinksInv'
  <2>1. Follows(Live', 0, head')
    <3>1. Follows(Live, 0, head) /\ prev \in Live /\ 0 < prev /\ prev < cur
      BY <1>3, <1>4, <1>9, <1>11 DEF LinksInv
    <3>2. head \in Live /\ head <= prev /\ \A y \in Live : 0 < y => head <= y
      <4>1. head # 0
        BY <1>2, <3>1 DEF Follows
      <4> QED
        BY <3>1, <4>1 DEF Follows
    <3>3. head # cur /\ head # 0
      BY <1>2, <1>3, <3>1, <3>2
    <3> QED
      BY <1>1, <1>2, <1>13, <3>2, <3>3 DEF Follows
  <2>2. ASSUME NEW j \in Live' PROVE Follows(Live', j, next'[j])
    <3>1. j \in Live /\ j # cur /\ j \in 1..Len(val)
      BY <1>2, <1>13
    <3>2. CASE j = prev
      BY <1>14, <1>17, <3>1, <3>2
    <3>3. CASE j # prev
      <4>1. next'[j] = next[j] /\ Follows(Live, j, next[j])
        BY <1>4, <1>14, <3>1, <3>3 DEF LinksInv
      <4>2. next[j] # cur
        <5> SUFFICES ASSUME next[j] = cur PROVE FALSE
          OBVIOUS
        <5>1. j < cur /\ \A y \in Live : j < y => cur <= y
          BY <1>3, <4>1 DEF Follows
        <5>2. ~(j < prev)
          BY <1>3, <1>9, <1>11, <5>1
        <5>3. prev < j => cur <= j
          BY <1>1, <1>9, <3>1 DEF Follows
        <5> QED
          BY <1>3, <1>9, <3>1, <3>3, <5>1, <5>2, <5>3
      <4> QED
        BY <1>13, <4>1, <4>2 DEF Follows
    <3> QED
      BY <3>2, <3>3
  <2>3. ASSUME NEW j \in 1..Len(freed'), NEW k \in 1..Len(freed'), freed'[j] = freed'[k] PROVE j = k
    <3>1. \A c \in 1..Len(freed) : freed[c] # cur
      BY <1>2 DEF Live
    <3>2. \A c \in 1..Len(freed') : c # Len(freed) + 1 => c \in 1..Len(freed)
      BY <1>12
    <3>3. \A c, d \in 1..Len(freed) : freed[c] = freed[d] => c = d
      BY <1>4 DEF LinksInv
    <3> QED
      BY <1>12, <2>3, <3>1, <3>2, <3>3
  <2> QED
    BY <2>1, <2>2, <2>3 DEF LinksInv
<1>19. Live' = (Dedupe!Remaining)'
  <2>1. (Dedupe!Remaining)' = {j \in 1..Len(val) : j > cur \/ \A c \in 1..j - 1 : val[c] # val[j]}
    BY <1>1, <1>3 DEF Dedupe!Remaining
  <2>2. ASSUME NEW j \in 1..Len(val)
        PROVE  (j > cur \/ \A c \in 1..j - 1 : val[c] # val[j])
                  <=> j # cur /\ (j > cur - 1 \/ \A c \in 1..j - 1 : val[c] # val[j])
    <3>1. CASE j = cur
      BY <1>3, <1>8, <3>1
    <3>2. CASE j # cur
      BY <1>3, <3>2
    <3> QED
      BY <3>1, <3>2
  <2> QED
    BY <1>10, <1>13, <2>1, <2>2
<1>20. ScanInv'
  <2>1. cur' \in 0..Len(val') /\ prev' \in 0..(Dedupe!Passed)' /\ prev' \in Live'
    BY <1>1, <1>2, <1>3, <1>9, <1>11, <1>13
  <2>2. Follows(Live', prev', cur')
    BY <1>1, <1>17
  <2>3. Exact(Value, hash_int, buckets', Seen', m) /\ count' * 4 <= m * 3 /\ count' = Cardinality(Seen')
    BY <1>1, <1>4, <1>5, <1>7 DEF ScanInv
  <2> QED
    BY <1>19, <2>1, <2>2, <2>3 DEF ScanInv
<1> QED
  BY <1>1, <1>15, <1>18, <1>20 DEF DedupeInv, BuildInv

LEMMA FreeHeadKeeps ==
  ASSUME DedupeInv, Dedupe!FreeHead
  PROVE  DedupeInv'
<1>1. /\ phase = "free" /\ phase' = "free" /\ head # 0 /\ freed' = Append(freed, head)
      /\ next' = [next EXCEPT ![head] = Dedupe!Garbage] /\ head' = next[head] /\ val' = val
  BY DEF Dedupe!FreeHead, Dedupe!NULL
<1>2. DedupeTypes /\ LinksInv /\ Len(val) \in Nat
  BY DEF DedupeInv, DedupeTypes
<1>3. head \in Live /\ 0 < head /\ \A y \in Live : 0 < y => head <= y
  BY <1>1, <1>2 DEF LinksInv, Follows
<1>4. Live \subseteq 1..Len(val) /\ \A y \in Live : y \in Nat /\ head <= y
  BY <1>3 DEF Live
<1>5. /\ freed' \in Seq(1..Len(val)) /\ Len(freed') = Len(freed) + 1 /\ Len(freed) \in Nat
      /\ freed'[Len(freed) + 1] = head /\ \A j \in 1..Len(freed) : freed'[j] = freed[j]
  BY <1>1, <1>2, <1>3, <1>4 DEF DedupeTypes
<1>6. Live' = Live \ {head}
  <2>1. \A j : j \in 1..Len(freed') <=> j \in 1..Len(freed) \/ j = Len(freed) + 1
    BY <1>5
  <2>2. {freed'[j] : j \in 1..Len(freed')} = {freed[j] : j \in 1..Len(freed)} \cup {head}
    BY <1>5, <2>1
  <2> QED
    BY <1>1, <2>2 DEF Live
<1>7. /\ next' \in Seq(Nat) /\ Len(next') = Len(next)
      /\ \A j \in 1..Len(val) : j # head => next'[j] = next[j]
  <2>1. next \in Seq(Nat) /\ Len(next) = Len(val) /\ Dedupe!Garbage \in Nat
    BY <1>2, LabsAssumption DEF DedupeTypes, Dedupe!DedupeAssumption, Dedupe!Garbage
  <2> QED
    BY <1>1, <1>3, <1>4, <2>1
<1>8. DedupeTypes'
  BY <1>1, <1>2, <1>5, <1>7 DEF DedupeTypes
<1>9. LinksInv'
  <2>1. Follows(Live', 0, head')
    <3> DEFINE x == next[head]
    <3>1. Follows(Live, head, x)
      BY <1>2, <1>3 DEF LinksInv
    <3>2. head' = x
      BY <1>1
    <3> HIDE DEF x
    <3>3. \A y \in Live' : y \in Live /\ y \in Nat /\ head < y
      BY <1>4, <1>6, <1>3
    <3>6. /\ x = 0 => \A y \in Live : y <= head
          /\ x # 0 => x \in Live /\ head < x /\ \A y \in Live : head < y => x <= y
      BY <3>1 DEF Follows
    <3>4. CASE x = 0
      <4>1. \A y \in Live' : FALSE
        BY <1>3, <1>4, <3>3, <3>6, <3>4
      <4> QED
        BY <3>2, <3>4, <4>1 DEF Follows
    <3>5. CASE x # 0
      <4>1. x \in Live /\ x \in Nat /\ head < x
        BY <1>4, <3>6, <3>5
      <4>2. x \in Live' /\ 0 < x
        BY <1>3, <1>4, <1>6, <3>5, <4>1
      <4>3. \A y \in Live' : x <= y
        BY <3>3, <3>6, <3>5
      <4> QED
        BY <3>2, <3>5, <4>2, <4>3 DEF Follows
    <3> QED
      BY <3>4, <3>5
  <2>2. ASSUME NEW j \in Live' PROVE Follows(Live', j, next'[j])
    <3>1. j \in Live /\ j # head /\ j \in 1..Len(val) /\ head < j
      BY <1>3, <1>4, <1>6
    <3> DEFINE x == next[j]
    <3>2. next'[j] = x /\ Follows(Live, j, x)
      BY <1>2, <1>7, <3>1 DEF LinksInv
    <3> HIDE DEF x
    <3>3. x # 0 => x \in Live /\ x # head
      BY <1>3, <1>4, <3>1, <3>2 DEF Follows
    <3> QED
      BY <1>6, <3>2, <3>3 DEF Follows
  <2>3. ASSUME NEW j \in 1..Len(freed'), NEW k \in 1..Len(freed'), freed'[j] = freed'[k] PROVE j = k
    <3>1. \A c \in 1..Len(freed) : freed[c] # head
      BY <1>3 DEF Live
    <3>2. \A c \in 1..Len(freed') : c # Len(freed) + 1 => c \in 1..Len(freed)
      BY <1>5
    <3>3. \A c, d \in 1..Len(freed) : freed[c] = freed[d] => c = d
      BY <1>2 DEF LinksInv
    <3> QED
      BY <1>5, <2>3, <3>1, <3>2, <3>3
  <2> QED
    BY <2>1, <2>2, <2>3 DEF LinksInv
<1> QED
  BY <1>1, <1>8, <1>9 DEF DedupeInv, BuildInv, ScanInv

LEMMA EndKeeps ==
  ASSUME DedupeInv, Dedupe!EndScan \/ Dedupe!EndCheck \/ UNCHANGED dedupe
  PROVE  DedupeInv'
<1>1. CASE Dedupe!EndScan \/ Dedupe!EndCheck
  <2>1. /\ phase' \in {"free", "end"} /\ (phase' = "end" => head = 0)
        /\ val' = val /\ next' = next /\ head' = head /\ freed' = freed
    BY <1>1 DEF Dedupe!EndScan, Dedupe!EndCheck, Dedupe!NULL
  <2>2. DedupeTypes /\ LinksInv
    BY DEF DedupeInv
  <2>3. DedupeTypes' /\ Live' = Live
    BY <2>1, <2>2 DEF DedupeTypes, Live
  <2>4. LinksInv'
    BY <2>1, <2>2, <2>3 DEF LinksInv
  <2> QED
    BY <2>1, <2>3, <2>4 DEF DedupeInv, BuildInv, ScanInv
<1>2. CASE UNCHANGED dedupe
  <2>1. /\ phase' = phase /\ val' = val /\ next' = next /\ head' = head /\ tail' = tail
        /\ prev' = prev /\ cur' = cur /\ buckets' = buckets /\ count' = count /\ freed' = freed
    BY <1>2 DEF dedupe
  <2>2. Live' = Live /\ Seen' = Seen /\ (Dedupe!Passed)' = Dedupe!Passed
        /\ (Dedupe!Remaining)' = Dedupe!Remaining
    BY <2>1 DEF Live, Seen, Dedupe!Passed, Dedupe!Remaining
  <2>3. DedupeTypes' /\ LinksInv' /\ BuildInv'
    BY <2>1, <2>2 DEF DedupeInv, DedupeTypes, LinksInv, BuildInv
  <2>4. ScanInv'
    BY <2>1, <2>2 DEF DedupeInv, ScanInv
  <2> QED
    BY <2>1, <2>3, <2>4 DEF DedupeInv
<1> QED
  BY <1>1, <1>2

LEMMA DedupeNextKeeps == DedupeInv /\ [Dedupe!DedupeNext]_dedupe => DedupeInv'
  BY PushKeeps, StartScanKeeps, RemoveKeeps, KeepFirstKeeps, FreeHeadKeeps, EndKeeps
     DEF Dedupe!DedupeNext

-------------------------------------------------------------------------------
(* 020_dedupe_list: what the walk from the head finds *)

\* A walk over the live nodes so far: those up to its last one, in order, and no more.
Walked(w) ==
    LET l == w[Len(w)] IN
    /\ w \in Seq(Nat) /\ Len(w) > 0
    /\ \A j \in 1..Len(w) - 1 : w[j] \in Live
    /\ l = 0 \/ l \in Live
    /\ \A j \in 1..Len(w) - 2 : w[j] < w[j + 1]
    /\ \A j \in 1..Len(w) - 1 : l # 0 => w[j] < l
    /\ \A y \in Live : l = 0 \/ y <= l => \E j \in 1..Len(w) : w[j] = y

\* Each node of it is at least as high as its place.
LEMMA WalkRises ==
  ASSUME NEW w, Walked(w), w[Len(w)] # 0
  PROVE  w[Len(w)] >= Len(w) /\ w[Len(w)] \in 1..Len(val)
<1> DEFINE N == Len(w)
           S == {m \in Nat : m < N => w[m + 1] >= m + 1}
<1>1. /\ w \in Seq(Nat) /\ N \in Nat /\ N > 0 /\ w[N] \in Live /\ Live \subseteq 1..Len(val)
      /\ \A j \in 1..N - 2 : w[j] < w[j + 1]
      /\ \A j \in 1..N - 1 : w[j] < w[N] /\ w[j] \in Live
  BY DEF Walked, Live
<1>2. \A j \in 1..N : w[j] \in 1..Len(val) /\ w[j] \in Nat /\ w[j] > 0
  BY <1>1
<1>3. \A j \in 1..N - 1 : w[j] < w[j + 1]
  <2> SUFFICES ASSUME NEW j \in 1..N - 1 PROVE w[j] < w[j + 1]
    OBVIOUS
  <2>1. j \in 1..N - 2 \/ j + 1 = N
    BY <1>1
  <2> QED
    BY <1>1, <2>1
<1> HIDE DEF N
<1>4. 0 \in S
  BY <1>1, <1>2
<1>5. ASSUME NEW m \in Nat, m \in S PROVE m + 1 \in S
  <2> SUFFICES ASSUME m + 1 < N PROVE w[(m + 1) + 1] >= (m + 1) + 1
    OBVIOUS
  <2>1. m + 1 \in 1..N - 1 /\ m + 1 \in 1..N /\ (m + 1) + 1 \in 1..N /\ m < N
    BY <1>1
  <2>2. w[m + 1] >= m + 1 /\ w[m + 1] < w[(m + 1) + 1]
    BY <1>3, <1>5, <2>1
  <2>3. w[m + 1] \in Nat /\ w[(m + 1) + 1] \in Nat
    BY <1>2, <2>1
  <2> QED
    BY <2>2, <2>3
<1> HIDE DEF S
<1>6. N - 1 \in S /\ N - 1 < N /\ (N - 1) + 1 = N /\ N \in 1..N
  <2>1. Nat \subseteq S
    BY <1>4, <1>5, NatSetInduction
  <2> QED
    BY <1>1, <2>1
<1>7. w[N] >= N
  BY <1>6 DEF S
<1> QED
  BY <1>2, <1>6, <1>7 DEF N

Onward(w) == IF w[Len(w)] \in {0, Dedupe!Garbage} THEN w ELSE Append(w, next[w[Len(w)]])

LEMMA WalkGoesOn ==
  ASSUME DedupeInv, NEW w, Walked(w)
  PROVE  /\ Walked(Onward(w))
         /\ w[Len(w)] = 0 => Onward(w) = w
         /\ w[Len(w)] # 0 => Len(Onward(w)) = Len(w) + 1
<1> DEFINE N == Len(w)
           l == w[N]
           x == next[l]
           u == Append(w, x)
<1>1. /\ w \in Seq(Nat) /\ N \in Nat /\ N > 0 /\ l \in Nat
      /\ \A j \in 1..N - 1 : w[j] \in Live
      /\ l = 0 \/ l \in Live
      /\ \A j \in 1..N - 2 : w[j] < w[j + 1]
      /\ \A j \in 1..N - 1 : l # 0 => w[j] < l
      /\ \A y \in Live : l = 0 \/ y <= l => \E j \in 1..N : w[j] = y
  BY DEF Walked
<1>2. CASE l = 0
  <2>1. Onward(w) = w
    BY <1>2 DEF Onward
  <2> QED
    BY <1>2, <2>1
<1>3. CASE l # 0
  <2>1. /\ l \in Live /\ Live \subseteq 1..Len(val) /\ Len(val) \in Nat /\ Len(val) <= MaxNodes
        /\ next \in Seq(Nat) /\ Len(next) = Len(val)
    BY <1>1, <1>3 DEF Live, DedupeInv, DedupeTypes
  <2>2. l # Dedupe!Garbage
    BY <2>1, LabsAssumption DEF Dedupe!Garbage, Dedupe!DedupeAssumption
  <2>3. Onward(w) = u
    BY <1>3, <2>2 DEF Onward
  <2>4. /\ x \in Nat
        /\ x = 0 => \A y \in Live : y <= l
        /\ x # 0 => x \in Live /\ l < x /\ \A y \in Live : l < y => x <= y
    <3>1. Follows(Live, l, x)
      BY <2>1 DEF DedupeInv, LinksInv
    <3>2. x \in Nat
      <4>1. l \in 1..Len(next)
        BY <2>1
      <4> HIDE DEF l
      <4> QED
        BY <2>1, <4>1
    <3> HIDE DEF x, l
    <3> QED
      BY <3>1, <3>2 DEF Follows
  <2> HIDE DEF x, l
  <2>5. /\ u \in Seq(Nat) /\ Len(u) = N + 1 /\ u[N + 1] = x
        /\ \A j \in 1..N : u[j] = w[j]
    BY <1>1, <2>4
  <2>6. w[N] = l
    BY DEF l
  <2> HIDE DEF u, N
  <2>7. ASSUME NEW j \in 1..N PROVE u[j] \in Live /\ u[j] \in Nat /\ u[j] <= l
    <3>1. CASE j = N
      BY <1>1, <2>1, <2>5, <2>6, <3>1
    <3>2. CASE j # N
      <4>1. j \in 1..N - 1
        BY <1>1, <3>2
      <4>2. u[j] \in Live /\ u[j] < l
        BY <1>1, <1>3, <2>5, <4>1
      <4>3. u[j] \in Nat
        <5>1. u[j] \in 1..Len(val)
          BY <2>1, <4>2
        <5> DEFINE z == u[j]
        <5>2. z \in 1..Len(val)
          BY <5>1
        <5> HIDE DEF z
        <5>3. z \in Nat
          BY <2>1, <5>2
        <5> QED
          BY <5>3 DEF z
      <4> QED
        BY <1>1, <4>2, <4>3
    <3> QED
      BY <3>1, <3>2
  <2>8. ASSUME NEW j \in 1..N - 1 PROVE u[j] < u[j + 1]
    <3>1. j \in 1..N /\ j + 1 \in 1..N /\ u[j] = w[j] /\ u[j + 1] = w[j + 1]
      BY <1>1, <2>5
    <3>2. CASE j + 1 = N
      BY <1>1, <1>3, <2>6, <3>1, <3>2
    <3>3. CASE j + 1 # N
      <4>1. j \in 1..N - 2
        BY <1>1, <3>3
      <4> QED
        BY <1>1, <3>1, <4>1
    <3> QED
      BY <3>2, <3>3
  <2>9. ASSUME NEW y \in Live, x = 0 \/ y <= x PROVE \E j \in 1..N + 1 : u[j] = y
    <3>1. CASE y <= l
      <4>1. PICK j \in 1..N : w[j] = y
        BY <1>1, <3>1
      <4>2. j \in 1..N + 1 /\ u[j] = y
        BY <1>1, <2>5, <4>1
      <4> QED
        BY <4>2
    <3>2. CASE ~(y <= l)
      <4>1. y \in Nat /\ l < y
        BY <1>1, <2>1, <3>2
      <4>2. x # 0 /\ x <= y
        BY <2>4, <3>2, <4>1
      <4>3. y = x /\ N + 1 \in 1..N + 1
        BY <1>1, <2>4, <2>9, <4>1, <4>2
      <4> QED
        BY <2>5, <4>3
    <3> QED
      BY <3>1, <3>2
  <2>10. Walked(u)
    <3>1. (N + 1) - 1 = N /\ (N + 1) - 2 = N - 1 /\ N + 1 > 0
      BY <1>1
    <3>2. \A j \in 1..N : x # 0 => u[j] < x
      BY <1>1, <2>4, <2>7
    <3> QED
      BY <2>4, <2>5, <2>7, <2>8, <2>9, <3>1, <3>2 DEF Walked
  <2>11. Len(u) = Len(w) + 1 /\ w[Len(w)] # 0
    BY <1>3, <2>5, <2>6 DEF N
  <2> QED
    BY <2>3, <2>10, <2>11
<1> QED
  BY <1>2, <1>3

\* The nodes from the head on are the live ones, in order, and NULL.
LEMMA NodesAre ==
  ASSUME DedupeInv
  PROVE  /\ Walked(Dedupe!Nodes) /\ Dedupe!Nodes[Len(Dedupe!Nodes)] = 0
<1> DEFINE X == {w \in Seq(Nat) : Walked(w)}
           N == MaxNodes
           base == <<head>>
           F == [a \in X \X (1..N) |-> Onward(a[1])]
           Is(h) == h = [k \in 0..N |-> IF k = 0 THEN base ELSE
                                         LET w == h[k - 1] IN
                                         IF w[Len(w)] \in {Dedupe!NULL, Dedupe!Garbage} THEN w
                                         ELSE Append(w, next[w[Len(w)]])]
           g == CHOOSE h : Is(h)
<1>1. N \in Nat
  BY LabsAssumption DEF Dedupe!DedupeAssumption
<1>2. \A w : Walked(w) <=> w \in X
  BY DEF Walked
<1>3. base \in X /\ Len(base) = 1
  <2>1. Follows(Live, 0, head) /\ Live \subseteq Nat \ {0}
    BY DEF DedupeInv, LinksInv, Live
  <2>2. /\ head \in Nat /\ (head = 0 \/ head \in Live)
        /\ \A y \in Live : head = 0 \/ y <= head => y = head
    <3>1. CASE head = 0
      <4>1. \A y \in Live : FALSE
        BY <2>1, <3>1 DEF Follows
      <4> QED
        BY <3>1, <4>1
    <3>2. CASE head # 0
      <4>1. head \in Live /\ \A y \in Live : 0 < y => head <= y
        BY <2>1, <3>2 DEF Follows
      <4>2. \A y \in Live : y \in Nat /\ 0 < y /\ head <= y
        BY <2>1, <4>1
      <4> QED
        BY <4>1, <4>2
    <3> QED
      BY <3>1, <3>2
  <2>3. /\ base \in Seq(Nat) /\ Len(base) = 1 /\ base[1] = head
    BY <2>2
  <2> HIDE DEF base
  <2>4. Walked(base)
    BY <2>2, <2>3 DEF Walked
  <2> QED
    BY <2>3, <2>4
<1> HIDE DEF X, base
<1>4. \A w \in X, j \in 1..N : F[<<w, j>>] = Onward(w) /\ F[<<w, j>>] \in X
  BY <1>2, WalkGoesOn
<1> HIDE DEF F, N
<1>5. PICK u : Rounds(base, F, u, N) /\ \A j \in 0..N : u[j] \in X
  BY <1>1, <1>3, <1>4, RoundsExist
<1>6. \A w : Onward(w) = IF w[Len(w)] \in {Dedupe!NULL, Dedupe!Garbage} THEN w
                         ELSE Append(w, next[w[Len(w)]])
  BY DedupeNames DEF Onward, Dedupe!NULL
<1>7. Is(u)
  <2>1. ASSUME NEW k \in 0..N
        PROVE  u[k] = IF k = 0 THEN base ELSE Onward(u[k - 1])
    <3>1. u[k] = IF k = 0 THEN base ELSE F[<<u[k - 1], k>>]
      BY <1>5 DEF Rounds
    <3>2. k # 0 => k - 1 \in 0..N /\ k \in 1..N
      BY <1>1
    <3>3. k # 0 => F[<<u[k - 1], k>>] = Onward(u[k - 1])
      BY <1>4, <1>5, <3>2
    <3> QED
      BY <3>1, <3>3
  <2>2. u = [k \in 0..N |-> u[k]]
    BY <1>5 DEF Rounds
  <2> QED
    BY <1>6, <2>1, <2>2
<1>8. Is(g)
  BY <1>7
<1>9. Dedupe!Nodes = g[N]
  BY DEF Dedupe!Nodes, N, base
<1> HIDE DEF g
<1>10. \A k \in 0..N : g[k] = IF k = 0 THEN base ELSE Onward(g[k - 1])
  BY <1>6, <1>8
<1> DEFINE S == {k \in Nat : k <= N => /\ Walked(g[k])
                                       /\ g[k][Len(g[k])] = 0 \/ Len(g[k]) = k + 1}
<1>11. 0 \in S
  BY <1>1, <1>2, <1>3, <1>10
<1>12. ASSUME NEW k \in Nat, k \in S PROVE k + 1 \in S
  <2> DEFINE w == g[k]
             v == g[k + 1]
  <2> SUFFICES ASSUME k + 1 <= N PROVE Walked(v) /\ (v[Len(v)] = 0 \/ Len(v) = (k + 1) + 1)
    OBVIOUS
  <2>1. k + 1 \in 0..N /\ k + 1 # 0 /\ (k + 1) - 1 = k /\ k <= N
    BY <1>1
  <2>2. v = Onward(w)
    BY <1>10, <2>1
  <2>3. Walked(w) /\ (w[Len(w)] = 0 \/ Len(w) = k + 1)
    BY <1>12, <2>1
  <2> HIDE DEF w, v
  <2> QED
    BY <2>2, <2>3, WalkGoesOn
<1> HIDE DEF S
<1>13. N \in S /\ N <= N
  <2>1. Nat \subseteq S
    BY <1>11, <1>12, NatSetInduction
  <2> QED
    BY <1>1, <2>1
<1> DEFINE w == g[N]
<1>14. Walked(w) /\ (w[Len(w)] = 0 \/ Len(w) = N + 1)
  BY <1>13 DEF S
<1> HIDE DEF w
<1>15. w[Len(w)] = 0
  <2> SUFFICES ASSUME w[Len(w)] # 0 PROVE FALSE
    OBVIOUS
  <2>1. w[Len(w)] >= N + 1 /\ w[Len(w)] \in 1..Len(val)
    BY <1>14, WalkRises
  <2>2. Len(val) \in Nat /\ Len(val) <= N
    BY DEF DedupeInv, DedupeTypes, N
  <2> QED
    BY <1>1, <2>1, <2>2
<1> QED
  BY <1>9, <1>14, <1>15 DEF w

\* remove_later_duplicates keeps exactly the first occurrences, in order; no link of the
\* list leads to a freed node, no node is freed twice, and none is left at the end; and the
\* set holds the values seen, through every growth (020_dedupe_list.c).  For any hash, any
\* number of buckets to begin with and lists of any length.
THEOREM FirstOccurrencesAreKeptHolds == Spec => []FirstOccurrencesAreKept
<1>1. Init => DedupeInv
  BY DedupeStarts DEF Init
<1>2. DedupeInv /\ [Next]_vars => DedupeInv'
  <2>1. [Next]_vars => [Dedupe!DedupeNext]_dedupe
    BY DEF Next, vars
  <2> QED
    BY <2>1, DedupeNextKeeps
<1>3. DedupeInv => FirstOccurrencesAreKept
  <2> SUFFICES ASSUME DedupeInv PROVE Dedupe!FirstOccurrencesAreKept
    BY DEF FirstOccurrencesAreKept
  <2> DEFINE w == Dedupe!Nodes
             N == Len(w)
             gone == Dedupe!Range(freed)
  <2>1. /\ w \in Seq(Nat) /\ N \in Nat /\ N > 0 /\ w[N] = 0
        /\ \A j \in 1..N - 1 : w[j] \in Live
        /\ \A j \in 1..N - 2 : w[j] < w[j + 1]
        /\ \A y \in Live : \E j \in 1..N : w[j] = y
    BY NodesAre DEF Walked
  <2>2. w[Len(w)] = 0 /\ Dedupe!Range(w) = {w[j] : j \in 1..N}
    BY <2>1, DedupeNames
  <2> HIDE DEF w
  <2>3. Dedupe!Range(w) = Live \cup {0}
    <3>1. \A j \in 1..N : j = N \/ j \in 1..N - 1
      BY <2>1
    <3>2. N \in 1..N
      BY <2>1
    <3> QED
      BY <2>1, <2>2, <3>1, <3>2
  <2>4. /\ freed \in Seq(1..Len(val)) /\ gone = {freed[j] : j \in 1..Len(freed)}
        /\ Len(val) \in Nat
    <3>1. freed \in Seq(1..Len(val)) /\ Len(val) \in Nat
      BY DEF DedupeInv, DedupeTypes
    <3> QED
      BY <3>1, DedupeNames
  <2>5. gone \subseteq 1..Len(val) /\ Live = (1..Len(val)) \ gone
    BY <2>4 DEF Live
  <2>6. Dedupe!IsInjective(freed)
    <3>1. \A j, k \in 1..Len(freed) : freed[j] = freed[k] => j = k
      BY DEF DedupeInv, LinksInv
    <3> QED
      BY <2>4, <3>1, DedupeNames
  <2> HIDE DEF gone
  <2>7. 0 \notin 1..Len(val)
    BY <2>4
  <2>8. /\ gone \cup (Dedupe!Range(w) \ {0}) = 1..Len(val)
        /\ gone \cap Dedupe!Range(w) = {}
    BY <2>3, <2>5, <2>7
  <2>9. ASSUME phase = "scan" PROVE Live = Dedupe!Remaining /\ Dedupe!SetIsExact
    <3>1. Live = Dedupe!Remaining /\ count = Cardinality(Seen)
      BY <2>9 DEF DedupeInv, ScanInv
    <3>2. PICK m \in Nat \ {0} : Exact(Value, hash_int, buckets, Seen, m) /\ count * 4 <= m * 3
      BY <2>9 DEF DedupeInv, ScanInv
    <3>3. Dedupe!nbuckets(buckets) = m /\ DOMAIN buckets = 0..m - 1 /\ buckets \in Arrays(Value, m)
      BY <3>2, ArraySize, DedupeBucketIs DEF Exact
    <3>4. ASSUME NEW b \in 0..m - 1
          PROVE  /\ Dedupe!Range(buckets[b]) = {v \in Seen : Dedupe!BucketOf(v, buckets) = b}
                 /\ Dedupe!IsInjective(buckets[b])
      <4> DEFINE s == buckets[b]
      <4>1. s \in Seq(Value) /\ Lists(s, Chain(hash_int, Seen, m, b))
        BY <3>2, <3>3 DEF Exact, Arrays
      <4> HIDE DEF s
      <4>2. Dedupe!Range(s) = Chain(hash_int, Seen, m, b)
        <5>1. Dedupe!Range(s) = {s[j] : j \in 1..Len(s)}
          BY <4>1, DedupeNames
        <5> QED
          BY <4>1, <5>1 DEF Lists
      <4>3. Chain(hash_int, Seen, m, b) = {v \in Seen : Dedupe!BucketOf(v, buckets) = b}
        BY <3>3 DEF Chain, Dedupe!BucketOf
      <4>4. Dedupe!IsInjective(s)
        <5>1. DOMAIN s = 1..Len(s) /\ \A j, k \in 1..Len(s) : s[j] = s[k] => j = k
          BY <4>1 DEF Lists
        <5> QED
          BY <5>1, DedupeNames
      <4> QED
        BY <4>2, <4>3, <4>4 DEF s
    <3>5. count = Dedupe!Cardinality(Seen)
      BY <3>1, DedupeNames
    <3> QED
      BY <3>1, <3>2, <3>3, <3>4, <3>5 DEF Dedupe!SetIsExact, Seen
  <2>10. phase = "end" => gone = 1..Len(val)
    <3> SUFFICES ASSUME phase = "end" PROVE Live = {}
      BY <2>5
    <3>1. Follows(Live, 0, 0)
      BY DEF DedupeInv, LinksInv
    <3>2. \A y \in Live : y \in Nat /\ ~(y <= 0)
      BY <2>4, <2>5
    <3> QED
      BY <3>1, <3>2 DEF Follows
  <2> QED
    BY <2>1, <2>2, <2>3, <2>6, <2>8, <2>9, <2>10
       DEF Dedupe!FirstOccurrencesAreKept, Dedupe!NULL, w, gone
<1> QED
  BY <1>1, <1>2, <1>3, PTL DEF Spec

-------------------------------------------------------------------------------
(* practice.py: the folders of the attempts *)

CaseIds == {Cases[j] : j \in 1..Len(Cases)}
Attempt == [date : Nat, case : CaseIds, n : Nat]
Content == [of : Attempt, by : Nat, sheet : Nat, log : Nat]
Calls   == {"prompt", "exists", "mkdir", "write_text", "input", "run_timer", "attempt_count"}

\* The folders that count for a case, those made for it, and the folder of the number below.
Of(S, c)  == {f \in S : Runner!IsPrefix(c, f.name)}
Mine(c)   == {f \in DOMAIN attempts : attempts[f].of.case = c}
Before(d) == Runner!Folder([d EXCEPT !.n = @ - 1])

RunnerTypes ==
    /\ attempts \in [DOMAIN attempts -> Content]
    /\ IsFiniteSet(DOMAIN attempts)
    /\ today \in Nat
    /\ runner_at \in [Terminals -> Calls]
    /\ run \in [Terminals -> 0..MaxCommands]
    /\ dir \in [Terminals -> Attempt]
    /\ listed \in [Terminals -> Seq(CaseIds)]
    /\ counts \in [Terminals -> Seq(Nat)]
    /\ made \in [CaseIds -> Nat]

\* A command that has made its folder writes into that, and one that has not yet found the
\* numbers below its own taken.
OwnInv ==
    \A t \in Terminals :
        /\ runner_at[t] \notin {"prompt", "attempt_count"} => run[t] # 0
        /\ runner_at[t] \in {"write_text", "input", "run_timer"} =>
              /\ Runner!Folder(dir[t]) \in DOMAIN attempts
              /\ attempts[Runner!Folder(dir[t])].by = run[t]
        /\ runner_at[t] \in {"input", "run_timer"} =>
              attempts[Runner!Folder(dir[t])].sheet = run[t]
        /\ runner_at[t] \in {"exists", "mkdir"} /\ dir[t].n > 1 =>
              Before(dir[t]) \in DOMAIN attempts

FoldersInv ==
    \A f \in DOMAIN attempts :
        /\ attempts[f].sheet \in {0, attempts[f].by} /\ attempts[f].log \in {0, attempts[f].by}
        /\ attempts[f].log # 0 => attempts[f].sheet # 0
        /\ attempts[f].of.n > 1 => Before(attempts[f].of) \in DOMAIN attempts

\* A folder has the name of the attempt it was made for, and there is one for every attempt.
MadeInv ==
    /\ \A f \in DOMAIN attempts : f = Runner!Folder(attempts[f].of)
    /\ \A c \in CaseIds : Cardinality(Mine(c)) = made[c]

\* What was counted is no more than there is, nor than what was counted after it.
CountsInv ==
    \A t \in Terminals :
        /\ runner_at[t] # "attempt_count" => counts[t] = <<>> /\ listed[t] = <<>>
        /\ runner_at[t] = "attempt_count" => listed[t] # <<>>
        /\ Len(counts[t]) <= 2 * Len(listed[t])
        /\ \A j \in 1..Len(counts[t]) :
              counts[t][j] <= Cardinality(Of(DOMAIN attempts, (listed[t] \o listed[t])[j]))
        /\ \A j \in 1..Len(listed[t]) :
              j + Len(listed[t]) <= Len(counts[t]) =>
                  counts[t][j] <= counts[t][j + Len(listed[t])]

RunnerInv == RunnerTypes /\ OwnInv /\ FoldersInv /\ MadeInv /\ CountsInv

LEMMA RunnerConstants ==
  /\ Cases \in Seq(CaseIds) /\ Len(Cases) \in Nat /\ Len(Cases) > 0
  /\ Runner!Range(Cases) = CaseIds
  /\ \A p \in DOMAIN Matching : \A c \in Matching[p] : Cases[c] \in CaseIds
  /\ \A family \in Families : family \in Seq(CaseIds)
  /\ \A c \in CaseIds : c \in Seq(Runner!Range(c))
  /\ MaxCommands \in Nat /\ MaxDate \in Nat
<1>1. /\ Cases # <<>> /\ Cases \in Seq(Runner!Range(Cases))
      /\ \A c \in Runner!Range(Cases) : c \in Seq(Runner!Range(c))
      /\ \A p \in DOMAIN Matching : Matching[p] \subseteq DOMAIN Cases
      /\ Families \subseteq Seq(Runner!Range(Cases))
      /\ MaxCommands \in Nat /\ MaxDate \in Nat
  BY LabsAssumption DEF Runner!RunnerAssumption
<1>2. Runner!Range(Cases) = CaseIds
  <2> DEFINE X == Runner!Range(Cases)
  <2>1. Cases \in Seq(X)
    BY <1>1
  <2> HIDE DEF X
  <2>2. DOMAIN Cases = 1..Len(Cases)
    BY <2>1
  <2> QED
    BY <2>2 DEF Runner!Range, CaseIds
<1>3. Len(Cases) \in Nat /\ Len(Cases) > 0
  <2> DEFINE X == Runner!Range(Cases)
  <2>1. Cases \in Seq(X) /\ Cases # <<>>
    BY <1>1
  <2> HIDE DEF X
  <2> QED
    BY <2>1, EmptySeq
<1>4. \A c \in DOMAIN Cases : Cases[c] \in CaseIds
  BY <1>2 DEF Runner!Range
<1> QED
  BY <1>1, <1>2, <1>3, <1>4

LEMMA RunnerNames ==
  /\ \A S : Runner!Cardinality(S) = Cardinality(S)
  /\ \A s : Runner!Range(s) = {s[j] : j \in DOMAIN s}
  /\ \A c : Runner!attempt_count(c) = Cardinality(Of(DOMAIN attempts, c))
<1>1. ASSUME NEW S PROVE Runner!Cardinality(S) = Cardinality(S)
  BY DEF Runner!Cardinality, Cardinality
<1>2. \A s : Runner!Range(s) = {s[j] : j \in DOMAIN s}
  BY DEF Runner!Range
<1>3. \A c : Runner!attempt_count(c) = Runner!Cardinality(Of(DOMAIN attempts, c))
  BY DEF Runner!attempt_count, Of
<1> QED
  BY <1>1, <1>2, <1>3

LEMMA WiderSeq ==
  ASSUME NEW X, NEW Y, X \subseteq Y, NEW s \in Seq(X)
  PROVE  s \in Seq(Y)
OBVIOUS

LEMMA PrefixIs ==
  ASSUME NEW X, NEW s \in Seq(X), NEW z \in Seq(X)
  PROVE  Runner!IsPrefix(s, z) <=> Len(s) <= Len(z) /\ \A j \in 1..Len(s) : s[j] = z[j]
<1> DEFINE l == Len(s)
           m == Len(z)
           u == SubSeq(s, 1, l)
           v == SubSeq(z, 1, l)
<1>1. l \in Nat /\ m \in Nat
  OBVIOUS
<1>2. Runner!IsPrefix(s, z) <=> l <= m /\ u = v
  BY DEF Runner!IsPrefix
<1>3. u = s
  BY SubSeqFull
<1>4. ASSUME l <= m
      PROVE  v \in Seq(X) /\ Len(v) = l /\ \A j \in 1..l : v[j] = z[j]
  BY <1>1, <1>4
<1> HIDE DEF u, v, m
<1>5. ASSUME l <= m, \A j \in 1..l : s[j] = z[j]
      PROVE  s = v
  <2>1. Len(s) = Len(v) /\ \A j \in 1..Len(s) : s[j] = v[j]
    BY <1>4, <1>5
  <2> QED
    BY <1>4, <1>5, <2>1, SeqEqual
<1> QED
  BY <1>2, <1>3, <1>4, <1>5 DEF m

\* The names of a case begin with its id, and are sequences of the characters of ids and of
\* their own.
LEMMA NameIs ==
  ASSUME NEW c \in CaseIds, NEW m \in Nat
  PROVE  \E X : /\ \A d \in CaseIds : d \in Seq(X)
                /\ Runner!Name(c, m) \in Seq(X)
                /\ Runner!IsPrefix(c, Runner!Name(c, m))
<1> DEFINE ten == Runner!decimal(m)
<1>1. PICK Y : ten \in Seq(Y)
  <2> DEFINE width == Runner!Cardinality({w \in 0..m : 10 ^ w <= m})
             R == {ten[j] : j \in 1..width}
  <2>1. width \in Nat
    <3> DEFINE W == {w \in 0..m : 10 ^ w <= m}
    <3>1. W \subseteq 0..m /\ IsFiniteSet(0..m)
      BY FS_Interval
    <3> HIDE DEF W
    <3>2. Cardinality(W) \in Nat
      BY <3>1, FS_Subset, FS_CardinalityType
    <3> QED
      BY <3>2, RunnerNames DEF W
  <2>2. DOMAIN ten = 1..width /\ ten = [j \in 1..width |-> ten[j]]
    BY DEF Runner!decimal
  <2> HIDE DEF ten, width
  <2>3. ten \in [1..width -> R]
    BY <2>2
  <2> HIDE DEF R
  <2>4. ten \in Seq(R)
    BY <2>1, <2>3
  <2> QED
    BY <2>4
<1> DEFINE ids == UNION {Runner!Range(d) : d \in CaseIds}
           X   == ids \cup {"_"} \cup Y
<1>2. \A d \in CaseIds : d \in Seq(X)
  <2> SUFFICES ASSUME NEW d \in CaseIds PROVE d \in Seq(X)
    OBVIOUS
  <2>1. d \in Seq(Runner!Range(d)) /\ Runner!Range(d) \subseteq X
    BY RunnerConstants
  <2> HIDE DEF X
  <2> QED
    BY <2>1, WiderSeq
<1> DEFINE bar == <<"_">>
<1>3. bar \in Seq(X) /\ ten \in Seq(X)
  <2>1. Y \subseteq X /\ "_" \in X
    OBVIOUS
  <2> HIDE DEF X, ten
  <2>2. bar \in Seq(X)
    <3>1. \A x \in X : <<x>> \in Seq(X)
      OBVIOUS
    <3> QED
      BY <2>1, <3>1
  <2>3. ten \in Seq(X)
    BY <1>1, <2>1, WiderSeq
  <2> QED
    BY <2>2, <2>3
<1> HIDE DEF X, ten
<1>4. CASE m = 1
  <2>1. Runner!Name(c, m) = c
    BY <1>4 DEF Runner!Name
  <2>2. Len(c) <= Len(c) /\ \A j \in 1..Len(c) : c[j] = c[j]
    BY <1>2
  <2> QED
    BY <1>2, <2>1, <2>2, PrefixIs
<1>5. CASE m # 1
  <2> DEFINE z == bar \o ten
             name == c \o z
  <2>1. Runner!Name(c, m) = name
    <3>1. Runner!Name(c, m) = (c \o bar) \o ten
      BY <1>5 DEF Runner!Name, ten
    <3> HIDE DEF bar
    <3>2. c \in Seq(X)
      BY <1>2
    <3>3. (c \o bar) \o ten = c \o (bar \o ten)
      BY <1>3, <3>2, ConcatAssociative
    <3> QED
      BY <3>1, <3>3
  <2> HIDE DEF bar
  <2>2. z \in Seq(X)
    BY <1>3, ConcatProperties
  <2> HIDE DEF z
  <2>3. /\ name \in Seq(X) /\ Len(name) = Len(c) + Len(z) /\ Len(c) \in Nat /\ Len(z) \in Nat
        /\ \A j \in 1..Len(c) : name[j] = c[j]
    BY <1>2, <2>2, ConcatProperties
  <2> HIDE DEF name
  <2>4. Runner!IsPrefix(c, name)
    <3>1. Len(c) <= Len(name)
      BY <2>3
    <3> QED
      BY <1>2, <2>3, <3>1, PrefixIs
  <2> QED
    BY <1>2, <2>1, <2>3, <2>4
<1> QED
  BY <1>4, <1>5

\* Of two ids that begin one name, one begins the other.
LEMMA OneBegins ==
  ASSUME NEW c \in CaseIds, NEW m \in Nat, NEW d \in CaseIds,
         Runner!IsPrefix(d, Runner!Name(c, m))
  PROVE  Runner!IsPrefix(d, c) \/ Runner!IsPrefix(c, d)
<1> DEFINE name == Runner!Name(c, m)
<1>1. PICK X : c \in Seq(X) /\ d \in Seq(X) /\ name \in Seq(X) /\ Runner!IsPrefix(c, name)
  BY NameIs
<1>2. Runner!IsPrefix(d, name)
  OBVIOUS
<1> HIDE DEF name
<1>3. /\ \A j \in 1..Len(c) : c[j] = name[j]
      /\ \A j \in 1..Len(d) : d[j] = name[j]
  BY <1>1, <1>2, PrefixIs
<1>4. Len(c) \in Nat /\ Len(d) \in Nat
  BY <1>1
<1>5. CASE Len(d) <= Len(c)
  <2>1. \A j \in 1..Len(d) : j \in 1..Len(c)
    BY <1>4, <1>5
  <2>2. \A j \in 1..Len(d) : d[j] = c[j]
    BY <1>3, <2>1
  <2> QED
    BY <1>1, <1>5, <2>2, PrefixIs
<1>6. CASE Len(c) <= Len(d)
  <2>1. \A j \in 1..Len(c) : j \in 1..Len(d)
    BY <1>4, <1>6
  <2>2. \A j \in 1..Len(c) : c[j] = d[j]
    BY <1>3, <2>1
  <2> QED
    BY <1>1, <1>6, <2>2, PrefixIs
<1> QED
  BY <1>4, <1>5, <1>6

\* The least of a set of numbers.
LEMMA LeastIs ==
  ASSUME NEW S \in SUBSET Nat, S # {}
  PROVE  Runner!Min(S) \in S /\ \A x \in S : Runner!Min(S) <= x
<1> DEFINE R == OpToRel(<, Nat)
<1>1. IsWellFoundedOn(R, Nat)
  BY NatLessThanWellFounded
<1>2. PICK x \in S : \A y \in S : ~(<<y, x>> \in R)
  BY <1>1, WFMin
<1>3. \A c, d \in Nat : <<c, d>> \in R <=> c < d
  BY DEF OpToRel
<1>4. ASSUME NEW y \in S PROVE x <= y
  <2>1. x \in Nat /\ y \in Nat
    OBVIOUS
  <2>2. ~(y < x)
    BY <1>2, <1>3, <2>1
  <2> QED
    BY <2>1, <2>2
<1> QED
  BY <1>4 DEF Runner!Min

\* The greatest of a set of numbers.
LEMMA GreatestIs ==
  ASSUME NEW N \in Nat, NEW S \in SUBSET (0..N), S # {}
  PROVE  \E x \in S : \A y \in S : x >= y
<1> DEFINE T == {N - x : x \in S}
           R == OpToRel(<, Nat)
<1>1. T \in SUBSET Nat /\ T # {}
  <2>1. \A x \in S : x \in 0..N
    OBVIOUS
  <2>2. \A x \in 0..N : N - x \in Nat
    OBVIOUS
  <2> QED
    BY <2>1, <2>2
<1>2. IsWellFoundedOn(R, Nat)
  BY NatLessThanWellFounded
<1>3. \A a, b \in Nat : <<a, b>> \in R <=> a < b
  BY DEF OpToRel
<1> HIDE DEF R
<1>4. PICK t \in T : \A z \in T : ~(<<z, t>> \in R)
  BY <1>1, <1>2, WFMin
<1>5. PICK x \in S : t = N - x
  BY <1>4
<1>6. ASSUME NEW y \in S PROVE x >= y
  <2>1. N - y \in T /\ x \in 0..N /\ y \in 0..N /\ t = N - x
    BY <1>5
  <2> HIDE DEF T
  <2>3. N - y \in Nat /\ t \in Nat /\ x \in Nat /\ y \in Nat
    BY <2>1
  <2>2. ~(N - y < t)
    BY <1>3, <1>4, <2>1, <2>3
  <2> QED
    BY <1>5, <2>1, <2>2, <2>3
<1> QED
  BY <1>6

LEMMA CommandsAre ==
  ASSUME RunnerTypes
  PROVE  Runner!Commands \in 0..MaxCommands
<1> DEFINE S == {0} \cup {run[t] : t \in Terminals}
<1>1. MaxCommands \in Nat /\ S \in SUBSET (0..MaxCommands) /\ S # {}
  <2>1. MaxCommands \in Nat
    BY RunnerConstants
  <2>2. \A t \in Terminals : run[t] \in 0..MaxCommands
    BY DEF RunnerTypes
  <2> QED
    BY <2>1, <2>2
<1>2. Runner!Commands = Runner!Max(S)
  BY DEF Runner!Commands
<1> HIDE DEF S
<1>3. \E x \in S : \A y \in S : x >= y
  BY <1>1, GreatestIs
<1>4. Runner!Max(S) \in S
  BY <1>3 DEF Runner!Max
<1> QED
  BY <1>1, <1>2, <1>4

LEMMA RunnerStarts == Runner!RunnerInit => RunnerInv
<1> SUFFICES ASSUME Runner!RunnerInit PROVE RunnerInv
  OBVIOUS
<1>1. /\ attempts = [f \in {} |-> Runner!Empty(Runner!NoAttempt, 0)] /\ today = 0
      /\ runner_at = [t \in Terminals |-> "prompt"] /\ run = [t \in Terminals |-> 0]
      /\ dir = [t \in Terminals |-> Runner!NoAttempt]
      /\ listed = [t \in Terminals |-> <<>>] /\ counts = [t \in Terminals |-> <<>>]
      /\ made = [c \in CaseIds |-> 0]
  BY RunnerConstants DEF Runner!RunnerInit
<1>2. Runner!NoAttempt \in Attempt
  <2>0. 1 \in 1..Len(Cases)
    <3>1. Len(Cases) \in Nat /\ Len(Cases) > 0
      BY RunnerConstants
    <3> DEFINE l == Len(Cases)
    <3> HIDE DEF l
    <3>2. 1 \in 1..l
      BY <3>1 DEF l
    <3> QED
      BY <3>2 DEF l
  <2>1. Cases[1] \in CaseIds
    BY <2>0 DEF CaseIds
  <2> QED
    BY <2>1 DEF Runner!NoAttempt, Attempt
<1>3. DOMAIN attempts = {} /\ IsFiniteSet({}) /\ Cardinality({}) = 0
  BY <1>1, FS_EmptySet
<1>4. attempts \in [DOMAIN attempts -> Content]
  BY <1>1, <1>3
<1>5. RunnerTypes
  <2>1. MaxCommands \in Nat
    BY RunnerConstants
  <2>2. IsFiniteSet(DOMAIN attempts)
    BY <1>3
  <2>3. runner_at \in [Terminals -> Calls] /\ run \in [Terminals -> 0..MaxCommands]
    BY <1>1, <2>1 DEF Calls
  <2>4. dir \in [Terminals -> Attempt]
    BY <1>1, <1>2
  <2>5. counts \in [Terminals -> Seq(Nat)] /\ listed \in [Terminals -> Seq(CaseIds)]
    BY <1>1
  <2>6. made \in [CaseIds -> Nat] /\ today \in Nat
    BY <1>1
  <2> QED
    BY <1>4, <2>2, <2>3, <2>4, <2>5, <2>6 DEF RunnerTypes
<1>6. OwnInv /\ FoldersInv
  BY <1>1, <1>3 DEF OwnInv, FoldersInv
<1>7. MadeInv
  <2>1. \A c : Mine(c) = {}
    BY <1>3 DEF Mine
  <2> QED
    BY <1>1, <1>3, <2>1 DEF MadeInv
<1>8. CountsInv
  <2>1. \A t \in Terminals : /\ counts[t] = <<>> /\ Len(counts[t]) = 0
                             /\ listed[t] = <<>> /\ Len(listed[t]) = 0
                             /\ runner_at[t] = "prompt"
    BY <1>1
  <2> QED
    BY <2>1 DEF CountsInv
<1> QED
  BY <1>5, <1>6, <1>7, <1>8 DEF RunnerInv

\* An action that leaves the folders alone.
LEMMA FoldersStay ==
  ASSUME RunnerInv, attempts' = attempts, made' = made
  PROVE  FoldersInv' /\ MadeInv'
<1>1. FoldersInv /\ MadeInv
  BY DEF RunnerInv
<1> QED
  BY <1>1 DEF FoldersInv, MadeInv, Mine, Before

\* A command that ends, forgets what it counted.
LEMMA CommandEnds ==
  ASSUME RunnerInv, NEW t \in Terminals,
         runner_at' = [runner_at EXCEPT ![t] = "prompt"],
         counts' = [counts EXCEPT ![t] = <<>>],
         listed' = [listed EXCEPT ![t] = <<>>],
         UNCHANGED <<attempts, today, run, dir, made>>
  PROVE  RunnerInv'
<1>1. RunnerTypes /\ OwnInv /\ CountsInv
  BY DEF RunnerInv
<1>2. /\ runner_at'[t] = "prompt" /\ \A u \in Terminals \ {t} : runner_at'[u] = runner_at[u]
      /\ counts'[t] = <<>> /\ \A u \in Terminals \ {t} : counts'[u] = counts[u]
      /\ listed'[t] = <<>> /\ \A u \in Terminals \ {t} : listed'[u] = listed[u]
  BY <1>1 DEF RunnerTypes
<1>3. RunnerTypes'
  BY <1>1 DEF RunnerTypes, Calls
<1>4. OwnInv'
  BY <1>1, <1>2 DEF OwnInv
<1>5. CountsInv'
  <2>1. SUFFICES ASSUME NEW u \in Terminals
        PROVE  /\ runner_at'[u] # "attempt_count" => counts'[u] = <<>> /\ listed'[u] = <<>>
               /\ runner_at'[u] = "attempt_count" => listed'[u] # <<>>
               /\ Len(counts'[u]) <= 2 * Len(listed'[u])
               /\ \A j \in 1..Len(counts'[u]) :
                     counts'[u][j] <=
                         Cardinality(Of(DOMAIN attempts, (listed'[u] \o listed'[u])[j]))
               /\ \A j \in 1..Len(listed'[u]) : j + Len(listed'[u]) <= Len(counts'[u]) =>
                     counts'[u][j] <= counts'[u][j + Len(listed'[u])]
    BY DEF CountsInv, Of
  <2>2. CASE u = t
    <3>1. Len(counts'[u]) = 0 /\ Len(listed'[u]) = 0
      BY <1>2, <2>2
    <3> QED
      BY <1>2, <2>2, <3>1
  <2>3. CASE u # t
    BY <1>1, <1>2, <2>3 DEF CountsInv
  <2> QED
    BY <2>2, <2>3
<1> QED
  BY <1>3, <1>4, <1>5, FoldersStay DEF RunnerInv

\* No command is counting that was not, and what was counted stays.
LEMMA CountsStay ==
  ASSUME CountsInv, counts' = counts, listed' = listed, DOMAIN attempts' = DOMAIN attempts,
         \A u \in Terminals : runner_at'[u] = "attempt_count" <=> runner_at[u] = "attempt_count"
  PROVE  CountsInv'
BY DEF CountsInv, Of

LEMMA StartKeeps ==
  ASSUME RunnerInv, NEW t \in Terminals, Runner!Start(t)
  PROVE  RunnerInv'
<1>1. RunnerTypes /\ OwnInv /\ CountsInv
  BY DEF RunnerInv
<1>2. PICK prefix \in DOMAIN Matching : \E c \in Runner!find_case(prefix) :
         dir' = [dir EXCEPT ![t] = [date |-> today, case |-> Cases[c], n |-> 1]]
  BY DEF Runner!Start
<1>3. PICK c \in Runner!find_case(prefix) :
         dir' = [dir EXCEPT ![t] = [date |-> today, case |-> Cases[c], n |-> 1]]
  BY <1>2
<1>4. [date |-> today, case |-> Cases[c], n |-> 1] \in Attempt
  <2>1. c \in Matching[prefix]
    BY <1>3 DEF Runner!find_case
  <2>2. Cases[c] \in CaseIds /\ today \in Nat
    BY <1>1, <2>1, RunnerConstants DEF RunnerTypes
  <2> QED
    BY <2>2 DEF Attempt
<1>5. /\ runner_at[t] = "prompt" /\ runner_at' = [runner_at EXCEPT ![t] = "exists"]
      /\ run' = [run EXCEPT ![t] = Runner!Commands + 1] /\ Runner!Commands < MaxCommands
      /\ UNCHANGED <<attempts, today, listed, counts, made>>
  BY DEF Runner!Start, Runner!Goto
<1>6. Runner!Commands + 1 \in 0..MaxCommands /\ Runner!Commands + 1 # 0
  <2>1. Runner!Commands \in 0..MaxCommands /\ MaxCommands \in Nat
    BY <1>1, CommandsAre, RunnerConstants
  <2> QED
    BY <1>5, <2>1
<1>7. RunnerTypes'
  BY <1>1, <1>3, <1>4, <1>5, <1>6 DEF RunnerTypes, Calls
<1>8. OwnInv'
  <2>1. /\ runner_at'[t] = "exists" /\ run'[t] # 0 /\ dir'[t].n = 1
        /\ \A u \in Terminals \ {t} :
              runner_at'[u] = runner_at[u] /\ run'[u] = run[u] /\ dir'[u] = dir[u]
    BY <1>1, <1>3, <1>5, <1>6 DEF RunnerTypes
  <2>2. ASSUME NEW u \in Terminals
        PROVE  /\ runner_at'[u] \notin {"prompt", "attempt_count"} => run'[u] # 0
               /\ runner_at'[u] \in {"write_text", "input", "run_timer"} =>
                     /\ Runner!Folder(dir'[u]) \in DOMAIN attempts
                     /\ attempts[Runner!Folder(dir'[u])].by = run'[u]
               /\ runner_at'[u] \in {"input", "run_timer"} => 
                     attempts[Runner!Folder(dir'[u])].sheet = run'[u]
               /\ runner_at'[u] \in {"exists", "mkdir"} /\ dir'[u].n > 1 =>
                     Before(dir'[u]) \in DOMAIN attempts
    <3>1. CASE u = t
      BY <2>1, <3>1
    <3>2. CASE u # t
      BY <1>1, <2>1, <3>2 DEF OwnInv
    <3> QED
      BY <3>1, <3>2
  <2> QED
    BY <1>5, <2>2 DEF OwnInv, Before
<1>9. CountsInv'
  <2>1. \A u \in Terminals : runner_at'[u] = "attempt_count" <=> runner_at[u] = "attempt_count"
    BY <1>1, <1>5 DEF RunnerTypes
  <2> QED
    BY <1>1, <1>5, <2>1, CountsStay
<1> QED
  BY <1>5, <1>7, <1>8, <1>9, FoldersStay DEF RunnerInv

LEMMA ProbeKeeps ==
  ASSUME RunnerInv, NEW t \in Terminals, Runner!Probe(t)
  PROVE  RunnerInv'
<1>1. RunnerTypes /\ OwnInv /\ CountsInv
  BY DEF RunnerInv
<1>2. /\ runner_at[t] = "exists" /\ UNCHANGED <<attempts, today, run, listed, counts, made>>
      /\ \/ /\ Runner!Folder(dir[t]) \in DOMAIN attempts
            /\ dir' = [dir EXCEPT ![t].n = @ + 1] /\ runner_at' = runner_at
         \/ runner_at' = [runner_at EXCEPT ![t] = "mkdir"] /\ dir' = dir
  BY DEF Runner!Probe, Runner!Goto
<1>3. \A u \in Terminals : runner_at'[u] = "attempt_count" <=> runner_at[u] = "attempt_count"
  BY <1>1, <1>2 DEF RunnerTypes
<1>4. CountsInv'
  BY <1>1, <1>2, <1>3, CountsStay
<1>5. CASE Runner!Folder(dir[t]) \in DOMAIN attempts /\ dir' = [dir EXCEPT ![t].n = @ + 1]
           /\ runner_at' = runner_at
  <2> DEFINE d == [dir[t] EXCEPT !.n = @ + 1]
  <2>1. dir[t] \in Attempt /\ dir[t].n \in Nat
    BY <1>1 DEF RunnerTypes, Attempt
  <2>2. d \in Attempt /\ d.n = dir[t].n + 1
    BY <2>1 DEF Attempt
  <2>3. Before(d) = Runner!Folder(dir[t])
    <3>1. d = [date |-> dir[t].date, case |-> dir[t].case, n |-> dir[t].n + 1]
      BY <2>1 DEF Attempt
    <3> HIDE DEF d
    <3>2. [d EXCEPT !.n = @ - 1] = [date |-> d.date, case |-> d.case, n |-> d.n - 1]
      BY <2>2 DEF Attempt
    <3>3. dir[t] = [date |-> dir[t].date, case |-> dir[t].case, n |-> dir[t].n]
      BY <2>1 DEF Attempt
    <3>4. (dir[t].n + 1) - 1 = dir[t].n
      BY <2>1
    <3>5. [d EXCEPT !.n = @ - 1] = dir[t]
      BY <3>1, <3>2, <3>3, <3>4
    <3> QED
      BY <3>5 DEF Before
  <2>4. dir' = [dir EXCEPT ![t] = d]
    BY <1>5
  <2> HIDE DEF d
  <2>5. dir'[t] = d /\ \A u \in Terminals \ {t} : dir'[u] = dir[u]
    BY <1>1, <2>4 DEF RunnerTypes
  <2>6. RunnerTypes'
    BY <1>1, <1>2, <1>5, <2>2, <2>4 DEF RunnerTypes
  <2>7. OwnInv'
    <3>1. ASSUME NEW u \in Terminals
          PROVE  /\ runner_at[u] \notin {"prompt", "attempt_count"} => run[u] # 0
                 /\ runner_at[u] \in {"write_text", "input", "run_timer"} =>
                       /\ Runner!Folder(dir'[u]) \in DOMAIN attempts
                       /\ attempts[Runner!Folder(dir'[u])].by = run[u]
                 /\ runner_at[u] \in {"input", "run_timer"} =>
                       attempts[Runner!Folder(dir'[u])].sheet = run[u]
                 /\ runner_at[u] \in {"exists", "mkdir"} /\ dir'[u].n > 1 =>
                       Before(dir'[u]) \in DOMAIN attempts
      <4>1. CASE u = t
        BY <1>1, <1>2, <1>5, <2>3, <2>5, <4>1 DEF OwnInv
      <4>2. CASE u # t
        BY <1>1, <2>5, <4>2 DEF OwnInv
      <4> QED
        BY <4>1, <4>2
    <3> QED
      BY <1>2, <1>5, <3>1 DEF OwnInv, Before
  <2> QED
    BY <1>2, <1>4, <2>6, <2>7, FoldersStay DEF RunnerInv
<1>6. CASE runner_at' = [runner_at EXCEPT ![t] = "mkdir"] /\ dir' = dir
  <2>1. RunnerTypes'
    BY <1>1, <1>2, <1>6 DEF RunnerTypes, Calls
  <2>2. runner_at'[t] = "mkdir" /\ \A u \in Terminals \ {t} : runner_at'[u] = runner_at[u]
    BY <1>1, <1>6 DEF RunnerTypes
  <2>3. OwnInv'
    BY <1>1, <1>2, <1>6, <2>2 DEF OwnInv, Before
  <2> QED
    BY <1>2, <1>4, <2>1, <2>3, FoldersStay DEF RunnerInv
<1> QED
  BY <1>2, <1>5, <1>6

\* The cases of a listing are counted twice.
LEMMA TwiceIs ==
  ASSUME NEW z \in Seq(CaseIds)
  PROVE  /\ \A j \in 1..2 * Len(z) : (z \o z)[j] \in CaseIds
         /\ \A j \in 1..Len(z) : (z \o z)[j] = z[j] /\ (z \o z)[j + Len(z)] = z[j]
<1> DEFINE l == Len(z)
<1>1. z \in Seq(CaseIds) /\ l \in Nat
  OBVIOUS
<1>2. \A j \in 1..l + l : (z \o z)[j] = IF j <= l THEN z[j] ELSE z[j - l]
  BY <1>1, ConcatProperties
<1>3. \A j \in 1..l : z[j] \in CaseIds
  BY <1>1, ElementOfSeq
<1> HIDE DEF l
<1>4. 2 * l = l + l
  BY <1>1
<1>5. \A j \in 1..l : j \in 1..l + l /\ j <= l /\ j + l \in 1..l + l /\ ~(j + l <= l) /\ (j + l) - l = j
  BY <1>1
<1>6. \A j \in 1..l + l : IF j <= l THEN j \in 1..l ELSE j - l \in 1..l
  BY <1>1
<1>7. \A j \in 1..l + l : (z \o z)[j] \in CaseIds
  BY <1>2, <1>3, <1>6
<1>8. \A j \in 1..l : (z \o z)[j] = z[j] /\ (z \o z)[j + l] = z[j]
  BY <1>2, <1>5
<1> QED
  BY <1>4, <1>7, <1>8 DEF l

LEMMA MakeDirKeeps ==
  ASSUME RunnerInv, NEW t \in Terminals, Runner!MakeDir(t)
  PROVE  RunnerInv'
<1>1. RunnerTypes /\ OwnInv /\ FoldersInv /\ MadeInv /\ CountsInv
  BY DEF RunnerInv
<1>2. runner_at[t] = "mkdir" /\ UNCHANGED <<today, run, dir, listed, counts>>
  BY DEF Runner!MakeDir
<1>3. CASE Runner!Folder(dir[t]) \in DOMAIN attempts
  <2>1. runner_at' = [runner_at EXCEPT ![t] = "prompt"] /\ UNCHANGED <<attempts, made>>
    BY <1>3 DEF Runner!MakeDir, Runner!Goto
  <2>2. counts[t] = <<>> /\ listed[t] = <<>>
    BY <1>1, <1>2 DEF CountsInv
  <2>3. counts' = [counts EXCEPT ![t] = <<>>] /\ listed' = [listed EXCEPT ![t] = <<>>]
    BY <1>1, <1>2, <2>2 DEF RunnerTypes
  <2> QED
    BY <1>2, <2>1, <2>3, CommandEnds
<1>4. CASE Runner!Folder(dir[t]) \notin DOMAIN attempts
  <2> DEFINE a == dir[t]
             d == Runner!Folder(a)
             S == DOMAIN attempts
             e == Runner!Empty(a, run[t])
  <2>1. /\ attempts' = [f \in S \cup {d} |-> IF f = d THEN e ELSE attempts[f]]
        /\ runner_at' = [runner_at EXCEPT ![t] = "write_text"]
        /\ made' = [made EXCEPT ![a.case] = @ + 1]
    BY <1>4 DEF Runner!MakeDir, Runner!Goto, Runner!With
  <2>2. a \in Attempt /\ d \notin S /\ a.case \in CaseIds /\ run[t] \in Nat /\ run[t] # 0
    <3>1. a \in Attempt /\ run[t] \in 0..MaxCommands /\ run[t] # 0
      BY <1>1, <1>2 DEF RunnerTypes, OwnInv
    <3>2. MaxCommands \in Nat
      BY RunnerConstants
    <3> QED
      BY <1>4, <3>1, <3>2 DEF Attempt
  <2>3. e \in Content /\ e.of = a /\ e.by = run[t] /\ e.sheet = 0 /\ e.log = 0
    BY <2>2 DEF Runner!Empty, Content
  <2>4. a.n > 1 => Before(a) \in S
    BY <1>1, <1>2 DEF OwnInv
  <2>5. runner_at'[t] = "write_text" /\ \A u \in Terminals \ {t} : runner_at'[u] = runner_at[u]
    BY <1>1, <2>1 DEF RunnerTypes
  <2>d. dir' = dir /\ run' = run /\ dir[t] = a /\ d = Runner!Folder(a)
    BY <1>2
  <2> HIDE DEF a, d, e
  <2>6. DOMAIN attempts' = S \cup {d} /\ attempts'[d] = e /\ \A f \in S : attempts'[f] = attempts[f]
    BY <2>1, <2>2
  <2>7. IsFiniteSet(S \cup {d})
    BY <1>1, <2>2, FS_AddElement DEF RunnerTypes
  <2>8. RunnerTypes'
    <3>1. attempts' \in [DOMAIN attempts' -> Content]
      <4>1. \A f \in S : attempts[f] \in Content
        BY <1>1 DEF RunnerTypes
      <4> QED
        BY <2>1, <2>3, <2>6, <4>1
    <3>2. made' \in [CaseIds -> Nat]
      BY <1>1, <2>1, <2>2 DEF RunnerTypes
    <3>3. runner_at' \in [Terminals -> Calls]
      BY <1>1, <2>1 DEF RunnerTypes, Calls
    <3> QED
      BY <1>1, <1>2, <2>6, <2>7, <3>1, <3>2, <3>3 DEF RunnerTypes
  <2>9. OwnInv'
    <3>1. ASSUME NEW u \in Terminals
          PROVE  /\ runner_at'[u] \notin {"prompt", "attempt_count"} => run[u] # 0
                 /\ runner_at'[u] \in {"write_text", "input", "run_timer"} =>
                       /\ Runner!Folder(dir[u]) \in S \cup {d}
                       /\ attempts'[Runner!Folder(dir[u])].by = run[u]
                 /\ runner_at'[u] \in {"input", "run_timer"} =>
                       attempts'[Runner!Folder(dir[u])].sheet = run[u]
                 /\ runner_at'[u] \in {"exists", "mkdir"} /\ dir[u].n > 1 =>
                       Before(dir[u]) \in S \cup {d}
      <4>1. CASE u = t
        BY <2>2, <2>3, <2>5, <2>6, <2>d, <4>1
      <4>2. CASE u # t
        BY <1>1, <2>5, <2>6, <4>2 DEF OwnInv
      <4> QED
        BY <4>1, <4>2
    <3> QED
      BY <2>6, <2>d, <3>1 DEF OwnInv, Before
  <2>10. FoldersInv'
    <3>1. ASSUME NEW f \in S \cup {d}
          PROVE  /\ attempts'[f].sheet \in {0, attempts'[f].by}
                 /\ attempts'[f].log \in {0, attempts'[f].by}
                 /\ attempts'[f].log # 0 => attempts'[f].sheet # 0
                 /\ attempts'[f].of.n > 1 => Before(attempts'[f].of) \in S \cup {d}
      <4>1. CASE f = d
        BY <2>3, <2>4, <2>6, <4>1
      <4>2. CASE f \in S
        BY <1>1, <2>6, <4>2 DEF FoldersInv
      <4> QED
        BY <4>1, <4>2
    <3> QED
      BY <2>6, <3>1 DEF FoldersInv, Before
  <2>11. \A c : /\ Cardinality(Of(S, c)) \in Nat /\ Cardinality(Of(S \cup {d}, c)) \in Nat
                /\ Cardinality(Of(S, c)) <= Cardinality(Of(S \cup {d}, c))
    <3> SUFFICES ASSUME NEW c
                 PROVE  /\ Cardinality(Of(S, c)) \in Nat /\ Cardinality(Of(S \cup {d}, c)) \in Nat
                        /\ Cardinality(Of(S, c)) <= Cardinality(Of(S \cup {d}, c))
      OBVIOUS
    <3>1. IsFiniteSet(S \cup {d}) /\ Of(S \cup {d}, c) \subseteq S \cup {d}
      BY <2>7 DEF Of
    <3>2. IsFiniteSet(Of(S \cup {d}, c)) /\ Of(S, c) \subseteq Of(S \cup {d}, c)
      BY <3>1, FS_Subset DEF Of
    <3> QED
      BY <3>2, FS_Subset, FS_CardinalityType
  <2>12. MadeInv'
    <3>1. \A c \in CaseIds : made'[c] = IF c = a.case THEN made[c] + 1 ELSE made[c]
      BY <1>1, <2>1, <2>2 DEF RunnerTypes
    <3>2. \A f \in S \cup {d} : f = Runner!Folder(attempts'[f].of)
      BY <1>1, <2>3, <2>6, <2>d DEF MadeInv
    <3>3. ASSUME NEW c \in CaseIds
          PROVE  Cardinality({f \in S \cup {d} : attempts'[f].of.case = c}) = made'[c]
      <4> DEFINE M == {f \in S \cup {d} : attempts'[f].of.case = c}
      <4>1. IsFiniteSet(Mine(c)) /\ Cardinality(Mine(c)) = made[c] /\ d \notin Mine(c)
        <5>1. IsFiniteSet(S) /\ Mine(c) \subseteq S
          BY <1>1 DEF RunnerTypes, Mine
        <5>2. Cardinality(Mine(c)) = made[c]
          BY <1>1 DEF MadeInv
        <5>3. d \notin S
          BY <2>2
        <5> QED
          BY <5>1, <5>2, <5>3, FS_Subset
      <4>2. CASE c = a.case
        <5>1. M = Mine(c) \cup {d}
          BY <2>3, <2>6, <4>2 DEF Mine
        <5>2. Cardinality(Mine(c) \cup {d}) = Cardinality(Mine(c)) + 1
          BY <4>1, FS_AddElement
        <5> QED
          BY <3>1, <4>1, <4>2, <5>1, <5>2
      <4>3. CASE c # a.case
        <5>1. M = Mine(c)
          BY <2>3, <2>6, <4>3 DEF Mine
        <5> QED
          BY <3>1, <4>1, <4>3, <5>1
      <4> QED
        BY <4>2, <4>3
    <3> QED
      BY <2>6, <3>2, <3>3 DEF MadeInv, Mine
  <2> HIDE DEF S
  <2>13. CountsInv'
    <3>1. ASSUME NEW u \in Terminals, NEW j \in 1..Len(counts[u])
          PROVE  counts[u][j] <= Cardinality(Of(S \cup {d}, (listed[u] \o listed[u])[j]))
      <4> DEFINE c == (listed[u] \o listed[u])[j]
      <4>1. counts[u] \in Seq(Nat)
        BY <1>1 DEF RunnerTypes
      <4>5. counts[u][j] \in Nat
        BY <4>1
      <4>6. counts[u][j] <= Cardinality(Of(S, c))
        BY <1>1 DEF CountsInv, S
      <4>2. counts[u][j] \in Nat /\ counts[u][j] <= Cardinality(Of(S, c))
        BY <4>5, <4>6
      <4> HIDE DEF c
      <4>3. /\ Cardinality(Of(S, c)) \in Nat /\ Cardinality(Of(S \cup {d}, c)) \in Nat
            /\ Cardinality(Of(S, c)) <= Cardinality(Of(S \cup {d}, c))
        BY <2>11
      <4>4. counts[u][j] <= Cardinality(Of(S \cup {d}, c))
        BY <4>2, <4>3
      <4> QED
        BY <4>4 DEF c
    <3>2. \A u \in Terminals : runner_at'[u] = "attempt_count" <=> runner_at[u] = "attempt_count"
      BY <1>2, <2>5
    <3>3. counts' = counts /\ listed' = listed
      BY <1>2
    <3> QED
      BY <1>1, <2>6, <3>1, <3>2, <3>3 DEF CountsInv, Of
  <2> QED
    BY <2>8, <2>9, <2>10, <2>12, <2>13 DEF RunnerInv
<1> QED
  BY <1>3, <1>4

\* What is written into the folders does not change whose they are.
LEMMA SameMade ==
  ASSUME MadeInv, DOMAIN attempts' = DOMAIN attempts, made' = made,
         \A f \in DOMAIN attempts : attempts'[f].of = attempts[f].of
  PROVE  MadeInv'
<1>1. \A c : Mine(c)' = Mine(c)
  BY DEF Mine
<1> QED
  BY <1>1 DEF MadeInv

LEMMA WriteSheetKeeps ==
  ASSUME RunnerInv, NEW t \in Terminals, Runner!WriteSheet(t)
  PROVE  RunnerInv'
<1>1. RunnerTypes /\ OwnInv /\ FoldersInv /\ MadeInv /\ CountsInv
  BY DEF RunnerInv
<1>2. /\ runner_at[t] = "write_text" /\ UNCHANGED <<today, run, dir, listed, counts, made>>
      /\ attempts' = [attempts EXCEPT ![Runner!Folder(dir[t])].sheet = run[t]]
      /\ \E call \in {"input", "prompt"} : runner_at' = [runner_at EXCEPT ![t] = call]
  BY DEF Runner!WriteSheet, Runner!Goto
<1>3. PICK call \in {"input", "prompt"} : runner_at' = [runner_at EXCEPT ![t] = call]
  BY <1>2
<1> DEFINE d == Runner!Folder(dir[t])
           r == run[t]
<1>4. d \in DOMAIN attempts /\ attempts[d] \in Content /\ attempts[d].by = r /\ r \in Nat /\ r # 0
  <2>1. MaxCommands \in Nat /\ run[t] \in 0..MaxCommands
    BY <1>1, RunnerConstants DEF RunnerTypes
  <2>2. run[t] \in Nat
    BY <2>1
  <2>3. d \in DOMAIN attempts /\ attempts[d].by = run[t] /\ run[t] # 0
    BY <1>1, <1>2 DEF OwnInv
  <2>4. attempts[d] \in Content
    BY <1>1, <2>3 DEF RunnerTypes
  <2> QED
    BY <2>2, <2>3, <2>4
<1>d. dir' = dir /\ run' = run /\ Runner!Folder(dir[t]) = d /\ run[t] = r
  BY <1>2
<1>e. attempts' = [attempts EXCEPT ![d].sheet = r]
  BY <1>2
<1>5. /\ runner_at'[t] = call /\ call \in Calls
      /\ call \notin {"write_text", "run_timer", "exists", "mkdir", "attempt_count"}
      /\ \A u \in Terminals \ {t} : runner_at'[u] = runner_at[u]
  BY <1>1, <1>3 DEF RunnerTypes, Calls
<1> HIDE DEF d, r
<1>6. /\ DOMAIN attempts' = DOMAIN attempts
      /\ attempts'[d] = [attempts[d] EXCEPT !.sheet = r]
      /\ \A f \in DOMAIN attempts \ {d} : attempts'[f] = attempts[f]
  BY <1>4, <1>e
<1>7. /\ attempts'[d] \in Content /\ attempts'[d].by = r /\ attempts'[d].sheet = r
      /\ attempts'[d].log = attempts[d].log /\ attempts'[d].of = attempts[d].of
  BY <1>4, <1>6 DEF Content
<1>8. RunnerTypes'
  <2>1. attempts' \in [DOMAIN attempts' -> Content]
    BY <1>1, <1>6, <1>7, <1>e DEF RunnerTypes
  <2>2. runner_at' \in [Terminals -> Calls]
    BY <1>1, <1>3, <1>5 DEF RunnerTypes
  <2> QED
    BY <1>1, <1>2, <1>6, <2>1, <2>2 DEF RunnerTypes
<1>9. OwnInv'
  <2>1. ASSUME NEW u \in Terminals
        PROVE  /\ runner_at'[u] \notin {"prompt", "attempt_count"} => run[u] # 0
               /\ runner_at'[u] \in {"write_text", "input", "run_timer"} =>
                     /\ Runner!Folder(dir[u]) \in DOMAIN attempts
                     /\ attempts'[Runner!Folder(dir[u])].by = run[u]
               /\ runner_at'[u] \in {"input", "run_timer"} =>
                     attempts'[Runner!Folder(dir[u])].sheet = run[u]
               /\ runner_at'[u] \in {"exists", "mkdir"} /\ dir[u].n > 1 =>
                     Before(dir[u]) \in DOMAIN attempts
    <3>1. CASE u = t
      BY <1>4, <1>5, <1>7, <1>d, <3>1
    <3>2. CASE u # t /\ Runner!Folder(dir[u]) = d
      BY <1>1, <1>4, <1>5, <1>7, <3>2 DEF OwnInv
    <3>3. CASE u # t /\ Runner!Folder(dir[u]) # d
      BY <1>1, <1>5, <1>6, <3>3 DEF OwnInv
    <3> QED
      BY <3>1, <3>2, <3>3
  <2> QED
    BY <1>6, <1>d, <2>1 DEF OwnInv, Before
<1>10. FoldersInv'
  <2>1. ASSUME NEW f \in DOMAIN attempts
        PROVE  /\ attempts'[f].sheet \in {0, attempts'[f].by}
               /\ attempts'[f].log \in {0, attempts'[f].by}
               /\ attempts'[f].log # 0 => attempts'[f].sheet # 0
               /\ attempts'[f].of.n > 1 => Before(attempts'[f].of) \in DOMAIN attempts
    <3>1. CASE f = d
      BY <1>1, <1>4, <1>7, <3>1 DEF FoldersInv
    <3>2. CASE f # d
      BY <1>1, <1>6, <3>2 DEF FoldersInv
    <3> QED
      BY <3>1, <3>2
  <2> QED
    BY <1>6, <2>1 DEF FoldersInv, Before
<1>11. MadeInv'
  <2>1. \A f \in DOMAIN attempts : attempts'[f].of = attempts[f].of
    BY <1>6, <1>7
  <2> QED
    BY <1>1, <1>2, <1>6, <2>1, SameMade
<1>12. CountsInv'
  <2>1. \A u \in Terminals : runner_at'[u] = "attempt_count" <=> runner_at[u] = "attempt_count"
    BY <1>2, <1>5
  <2> QED
    BY <1>1, <1>2, <1>6, <2>1, CountsStay
<1> QED
  BY <1>8, <1>9, <1>10, <1>11, <1>12 DEF RunnerInv

LEMMA TimedKeeps ==
  ASSUME RunnerInv, NEW t \in Terminals, Runner!Timed(t)
  PROVE  RunnerInv'
<1>1. RunnerTypes /\ OwnInv /\ FoldersInv /\ MadeInv /\ CountsInv
  BY DEF RunnerInv
<1>2. /\ runner_at[t] \in {"input", "run_timer"}
      /\ UNCHANGED <<today, run, dir, listed, counts, made>>
  BY DEF Runner!Timed
<1>3. \A u \in Terminals \ {t} : runner_at'[u] = runner_at[u]
  BY <1>1 DEF Runner!Timed, Runner!Goto, RunnerTypes
<1>4. CASE runner_at[t] = "input"
  <2>1. runner_at' = [runner_at EXCEPT ![t] = "run_timer"] /\ attempts' = attempts
    BY <1>4 DEF Runner!Timed, Runner!Goto
  <2>2. runner_at'[t] = "run_timer" /\ runner_at' \in [Terminals -> Calls]
    BY <1>1, <2>1 DEF RunnerTypes, Calls
  <2>3. RunnerTypes'
    BY <1>1, <1>2, <2>1, <2>2 DEF RunnerTypes
  <2>4. OwnInv'
    <3>1. ASSUME NEW u \in Terminals
          PROVE  /\ runner_at'[u] \notin {"prompt", "attempt_count"} => run[u] # 0
                 /\ runner_at'[u] \in {"write_text", "input", "run_timer"} =>
                       /\ Runner!Folder(dir[u]) \in DOMAIN attempts
                       /\ attempts[Runner!Folder(dir[u])].by = run[u]
                 /\ runner_at'[u] \in {"input", "run_timer"} =>
                       attempts[Runner!Folder(dir[u])].sheet = run[u]
                 /\ runner_at'[u] \in {"exists", "mkdir"} /\ dir[u].n > 1 =>
                       Before(dir[u]) \in DOMAIN attempts
      <4>1. CASE u = t
        BY <1>1, <1>4, <2>2, <4>1 DEF OwnInv
      <4>2. CASE u # t
        BY <1>1, <1>3, <4>2 DEF OwnInv
      <4> QED
        BY <4>1, <4>2
    <3> QED
      BY <1>2, <2>1, <3>1 DEF OwnInv, Before
  <2>5. CountsInv'
    <3>1. \A u \in Terminals :
             runner_at'[u] = "attempt_count" <=> runner_at[u] = "attempt_count"
      BY <1>3, <1>4, <2>2
    <3> QED
      BY <1>1, <1>2, <2>1, <3>1, CountsStay
  <2> QED
    BY <1>2, <2>1, <2>3, <2>4, <2>5, FoldersStay DEF RunnerInv
<1>5. CASE runner_at[t] = "run_timer"
  <2> DEFINE d == Runner!Folder(dir[t])
             r == run[t]
  <2>1. /\ attempts' = [attempts EXCEPT ![d].log = r]
        /\ runner_at' = [runner_at EXCEPT ![t] = "prompt"]
    BY <1>5 DEF Runner!Timed, Runner!Goto
  <2>2. /\ d \in DOMAIN attempts /\ attempts[d] \in Content /\ attempts[d].by = r
        /\ attempts[d].sheet = r /\ r \in Nat /\ r # 0
    <3>1. MaxCommands \in Nat /\ run[t] \in 0..MaxCommands
      BY <1>1, RunnerConstants DEF RunnerTypes
    <3>2. run[t] \in Nat
      BY <3>1
    <3>3. /\ d \in DOMAIN attempts /\ attempts[d].by = run[t] /\ run[t] # 0
          /\ attempts[d].sheet = run[t]
      BY <1>1, <1>5 DEF OwnInv
    <3>4. attempts[d] \in Content
      BY <1>1, <3>3 DEF RunnerTypes
    <3> QED
      BY <3>2, <3>3, <3>4
  <2>3. runner_at'[t] = "prompt" /\ runner_at' \in [Terminals -> Calls]
    BY <1>1, <2>1 DEF RunnerTypes, Calls
  <2> HIDE DEF d, r
  <2>4. /\ DOMAIN attempts' = DOMAIN attempts
        /\ attempts'[d] = [attempts[d] EXCEPT !.log = r]
        /\ \A f \in DOMAIN attempts \ {d} : attempts'[f] = attempts[f]
    BY <2>1, <2>2
  <2>5. /\ attempts'[d] \in Content /\ attempts'[d].by = r /\ attempts'[d].sheet = r
        /\ attempts'[d].log = r /\ attempts'[d].of = attempts[d].of
    BY <2>2, <2>4 DEF Content
  <2>6. RunnerTypes'
    <3>1. attempts' \in [DOMAIN attempts' -> Content]
      BY <1>1, <2>1, <2>4, <2>5 DEF RunnerTypes
    <3> QED
      BY <1>1, <1>2, <2>3, <2>4, <3>1 DEF RunnerTypes
  <2>7. OwnInv'
    <3>1. ASSUME NEW u \in Terminals
          PROVE  /\ runner_at'[u] \notin {"prompt", "attempt_count"} => run[u] # 0
                 /\ runner_at'[u] \in {"write_text", "input", "run_timer"} =>
                       /\ Runner!Folder(dir[u]) \in DOMAIN attempts
                       /\ attempts'[Runner!Folder(dir[u])].by = run[u]
                 /\ runner_at'[u] \in {"input", "run_timer"} =>
                       attempts'[Runner!Folder(dir[u])].sheet = run[u]
                 /\ runner_at'[u] \in {"exists", "mkdir"} /\ dir[u].n > 1 =>
                       Before(dir[u]) \in DOMAIN attempts
      <4>1. CASE u = t
        BY <2>3, <4>1
      <4>2. CASE u # t /\ Runner!Folder(dir[u]) = d
        BY <1>1, <1>3, <2>2, <2>5, <4>2 DEF OwnInv
      <4>3. CASE u # t /\ Runner!Folder(dir[u]) # d
        BY <1>1, <1>3, <2>4, <4>3 DEF OwnInv
      <4> QED
        BY <4>1, <4>2, <4>3
    <3> QED
      BY <1>2, <2>4, <3>1 DEF OwnInv, Before
  <2>8. FoldersInv'
    <3>1. ASSUME NEW f \in DOMAIN attempts
          PROVE  /\ attempts'[f].sheet \in {0, attempts'[f].by}
                 /\ attempts'[f].log \in {0, attempts'[f].by}
                 /\ attempts'[f].log # 0 => attempts'[f].sheet # 0
                 /\ attempts'[f].of.n > 1 => Before(attempts'[f].of) \in DOMAIN attempts
      <4>1. CASE f = d
        BY <1>1, <2>2, <2>5, <4>1 DEF FoldersInv
      <4>2. CASE f # d
        BY <1>1, <2>4, <4>2 DEF FoldersInv
      <4> QED
        BY <4>1, <4>2
    <3> QED
      BY <2>4, <3>1 DEF FoldersInv, Before
  <2>9. MadeInv'
    <3>1. \A f \in DOMAIN attempts : attempts'[f].of = attempts[f].of
      BY <2>4, <2>5
    <3> QED
      BY <1>1, <1>2, <2>4, <3>1, SameMade
  <2>10. CountsInv'
    <3>1. \A u \in Terminals :
             runner_at'[u] = "attempt_count" <=> runner_at[u] = "attempt_count"
      BY <1>3, <1>5, <2>3
    <3> QED
      BY <1>1, <1>2, <2>4, <3>1, CountsStay
  <2> QED
    BY <2>6, <2>7, <2>8, <2>9, <2>10 DEF RunnerInv
<1> QED
  BY <1>2, <1>4, <1>5

LEMMA RandomKeeps ==
  ASSUME RunnerInv, NEW t \in Terminals, Runner!Random(t)
  PROVE  RunnerInv'
<1>1. RunnerTypes /\ OwnInv /\ CountsInv
  BY DEF RunnerInv
<1>2. /\ runner_at[t] = "prompt" /\ runner_at' = [runner_at EXCEPT ![t] = "attempt_count"]
      /\ run' = [run EXCEPT ![t] = Runner!Commands + 1] /\ Runner!Commands < MaxCommands
      /\ UNCHANGED <<attempts, today, dir, counts, made>>
  BY DEF Runner!Random, Runner!Goto
<1>3. PICK family \in Families : family # <<>> /\ listed' = [listed EXCEPT ![t] = family]
  BY DEF Runner!Random
<1>4. family \in Seq(CaseIds) /\ Len(family) \in Nat /\ Runner!Commands + 1 \in 0..MaxCommands
  <2>1. Runner!Commands \in 0..MaxCommands /\ MaxCommands \in Nat
    BY <1>1, CommandsAre, RunnerConstants
  <2>2. family \in Seq(CaseIds)
    BY RunnerConstants
  <2> QED
    BY <1>2, <2>1, <2>2
<1>5. /\ runner_at'[t] = "attempt_count" /\ runner_at' \in [Terminals -> Calls]
      /\ \A u \in Terminals \ {t} :
            runner_at'[u] = runner_at[u] /\ run'[u] = run[u] /\ listed'[u] = listed[u]
      /\ listed'[t] = family
  BY <1>1, <1>2, <1>3 DEF RunnerTypes, Calls
<1>6. RunnerTypes'
  BY <1>1, <1>2, <1>3, <1>4, <1>5 DEF RunnerTypes
<1>7. OwnInv'
  <2>1. ASSUME NEW u \in Terminals
        PROVE  /\ runner_at'[u] \notin {"prompt", "attempt_count"} => run'[u] # 0
               /\ runner_at'[u] \in {"write_text", "input", "run_timer"} =>
                     /\ Runner!Folder(dir[u]) \in DOMAIN attempts
                     /\ attempts[Runner!Folder(dir[u])].by = run'[u]
               /\ runner_at'[u] \in {"input", "run_timer"} =>
                     attempts[Runner!Folder(dir[u])].sheet = run'[u]
               /\ runner_at'[u] \in {"exists", "mkdir"} /\ dir[u].n > 1 =>
                     Before(dir[u]) \in DOMAIN attempts
    <3>1. CASE u = t
      BY <1>5, <3>1
    <3>2. CASE u # t
      BY <1>1, <1>5, <3>2 DEF OwnInv
    <3> QED
      BY <3>1, <3>2
  <2> QED
    BY <1>2, <2>1 DEF OwnInv, Before
<1>8. CountsInv'
  <2>1. ASSUME NEW u \in Terminals
        PROVE  /\ runner_at'[u] # "attempt_count" => counts[u] = <<>> /\ listed'[u] = <<>>
               /\ runner_at'[u] = "attempt_count" => listed'[u] # <<>>
               /\ Len(counts[u]) <= 2 * Len(listed'[u])
               /\ \A j \in 1..Len(counts[u]) : counts[u][j] <=
                     Cardinality(Of(DOMAIN attempts, (listed'[u] \o listed'[u])[j]))
               /\ \A j \in 1..Len(listed'[u]) : j + Len(listed'[u]) <= Len(counts[u]) =>
                     counts[u][j] <= counts[u][j + Len(listed'[u])]
    <3>1. CASE u = t
      <4>1. counts[t] = <<>> /\ Len(counts[t]) = 0
        BY <1>1, <1>2 DEF CountsInv
      <4>2. Len(family) \in Nat /\ \A j \in 1..Len(family) : ~(j + Len(family) <= 0)
        <5> DEFINE l == Len(family)
        <5>1. l \in Nat
          BY <1>4
        <5> HIDE DEF l
        <5>2. \A j \in 1..l : ~(j + l <= 0)
          BY <5>1
        <5> QED
          BY <5>1, <5>2 DEF l
      <4>3. 0 <= 2 * Len(family)
        BY <4>2
      <4> QED
        BY <1>3, <1>5, <3>1, <4>1, <4>2, <4>3
    <3>2. CASE u # t
      BY <1>1, <1>5, <3>2 DEF CountsInv
    <3> QED
      BY <3>1, <3>2
  <2> QED
    BY <1>2, <2>1 DEF CountsInv, Of
<1> QED
  BY <1>2, <1>6, <1>7, <1>8, FoldersStay DEF RunnerInv

LEMMA CountNextKeeps ==
  ASSUME RunnerInv, NEW t \in Terminals, Runner!CountNext(t)
  PROVE  RunnerInv'
<1> DEFINE z == listed[t]
           l == Len(z)
           m == Len(counts[t])
           c == (z \o z)[m + 1]
           x == Cardinality(Of(DOMAIN attempts, c))
<1>1. RunnerTypes /\ OwnInv /\ CountsInv
  BY DEF RunnerInv
<1>2. /\ runner_at[t] = "attempt_count" /\ m < 2 * l
      /\ counts' = [counts EXCEPT ![t] = Append(@, x)]
      /\ UNCHANGED <<attempts, today, runner_at, run, dir, listed, made>>
  BY RunnerNames DEF Runner!CountNext
<1>3. z \in Seq(CaseIds) /\ l \in Nat /\ m \in Nat /\ counts[t] \in Seq(Nat)
  <2>1. counts[t] \in Seq(Nat) /\ listed[t] \in Seq(CaseIds)
    BY <1>1 DEF RunnerTypes
  <2>2. Len(counts[t]) \in Nat /\ Len(listed[t]) \in Nat
    BY <2>1
  <2> QED
    BY <2>1, <2>2
<1>4. x \in Nat
  <2>1. IsFiniteSet(DOMAIN attempts) /\ Of(DOMAIN attempts, c) \subseteq DOMAIN attempts
    BY <1>1 DEF RunnerTypes, Of
  <2> QED
    BY <2>1, FS_Subset, FS_CardinalityType
<1>d. x = Cardinality(Of(DOMAIN attempts, c)) /\ c = (z \o z)[m + 1]
  OBVIOUS
<1> HIDE DEF x, c
<1>5. /\ counts'[t] = Append(counts[t], x) /\ counts'[t] \in Seq(Nat)
      /\ \A u \in Terminals \ {t} : counts'[u] = counts[u]
  BY <1>1, <1>2, <1>3, <1>4 DEF RunnerTypes
<1>6. /\ Len(counts'[t]) = m + 1 /\ counts'[t][m + 1] = x
      /\ \A j \in 1..m : counts'[t][j] = counts[t][j]
  BY <1>3, <1>4, <1>5, AppendProperties
<1>7. RunnerTypes'
  <2>1. counts' \in [Terminals -> Seq(Nat)]
    BY <1>1, <1>2, <1>5 DEF RunnerTypes
  <2> QED
    BY <1>1, <1>2, <2>1 DEF RunnerTypes
<1>8. OwnInv'
  BY <1>1, <1>2 DEF OwnInv, Before
<1>m. m = Len(counts[t]) /\ l = Len(z) /\ z = listed[t]
  OBVIOUS
<1> HIDE DEF m, l, z
<1>9. ASSUME NEW j \in 1..m + 1
      PROVE  counts'[t][j] <= Cardinality(Of(DOMAIN attempts, (z \o z)[j]))
  <2>1. CASE j = m + 1
    <3>1. counts'[t][j] = x /\ Cardinality(Of(DOMAIN attempts, (z \o z)[j])) = x
      BY <1>6, <1>d, <2>1
    <3>2. x <= x
      BY <1>4
    <3> QED
      BY <3>1, <3>2
  <2>2. CASE j # m + 1
    <3>1. j \in 1..m
      BY <1>3, <2>2
    <3> QED
      BY <1>1, <1>6, <1>m, <3>1 DEF CountsInv
  <2> QED
    BY <2>1, <2>2
<1>10. ASSUME NEW j \in 1..l, j + l <= m + 1
       PROVE  counts'[t][j] <= counts'[t][j + l]
  <2>1. j \in Nat /\ j >= 1 /\ j <= l
    BY <1>3
  <2>2. CASE j + l = m + 1
    <3>1. (z \o z)[m + 1] = z[j] /\ (z \o z)[j] = z[j]
      BY <1>3, <1>m, <2>2, TwiceIs
    <3>2. j \in 1..m
      BY <1>3, <2>1, <2>2
    <3>3. counts[t][j] <= x
      BY <1>1, <1>d, <1>m, <3>1, <3>2 DEF CountsInv
    <3> QED
      BY <1>6, <2>2, <3>2, <3>3
  <2>3. CASE j + l # m + 1
    <3>1. j \in 1..m /\ j + l \in 1..m /\ j + l <= m
      BY <1>3, <1>10, <2>1, <2>3
    <3>2. counts[t][j] <= counts[t][j + l]
      BY <1>1, <1>m, <3>1 DEF CountsInv
    <3> QED
      BY <1>6, <3>1, <3>2
  <2> QED
    BY <2>2, <2>3
<1>11. CountsInv'
  <2>1. ASSUME NEW u \in Terminals
        PROVE  /\ runner_at[u] # "attempt_count" => counts'[u] = <<>> /\ listed[u] = <<>>
               /\ runner_at[u] = "attempt_count" => listed[u] # <<>>
               /\ Len(counts'[u]) <= 2 * Len(listed[u])
               /\ \A j \in 1..Len(counts'[u]) :
                     counts'[u][j] <= Cardinality(Of(DOMAIN attempts, (listed[u] \o listed[u])[j]))
               /\ \A j \in 1..Len(listed[u]) : j + Len(listed[u]) <= Len(counts'[u]) =>
                     counts'[u][j] <= counts'[u][j + Len(listed[u])]
    <3>1. CASE u = t
      <4>1. m + 1 <= 2 * l
        BY <1>2, <1>3
      <4>2. listed[t] # <<>>
        BY <1>1, <1>2 DEF CountsInv
      <4> QED
        BY <1>2, <1>6, <1>9, <1>10, <1>m, <3>1, <4>1, <4>2
    <3>2. CASE u # t
      BY <1>1, <1>5, <3>2 DEF CountsInv
    <3> QED
      BY <3>1, <3>2
  <2>2. runner_at' = runner_at /\ listed' = listed /\ DOMAIN attempts' = DOMAIN attempts
    BY <1>2
  <2> QED
    BY <2>1, <2>2 DEF CountsInv, Of
<1> QED
  BY <1>2, <1>7, <1>8, <1>11, FoldersStay DEF RunnerInv

LEMMA RunnerNextKeeps == RunnerInv /\ [Runner!RunnerNext]_runner => RunnerInv'
<1> SUFFICES ASSUME RunnerInv, [Runner!RunnerNext]_runner PROVE RunnerInv'
  OBVIOUS
<1>1. ASSUME NEW t \in Terminals, Runner!Suggest(t) \/ Runner!CtrlC(t)
      PROVE  RunnerInv'
  BY <1>1, CommandEnds DEF Runner!Suggest, Runner!CtrlC, Runner!Forget, Runner!Goto
<1>2. ASSUME Runner!Midnight \/ Runner!AddCase
      PROVE  RunnerInv'
  <2>1. /\ today' = today + 1 \/ today' = today
        /\ UNCHANGED <<attempts, runner_at, run, dir, listed, counts, made>>
    BY <1>2 DEF Runner!Midnight, Runner!AddCase
  <2>2. RunnerTypes'
    BY <2>1 DEF RunnerInv, RunnerTypes
  <2>3. OwnInv' /\ CountsInv'
    BY <2>1 DEF RunnerInv, OwnInv, CountsInv, Before, Of
  <2> QED
    BY <2>1, <2>2, <2>3, FoldersStay DEF RunnerInv
<1>3. ASSUME UNCHANGED runner
      PROVE  RunnerInv'
  <2>1. RunnerTypes'
    BY <1>3 DEF runner, RunnerInv, RunnerTypes
  <2>2. OwnInv' /\ CountsInv'
    BY <1>3 DEF runner, RunnerInv, OwnInv, CountsInv, Before, Of
  <2>3. attempts' = attempts /\ made' = made
    BY <1>3 DEF runner
  <2> QED
    BY <2>1, <2>2, <2>3, FoldersStay DEF RunnerInv
<1> QED
  BY <1>1, <1>2, <1>3, StartKeeps, ProbeKeeps, MakeDirKeeps, WriteSheetKeeps, TimedKeeps,
     RandomKeeps, CountNextKeeps DEF Runner!RunnerNext

\* What the counts of a command say at its end.
LEMMA SuggestionIs ==
  ASSUME RunnerInv
  PROVE  Runner!SuggestionIsLeastAttempted
<1> SUFFICES ASSUME NEW t \in Terminals, runner_at[t] = "attempt_count",
                    Len(counts[t]) = 2 * Len(listed[t])
             PROVE  /\ \A c \in Runner!Range(listed[t]) :
                           Runner!fewest(t) <= Runner!attempt_count(c)
                    /\ Runner!pool(t) = {} => \A c \in Runner!Range(listed[t]) :
                           Runner!attempt_count(c) > Runner!fewest(t)
  BY DEF Runner!SuggestionIsLeastAttempted
<1> DEFINE z == listed[t]
           l == Len(z)
           s == counts[t]
           A(c) == Cardinality(Of(DOMAIN attempts, c))
           least == Runner!fewest(t)
<1>1. RunnerTypes /\ CountsInv
  BY DEF RunnerInv
<1>z. z \in Seq(CaseIds) /\ z # <<>>
  BY <1>1 DEF RunnerTypes, CountsInv
<1>2. l \in Nat /\ l > 0 /\ s \in Seq(Nat) /\ Len(s) = l + l
  <2>1. s \in Seq(Nat)
    BY <1>1 DEF RunnerTypes
  <2>2. l \in Nat /\ l > 0
    <3> HIDE DEF z
    <3> QED
      BY <1>z, EmptySeq
  <2>3. Len(s) = 2 * l
    OBVIOUS
  <2> HIDE DEF s, l
  <2> QED
    BY <2>1, <2>2, <2>3
<1>3. \A c : A(c) \in Nat /\ Runner!attempt_count(c) = A(c)
  <2>1. \A c : IsFiniteSet(DOMAIN attempts) /\ Of(DOMAIN attempts, c) \subseteq DOMAIN attempts
    BY <1>1 DEF RunnerTypes, Of
  <2> QED
    BY <2>1, FS_Subset, FS_CardinalityType, RunnerNames
<1>4. \A j \in 1..l : /\ Runner!First(t)[j] = s[j] /\ Runner!Second(t)[j] = s[j + l]
                      /\ s[j] \in Nat /\ s[j + l] \in Nat
  <2>1. Runner!First(t) = SubSeq(s, 1, l) /\ Runner!Second(t) = SubSeq(s, l + 1, 2 * l)
    BY DEF Runner!First, Runner!Second
  <2> HIDE DEF s, l
  <2>2. \A j \in 1..l : SubSeq(s, 1, l)[j] = s[j]
    BY <1>2
  <2>3. \A j \in 1..l : SubSeq(s, l + 1, 2 * l)[j] = s[j + l]
    <3>1. 2 * l = l + l /\ l + 1 \in 1..l + l
      BY <1>2
    <3>2. \A j \in 1..l : SubSeq(s, l + 1, l + l)[j] = s[j + l]
      BY <1>2
    <3> QED
      BY <3>1, <3>2
  <2>4. \A j \in 1..l : j \in 1..l + l /\ j + l \in 1..l + l
    BY <1>2
  <2>5. \A j \in 1..l + l : s[j] \in Nat
    BY <1>2
  <2> QED
    BY <2>1, <2>2, <2>3, <2>4, <2>5
<1>5. DOMAIN Runner!First(t) = 1..l
  BY <1>2 DEF Runner!First
<1>6. least \in {s[j] : j \in 1..l} /\ \A j \in 1..l : least <= s[j]
  <2> DEFINE S == {s[j] : j \in 1..l}
  <2>1. Runner!Range(Runner!First(t)) = S
    BY <1>4, <1>5, RunnerNames
  <2>2. 1 \in 1..l
    <3> HIDE DEF l
    <3> QED
      BY <1>2
  <2>3. S \in SUBSET Nat /\ S # {}
    BY <1>4, <2>2
  <2>4. least = Runner!Min(S)
    BY <2>1 DEF Runner!fewest
  <2> HIDE DEF S, least
  <2>5. least \in S /\ \A x \in S : least <= x
    BY <2>3, <2>4, LeastIs
  <2> QED
    BY <2>5 DEF S
<1>7. \A j \in 1..l : s[j] <= A(z[j]) /\ s[j + l] <= A(z[j]) /\ s[j] <= s[j + l]
  <2>1. \A j \in 1..l : j \in 1..Len(s) /\ j + l \in 1..Len(s) /\ j + l <= Len(s)
    <3> HIDE DEF s, l
    <3> QED
      BY <1>2
  <2>2. \A j \in 1..Len(s) : s[j] <= A((z \o z)[j])
    BY <1>1 DEF CountsInv
  <2>3. \A j \in 1..l : (z \o z)[j] = z[j] /\ (z \o z)[j + l] = z[j]
    BY <1>z, TwiceIs
  <2>4. \A j \in 1..l : j + l <= Len(s) => s[j] <= s[j + l]
    BY <1>1 DEF CountsInv
  <2> HIDE DEF A, s, l, z
  <2> QED
    BY <2>1, <2>2, <2>3, <2>4
<1>8. Runner!pool(t) = {} => \A j \in 1..l : s[j + l] # least
  <2>1. DOMAIN z = 1..l
    BY <1>z
  <2>2. Runner!pool(t) = {j \in DOMAIN z : Runner!Second(t)[j] = least}
    BY DEF Runner!pool
  <2> HIDE DEF least
  <2> QED
    BY <1>4, <2>1, <2>2
<1>9. ASSUME NEW c \in Runner!Range(z)
      PROVE  least <= A(c) /\ (Runner!pool(t) = {} => A(c) > least)
  <2>1. PICK j \in 1..l : c = z[j]
    <3>1. DOMAIN z = 1..l
      BY <1>z
    <3> QED
      BY <3>1, RunnerNames
  <2>2. least \in Nat /\ A(c) \in Nat /\ s[j] \in Nat /\ s[j + l] \in Nat
    BY <1>3, <1>4, <1>6
  <2>3. least <= s[j] /\ s[j] <= s[j + l] /\ s[j + l] <= A(c)
    BY <1>6, <1>7, <2>1
  <2>4. Runner!pool(t) = {} => s[j + l] # least
    BY <1>8
  <2> HIDE DEF least, A, s, l, z
  <2> QED
    BY <2>2, <2>3, <2>4
<1> QED
  BY <1>3, <1>9

\* What is made counts.
LEMMA CountedIs ==
  ASSUME RunnerInv
  PROVE  Runner!AttemptsAreCounted
<1> SUFFICES ASSUME NEW c \in CaseIds
             PROVE  /\ made[c] <= Runner!attempt_count(c)
                    /\ Runner!Alone(c) => Runner!attempt_count(c) = made[c]
  BY RunnerConstants DEF Runner!AttemptsAreCounted
<1> DEFINE S == DOMAIN attempts
<1>1. RunnerTypes /\ MadeInv
  BY DEF RunnerInv
<1>2. \A f \in S : /\ attempts[f].of.case \in CaseIds /\ attempts[f].of.n \in Nat
                   /\ f.name = Runner!Name(attempts[f].of.case, attempts[f].of.n)
  <2>1. \A f \in S : attempts[f].of \in Attempt
    BY <1>1 DEF RunnerTypes, Content
  <2>2. \A f \in S : f = Runner!Folder(attempts[f].of)
    BY <1>1 DEF MadeInv
  <2>3. \A f \in S : f.name = Runner!Folder(attempts[f].of).name
    BY <2>2
  <2> QED
    BY <2>1, <2>3 DEF Attempt, Runner!Folder
<1>3. Mine(c) \subseteq Of(S, c)
  <2> SUFFICES ASSUME NEW f \in S, attempts[f].of.case = c
               PROVE  Runner!IsPrefix(c, f.name)
    BY DEF Mine, Of
  <2>1. attempts[f].of.n \in Nat /\ f.name = Runner!Name(c, attempts[f].of.n)
    BY <1>2
  <2> QED
    BY <2>1, NameIs
<1>4. /\ IsFiniteSet(Of(S, c)) /\ Cardinality(Of(S, c)) \in Nat
      /\ Cardinality(Mine(c)) \in Nat /\ Cardinality(Mine(c)) <= Cardinality(Of(S, c))
  <2>1. IsFiniteSet(S) /\ Of(S, c) \subseteq S
    BY <1>1 DEF RunnerTypes, Of
  <2>2. IsFiniteSet(Of(S, c))
    BY <2>1, FS_Subset
  <2> QED
    BY <1>3, <2>2, FS_Subset, FS_CardinalityType
<1>5. Cardinality(Mine(c)) = made[c] /\ Runner!attempt_count(c) = Cardinality(Of(S, c))
  BY <1>1, RunnerNames DEF MadeInv
<1>6. ASSUME Runner!Alone(c)
      PROVE  Of(S, c) = Mine(c)
  <2> SUFFICES ASSUME NEW f \in S, Runner!IsPrefix(c, f.name)
               PROVE  attempts[f].of.case = c
    BY <1>3 DEF Of, Mine
  <2> DEFINE d == attempts[f].of.case
  <2>1. d \in CaseIds /\ attempts[f].of.n \in Nat /\ f.name = Runner!Name(d, attempts[f].of.n)
    BY <1>2
  <2> HIDE DEF d
  <2>2. Runner!IsPrefix(c, d) \/ Runner!IsPrefix(d, c)
    BY <2>1, OneBegins
  <2>3. d # c => made[d] = 0
    BY <1>6, <2>1, <2>2, RunnerConstants DEF Runner!Alone
  <2>4. Cardinality(Mine(d)) = made[d] /\ f \in Mine(d)
    BY <1>1, <2>1 DEF MadeInv, Mine, d
  <2>5. IsFiniteSet(Mine(d)) /\ Cardinality(Mine(d)) # 0
    <3>1. IsFiniteSet(S) /\ Mine(d) \subseteq S
      BY <1>1 DEF RunnerTypes, Mine
    <3>2. IsFiniteSet(Mine(d))
      BY <3>1, FS_Subset
    <3> QED
      BY <2>4, <3>2, FS_EmptySet
  <2>6. d = c
    BY <2>3, <2>4, <2>5
  <2> QED
    BY <2>6 DEF d
<1> QED
  BY <1>4, <1>5, <1>6

\* The prompt of a case: what has been found in the first m lines.
Lines == {"## The prompt", "## ", ""}
IsPrompt(text, h)  == text[h] = "## The prompt"
IsHeading(text, h) == text[h] \in {"## The prompt", "## "}
Owns(text, h) ==
    /\ ~IsHeading(text, h)
    /\ \E p \in 1..h : IsPrompt(text, p) /\ \A q \in p + 1..h : ~IsHeading(text, q)

ReadState == [out : SUBSET Nat, inside : BOOLEAN, broken : BOOLEAN]

FoundInv(text, s, m) ==
    /\ s \in ReadState
    /\ ~s.inside => s.out = {} /\ ~s.broken /\ \A p \in 1..m : ~IsPrompt(text, p)
    /\ s.inside /\ ~s.broken =>
          \E p \in 1..m : IsPrompt(text, p) /\ \A q \in p + 1..m : ~IsHeading(text, q)
    /\ s.broken => \E p, q \in 1..m : p < q /\ IsPrompt(text, p) /\ IsHeading(text, q)
    /\ \A h \in s.out : h \in 1..m /\ Owns(text, h)
    /\ (\A p, q \in 1..Len(text) : IsPrompt(text, p) /\ IsPrompt(text, q) => p = q) =>
          \A h \in 1..m : Owns(text, h) => h \in s.out

LEMMA ReadKeeps ==
  ASSUME NEW text \in Seq(Lines), NEW m \in Nat, m + 1 <= Len(text),
         NEW s, FoundInv(text, s, m)
  PROVE  FoundInv(text, Runner!Read(s, text[m + 1], m + 1), m + 1)
<1> DEFINE z == Runner!Read(s, text[m + 1], m + 1)
           l == Len(text)
<1>1. s \in ReadState /\ s.inside \in BOOLEAN /\ s.broken \in BOOLEAN /\ l \in Nat
  BY DEF FoundInv, ReadState
<1>2. /\ \A h \in 1..m + 1 : h \in 1..m \/ h = m + 1
      /\ \A h \in 1..m : h \in 1..m + 1 /\ h < m + 1
      /\ m + 1 \in 1..m + 1 /\ \A h \in 1..m + 1 : h \in 1..l
  BY <1>1
<1>3. CASE s.broken
  <2>1. z = s
    BY <1>3 DEF Runner!Read
  <2>2. PICK p, q \in 1..m : p < q /\ IsPrompt(text, p) /\ IsHeading(text, q)
    BY <1>3 DEF FoundInv
  <2>3. s.inside
    BY <1>1, <1>3 DEF FoundInv
  <2>4. ASSUME \A h, k \in 1..l : IsPrompt(text, h) /\ IsPrompt(text, k) => h = k,
               Owns(text, m + 1)
        PROVE  FALSE
    <3>1. PICK h \in 1..m + 1 : IsPrompt(text, h) /\ \A k \in h + 1..m + 1 : ~IsHeading(text, k)
      BY <2>4 DEF Owns
    <3>2. h = p
      BY <1>2, <2>2, <2>4, <3>1
    <3>3. q \in h + 1..m + 1
      BY <2>2, <3>2
    <3> QED
      BY <2>2, <3>1, <3>3
  <2>5. /\ \A h \in s.out : h \in 1..m + 1 /\ Owns(text, h)
        /\ (\A p1, q1 \in 1..Len(text) : IsPrompt(text, p1) /\ IsPrompt(text, q1) => p1 = q1) =>
              \A h \in 1..m + 1 : Owns(text, h) => h \in s.out
    BY <1>2, <2>4 DEF FoundInv
  <2>6. \E p1, q1 \in 1..m + 1 : p1 < q1 /\ IsPrompt(text, p1) /\ IsHeading(text, q1)
    BY <1>2, <2>2
  <2> QED
    BY <1>1, <1>3, <2>1, <2>3, <2>5, <2>6 DEF FoundInv
<1>4. CASE ~s.broken /\ IsPrompt(text, m + 1)
  <2>1. z = [s EXCEPT !.inside = TRUE]
    BY <1>4 DEF Runner!Read, IsPrompt
  <2>2. z \in ReadState /\ z.inside /\ ~z.broken /\ z.out = s.out
    BY <1>1, <1>4, <2>1 DEF ReadState
  <2>3. ~Owns(text, m + 1)
    BY <1>4 DEF Owns, IsHeading, IsPrompt
  <2>4. \E p \in 1..m + 1 : IsPrompt(text, p) /\ \A q \in p + 1..m + 1 : ~IsHeading(text, q)
    <3>1. \A q \in (m + 1) + 1..m + 1 : FALSE
      OBVIOUS
    <3> QED
      BY <1>2, <1>4, <3>1
  <2>5. /\ \A h \in s.out : h \in 1..m + 1 /\ Owns(text, h)
        /\ (\A p1, q1 \in 1..Len(text) : IsPrompt(text, p1) /\ IsPrompt(text, q1) => p1 = q1) =>
              \A h \in 1..m + 1 : Owns(text, h) => h \in s.out
    BY <1>2, <2>3 DEF FoundInv
  <2> QED
    BY <2>2, <2>4, <2>5 DEF FoundInv
<1>5. CASE ~s.broken /\ ~IsPrompt(text, m + 1) /\ s.inside /\ IsHeading(text, m + 1)
  <2>1. z = [s EXCEPT !.broken = TRUE]
    BY <1>5 DEF Runner!Read, IsPrompt, IsHeading
  <2>2. z \in ReadState /\ z.inside /\ z.broken /\ z.out = s.out
    BY <1>1, <1>5, <2>1 DEF ReadState
  <2>3. ~Owns(text, m + 1)
    BY <1>5 DEF Owns
  <2>4. PICK p \in 1..m : IsPrompt(text, p)
    BY <1>5 DEF FoundInv
  <2>5. p < m + 1 /\ p \in 1..m + 1
    BY <1>2
  <2>6. /\ \A h \in s.out : h \in 1..m + 1 /\ Owns(text, h)
        /\ (\A p1, q1 \in 1..Len(text) : IsPrompt(text, p1) /\ IsPrompt(text, q1) => p1 = q1) =>
              \A h \in 1..m + 1 : Owns(text, h) => h \in s.out
    BY <1>2, <2>3 DEF FoundInv
  <2>7. \E p1, q1 \in 1..m + 1 : p1 < q1 /\ IsPrompt(text, p1) /\ IsHeading(text, q1)
    BY <1>2, <1>5, <2>4, <2>5
  <2> QED
    BY <2>2, <2>6, <2>7 DEF FoundInv
<1>6. CASE ~s.broken /\ s.inside /\ ~IsHeading(text, m + 1)
  <2>1. z = [s EXCEPT !.out = @ \cup {m + 1}]
    BY <1>6 DEF Runner!Read, IsHeading
  <2>2. z \in ReadState /\ z.inside /\ ~z.broken /\ z.out = s.out \cup {m + 1}
    BY <1>1, <1>6, <2>1 DEF ReadState
  <2>3. PICK p \in 1..m : IsPrompt(text, p) /\ \A q \in p + 1..m : ~IsHeading(text, q)
    BY <1>6 DEF FoundInv
  <2>4. p \in 1..m + 1 /\ \A q \in p + 1..m + 1 : ~IsHeading(text, q)
    <3>1. \A q \in p + 1..m + 1 : q \in p + 1..m \/ q = m + 1
      OBVIOUS
    <3> QED
      BY <1>2, <1>6, <2>3, <3>1
  <2>5. Owns(text, m + 1)
    BY <1>6, <2>3, <2>4 DEF Owns
  <2>6. /\ \A h \in z.out : h \in 1..m + 1 /\ Owns(text, h)
        /\ (\A p1, q1 \in 1..Len(text) : IsPrompt(text, p1) /\ IsPrompt(text, q1) => p1 = q1) =>
              \A h \in 1..m + 1 : Owns(text, h) => h \in z.out
    BY <1>2, <2>2, <2>5 DEF FoundInv
  <2>7. \E p1 \in 1..m + 1 : IsPrompt(text, p1) /\ \A q \in p1 + 1..m + 1 : ~IsHeading(text, q)
    BY <2>3, <2>4
  <2> QED
    BY <2>2, <2>6, <2>7 DEF FoundInv
<1>7. CASE ~s.broken /\ ~s.inside /\ ~IsPrompt(text, m + 1)
  <2>1. z = s
    BY <1>7 DEF Runner!Read, IsPrompt
  <2>2. s.out = {} /\ \A p \in 1..m + 1 : ~IsPrompt(text, p)
    BY <1>2, <1>7 DEF FoundInv
  <2>3. ~Owns(text, m + 1) /\ \A h \in 1..m + 1 : ~Owns(text, h)
    <3>1. \A h \in 1..m + 1 : \A p \in 1..h : p \in 1..m + 1
      OBVIOUS
    <3> QED
      BY <1>2, <2>2, <3>1 DEF Owns
  <2> QED
    BY <1>1, <1>7, <2>1, <2>2, <2>3 DEF FoundInv
<1> QED
  BY <1>1, <1>3, <1>4, <1>5, <1>6, <1>7 DEF IsHeading, IsPrompt

LEMMA SectionIs ==
  ASSUME NEW text \in Seq(Lines)
  PROVE  \E s : FoundInv(text, s, Len(text)) /\ Runner!extract_section(text) = s.out
<1> DEFINE N == Len(text)
           base == [out |-> {}, inside |-> FALSE, broken |-> FALSE]
           F == [a \in ReadState \X (1..N) |-> Runner!Read(a[1], text[a[2]], a[2])]
           Is(h) == h = [ln \in 0..N |-> IF ln = 0 THEN base
                                                   ELSE Runner!Read(h[ln - 1], text[ln], ln)]
           g == CHOOSE h : Is(h)
<1>1. N \in Nat
  OBVIOUS
<1>2. base \in ReadState
  BY DEF ReadState
<1>3. ASSUME NEW x \in ReadState, NEW j \in 1..N
      PROVE  F[<<x, j>>] = Runner!Read(x, text[j], j) /\ F[<<x, j>>] \in ReadState
  <2>1. F[<<x, j>>] = Runner!Read(x, text[j], j)
    OBVIOUS
  <2> HIDE DEF F
  <2>2. j \in Nat
    BY <1>1
  <2>3. Runner!Read(x, text[j], j) \in ReadState
    BY <2>2 DEF Runner!Read, ReadState
  <2> QED
    BY <2>1, <2>3
<1> HIDE DEF F, N, base
<1>4. PICK u : Rounds(base, F, u, N) /\ \A j \in 0..N : u[j] \in ReadState
  BY <1>1, <1>2, <1>3, RoundsExist
<1>5. Is(u)
  <2>1. ASSUME NEW k \in 0..N
        PROVE  u[k] = IF k = 0 THEN base ELSE Runner!Read(u[k - 1], text[k], k)
    <3>1. u[k] = IF k = 0 THEN base ELSE F[<<u[k - 1], k>>]
      BY <1>4 DEF Rounds
    <3>2. k # 0 => k - 1 \in 0..N /\ k \in 1..N
      BY <1>1
    <3>3. k # 0 => F[<<u[k - 1], k>>] = Runner!Read(u[k - 1], text[k], k)
      BY <1>3, <1>4, <3>2
    <3> QED
      BY <3>1, <3>3
  <2>2. u = [k \in 0..N |-> u[k]]
    BY <1>4 DEF Rounds
  <2> QED
    BY <2>1, <2>2
<1>6. Is(g)
  BY <1>5
<1>7. Runner!extract_section(text) = g[N].out
  BY DEF Runner!extract_section, N, base
<1> HIDE DEF g
<1>8. FoundInv(text, g[N], N)
  <2> DEFINE S == {k \in Nat : k <= N => FoundInv(text, g[k], k)}
  <2>1. 0 \in S
    <3>1. g[0] = base
      BY <1>1, <1>6
    <3>2. FoundInv(text, base, 0)
      BY <1>2 DEF FoundInv, base
    <3> QED
      BY <3>1, <3>2
  <2>2. ASSUME NEW k \in Nat, k \in S PROVE k + 1 \in S
    <3> SUFFICES ASSUME k + 1 <= N PROVE FoundInv(text, g[k + 1], k + 1)
      OBVIOUS
    <3>1. k + 1 \in 0..N /\ (k + 1) - 1 = k /\ k + 1 # 0 /\ k <= N
      BY <1>1
    <3>2. g[k + 1] = Runner!Read(g[k], text[k + 1], k + 1)
      BY <1>6, <3>1
    <3>3. FoundInv(text, g[k], k)
      BY <2>2, <3>1
    <3>4. k + 1 <= Len(text)
      BY DEF N
    <3> QED
      BY <3>2, <3>3, <3>4, ReadKeeps
  <2> HIDE DEF S
  <2>3. Nat \subseteq S
    BY <2>1, <2>2, NatSetInduction
  <2>4. N \in S
    BY <1>1, <2>3
  <2> QED
    BY <1>1, <2>4 DEF S
<1> QED
  BY <1>7, <1>8 DEF N

LEMMA NotesAre == Runner!NotesStayHidden
<1> SUFFICES ASSUME NEW text \in CaseFiles
             PROVE  LET Heading(ln) == text[ln] \in {"## The prompt", "## "}
                        Prompts     == {ln \in DOMAIN text : text[ln] = "## The prompt"}
                        Under(ln)   == {h \in 1..ln : Heading(h) /\ \A k \in h + 1..ln : ~Heading(k)}
                        Own         == {ln \in DOMAIN text : ~Heading(ln) /\ Under(ln) \cap Prompts # {}}
                    IN  /\ Runner!extract_section(text) \subseteq Own
                        /\ Runner!Cardinality(Prompts) = 1 => Runner!extract_section(text) = Own
  BY DEF Runner!NotesStayHidden
<1> DEFINE Heading(ln) == text[ln] \in {"## The prompt", "## "}
           Prompts     == {ln \in DOMAIN text : text[ln] = "## The prompt"}
           Under(ln)   == {h \in 1..ln : Heading(h) /\ \A k \in h + 1..ln : ~Heading(k)}
           Own         == {ln \in DOMAIN text : ~Heading(ln) /\ Under(ln) \cap Prompts # {}}
           N == Len(text)
<1>1. text \in Seq(Lines)
  BY LabsAssumption DEF Runner!RunnerAssumption, Lines
<1>2. N \in Nat /\ DOMAIN text = 1..N
  BY <1>1
<1>3. ASSUME NEW ln \in 1..N PROVE ln \in Own <=> Owns(text, ln)
  <2>1. Under(ln) \cap Prompts # {} <=>
           \E p \in 1..ln : IsPrompt(text, p) /\ \A q \in p + 1..ln : ~IsHeading(text, q)
    <3>1. \A p \in 1..ln : p \in 1..N
      <4> HIDE DEF N
      <4> QED
        BY <1>2
    <3> QED
      BY <1>2, <3>1 DEF IsPrompt, IsHeading
  <2> QED
    BY <1>2, <2>1 DEF Owns, IsHeading
<1>4. PICK s : FoundInv(text, s, N) /\ Runner!extract_section(text) = s.out
  BY <1>1, SectionIs
<1>5. Own \subseteq 1..N
  BY <1>2
<1>6. Runner!Cardinality(Prompts) = 1 =>
         \A p, q \in 1..N : IsPrompt(text, p) /\ IsPrompt(text, q) => p = q
  <2>1. IsFiniteSet(Prompts)
    <3>1. IsFiniteSet(1..N)
      <4> HIDE DEF N
      <4> QED
        BY <1>2, FS_Interval
    <3>2. Prompts \subseteq 1..N
      BY <1>2
    <3> HIDE DEF Prompts
    <3> QED
      BY <3>1, <3>2, FS_Subset
  <2>2. Cardinality(Prompts) = 1 => \E x : Prompts = {x}
    BY <2>1, FS_Singleton
  <2>3. \A p \in 1..N : IsPrompt(text, p) => p \in Prompts
    BY <1>2 DEF IsPrompt
  <2> HIDE DEF Prompts
  <2> QED
    BY <2>2, <2>3, RunnerNames
<1> HIDE DEF Own, Prompts
<1>7. s.out \subseteq Own
  BY <1>3, <1>4 DEF FoundInv
<1>8. Runner!Cardinality(Prompts) = 1 => s.out = Own
  BY <1>3, <1>4, <1>5, <1>6, <1>7 DEF FoundInv
<1> QED
  BY <1>4, <1>7, <1>8 DEF Own, Prompts

\* Attempts are kept: whatever the terminals, the cases, their ids and texts, the prefixes
\* that find them, the families, and the numbers of commands and days; each attempt writes
\* only into the folder it made, the numbers of a day and case have no gaps, each attempt
\* counts for its case, and for no other unless one id begins the other, what is suggested
\* was counted least, and no hidden note is in a prompt.
THEOREM AttemptsAreKeptHolds == Spec => []AttemptsAreKept
<1>1. Init => RunnerInv
  BY RunnerStarts DEF Init
<1>2. RunnerInv /\ [Next]_vars => RunnerInv'
  <2>1. [Next]_vars => [Runner!RunnerNext]_runner
    BY DEF Next, vars
  <2> QED
    BY <2>1, RunnerNextKeeps
<1>3. RunnerInv => AttemptsAreKept
  <2> SUFFICES ASSUME RunnerInv PROVE Runner!AttemptsAreKept
    BY DEF AttemptsAreKept
  <2>1. Runner!FoldersAreOnesOwn
    BY DEF RunnerInv, FoldersInv, Runner!FoldersAreOnesOwn, Before
  <2> QED
    BY <2>1, CountedIs, SuggestionIs, NotesAre DEF Runner!AttemptsAreKept
<1> QED
  BY <1>1, <1>2, <1>3, PTL DEF Spec

-------------------------------------------------------------------------------
(* read_path_lab: the caches *)

Item == {Cache!draw(r) : r \in 0..Cache!cumulative(Len(Weights)) - 1}

\* Of a stream of requests: its items, the last request of one, and the items requested
\* since, that one included.
Asked(s) == {s[j] : j \in 1..Len(s)}
Last(s, k) == Cache!Max({j \in 1..Len(s) : s[j] = k})
Recent(s, k) == {x \in Asked(s) : Last(s, x) >= Last(s, k)}

\* What a cache of capacity c holds after a stream: the items of the latest uses, in their
\* order, and as many as it can.
Held(d, s, c) ==
    /\ d \in Seq(Item) /\ Len(d) <= c
    /\ \A p \in 1..Len(d) : d[p] \in Asked(s)
    /\ \A p, q \in 1..Len(d) : p < q => Last(s, d[p]) < Last(s, d[q])
    /\ \A y \in Asked(s) : (\A p \in 1..Len(d) : d[p] # y) =>
          Len(d) = c /\ \A p \in 1..Len(d) : Last(s, y) < Last(s, d[p])

\* The requests of a stream that its cache of capacity c answers.
Near(s, j, c) ==
    /\ \E q \in 1..j - 1 : s[q] = s[j]
    /\ LET since == Cache!Max({q \in 1..j - 1 : s[q] = s[j]})
       IN  Cardinality({s[q] : q \in since..j - 1}) <= c
Answered(s, c) == {j \in 1..Len(s) : Near(s, j, c)}

CacheInv ==
    /\ stream \in Seq(Item)
    /\ cache_data = [c \in Capacities |-> cache_data[c]] /\ hits = [c \in Capacities |-> hits[c]]
    /\ \A c \in Capacities :
          Held(cache_data[c], stream, c) /\ hits[c] = Cardinality(Answered(stream, c))

LEMMA LastIs ==
  ASSUME NEW s \in Seq(Item), NEW k \in Asked(s)
  PROVE  /\ Last(s, k) \in 1..Len(s) /\ s[Last(s, k)] = k
         /\ \A j \in 1..Len(s) : s[j] = k => j <= Last(s, k)
<1> DEFINE l == Len(s)
           S == {j \in 1..l : s[j] = k}
<1>1. l \in Nat
  OBVIOUS
<1>2. S # {}
  BY DEF Asked
<1>3. Last(s, k) = Cache!Max(S)
  BY DEF Last
<1> HIDE DEF l
<1>4. S \in SUBSET (0..l)
  BY <1>1
<1>5. \E x \in S : \A y \in S : x >= y
  <2> HIDE DEF S
  <2> QED
    BY <1>1, <1>2, <1>4, GreatestIs
<1>6. Cache!Max(S) \in S /\ \A y \in S : Cache!Max(S) >= y
  <2> HIDE DEF S
  <2> QED
    BY <1>5 DEF Cache!Max
<1>7. \A y \in 1..l : y \in Int
  BY <1>1
<1>8. Cache!Max(S) \in 1..l
  BY <1>6
<1> QED
  BY <1>3, <1>6, <1>7, <1>8 DEF l

\* One more request.
LEMMA LastAfter ==
  ASSUME NEW s \in Seq(Item), NEW k \in Item
  PROVE  /\ Append(s, k) \in Seq(Item) /\ Len(Append(s, k)) = Len(s) + 1
         /\ \A j \in 1..Len(s) : Append(s, k)[j] = s[j]
         /\ Append(s, k)[Len(s) + 1] = k
         /\ Asked(Append(s, k)) = Asked(s) \cup {k}
         /\ Last(Append(s, k), k) = Len(s) + 1
         /\ \A x \in Asked(s) : x # k => Last(Append(s, k), x) = Last(s, x)
<1> DEFINE t == Append(s, k)
           l == Len(s)
<1>1. l \in Nat /\ t \in Seq(Item) /\ Len(t) = l + 1 /\ t[l + 1] = k
      /\ \A j \in 1..l : t[j] = s[j]
  BY AppendProperties
<1> HIDE DEF t
<1>l. Asked(s) = {s[j] : j \in 1..l}
  BY DEF Asked
<1> HIDE DEF l
<1>2. \A j \in 1..l + 1 : j \in 1..l \/ j = l + 1
  BY <1>1
<1>3. \A j \in 1..l : j \in 1..l + 1 /\ j # l + 1
  BY <1>1
<1>4. l + 1 \in 1..l + 1
  BY <1>1
<1>5. Asked(t) = Asked(s) \cup {k}
  <2>1. Asked(t) = {t[j] : j \in 1..l + 1}
    BY <1>1 DEF Asked
  <2>2. \A x : x \in Asked(t) <=> \E j \in 1..l + 1 : x = t[j]
    BY <2>1
  <2>3. \A x : x \in Asked(s) <=> \E j \in 1..l : x = s[j]
    BY <1>l
  <2>4. ASSUME NEW x PROVE x \in Asked(t) <=> x \in Asked(s) \cup {k}
    BY <1>1, <1>2, <1>3, <1>4, <2>2, <2>3
  <2> QED
    BY <2>4
<1>6. Last(t, k) = l + 1
  <2>1. k \in Asked(t)
    BY <1>5
  <2>2. Last(t, k) \in 1..l + 1 /\ l + 1 <= Last(t, k)
    BY <1>1, <1>4, <2>1, LastIs
  <2> QED
    BY <1>1, <2>2
<1>7. ASSUME NEW x \in Asked(s), x # k PROVE Last(t, x) = Last(s, x)
  <2>1. /\ Last(s, x) \in 1..l /\ s[Last(s, x)] = x
        /\ \A j \in 1..l : s[j] = x => j <= Last(s, x)
    BY LastIs DEF l
  <2>2. x \in Asked(t)
    BY <1>5
  <2>3. /\ Last(t, x) \in 1..l + 1 /\ t[Last(t, x)] = x
        /\ \A j \in 1..l + 1 : t[j] = x => j <= Last(t, x)
    BY <1>1, <2>2, LastIs
  <2>4. Last(t, x) \in 1..l /\ s[Last(t, x)] = x
    BY <1>1, <1>2, <1>7, <2>3
  <2>5. Last(t, x) <= Last(s, x) /\ Last(s, x) <= Last(t, x)
    BY <1>1, <1>3, <2>1, <2>3, <2>4
  <2> QED
    BY <1>1, <2>1, <2>4, <2>5
<1> QED
  BY <1>1, <1>5, <1>6, <1>7 DEF t, l

\* A sequence of different things has as many as its length.
LEMMA DistinctCount ==
  ASSUME NEW X, NEW d \in Seq(X), \A p, q \in 1..Len(d) : d[p] = d[q] => p = q
  PROVE  /\ IsFiniteSet({d[p] : p \in 1..Len(d)})
         /\ Cardinality({d[p] : p \in 1..Len(d)}) = Len(d)
<1> DEFINE l == Len(d)
           D == {d[p] : p \in 1..l}
<1>1. l \in Nat /\ d = [p \in 1..l |-> d[p]]
  OBVIOUS
<1>2. d \in [1..l -> D] /\ \A y \in D : \E p \in 1..l : d[p] = y
  BY <1>1
<1> HIDE DEF D, l
<1>3. d \in Surjection(1..l, D)
  BY <1>2 DEF Surjection
<1>4. d \in Injection(1..l, D)
  BY <1>2, <1>3 DEF Injection, IsInjective, l
<1>5. IsFiniteSet(1..l) /\ Cardinality(1..l) = l
  <2>0. 1 \in Int /\ l \in Int
    BY <1>1
  <2>1. IsFiniteSet(1..l) /\ Cardinality(1..l) = IF 1 > l THEN 0 ELSE l - 1 + 1
    BY <2>0, FS_Interval, Zenon
  <2> QED
    BY <1>1, <2>1
<1>6. IsFiniteSet(D) /\ Cardinality(D) = Cardinality(1..l)
  BY <1>3, <1>4, <1>5, FS_Surjection
<1> QED
  BY <1>5, <1>6 DEF D, l

LEMMA AskedIsFinite ==
  ASSUME NEW X, NEW s \in Seq(X)
  PROVE  IsFiniteSet(Asked(s)) /\ Cardinality(Asked(s)) \in 0..Len(s)
<1> DEFINE l == Len(s)
<1>1. l \in Nat /\ s \in [1..l -> Asked(s)] /\ \A y \in Asked(s) : \E p \in 1..l : s[p] = y
  BY DEF Asked
<1> HIDE DEF l
<1>2. IsFiniteSet(1..l) /\ s \in Surjection(1..l, Asked(s))
  BY <1>1, FS_Interval DEF Surjection
<1>3. Cardinality(1..l) = l
  <2>1. 1 \in Int /\ l \in Int
    BY <1>1
  <2>2. Cardinality(1..l) = IF 1 > l THEN 0 ELSE l - 1 + 1
    BY <2>1, FS_Interval, Zenon
  <2> QED
    BY <1>1, <2>2
<1>4. IsFiniteSet(Asked(s)) /\ Cardinality(Asked(s)) <= Cardinality(1..l)
  BY <1>2, FS_Surjection
<1>5. Cardinality(Asked(s)) \in Nat
  BY <1>4, FS_CardinalityType
<1> QED
  BY <1>1, <1>3, <1>4, <1>5 DEF l

\* A cache holds an item that few others were requested since.
LEMMA HeldIs ==
  ASSUME NEW c \in Nat, NEW s \in Seq(Item), NEW d, Held(d, s, c), NEW k
  PROVE  Cache!Contains(d, k) <=> k \in Asked(s) /\ Cardinality(Recent(s, k)) <= c
<1> DEFINE l == Len(d)
           D == {d[p] : p \in 1..l}
<1>1. /\ d \in Seq(Item) /\ l \in Nat /\ l <= c /\ D \subseteq Asked(s)
      /\ \A p, q \in 1..l : p < q => Last(s, d[p]) < Last(s, d[q])
      /\ \A y \in Asked(s) \ D : l = c /\ \A x \in D : Last(s, y) < Last(s, x)
  BY DEF Held
<1>2. \A x \in Asked(s) : Last(s, x) \in Nat
  BY LastIs
<1>3. \A p, q \in 1..l : d[p] = d[q] => p = q
  <2> SUFFICES ASSUME NEW p \in 1..l, NEW q \in 1..l, d[p] = d[q], p # q PROVE FALSE
    OBVIOUS
  <2>1. p < q \/ q < p
    OBVIOUS
  <2>2. Last(s, d[p]) \in Nat /\ Last(s, d[q]) \in Nat
    BY <1>1, <1>2
  <2> QED
    BY <1>1, <2>1, <2>2
<1>4. IsFiniteSet(D) /\ Cardinality(D) = l
  BY <1>1, <1>3, DistinctCount
<1>5. Cache!Contains(d, k) <=> k \in D
  BY DEF Cache!Contains
<1>6. IsFiniteSet(Recent(s, k)) /\ Cardinality(Recent(s, k)) \in Nat
  <2>1. IsFiniteSet(Asked(s)) /\ Recent(s, k) \subseteq Asked(s)
    BY AskedIsFinite DEF Recent
  <2> QED
    BY <2>1, FS_Subset, FS_CardinalityType
<1> HIDE DEF D, l
<1>7. ASSUME k \in D PROVE k \in Asked(s) /\ Cardinality(Recent(s, k)) <= c
  <2>1. ASSUME NEW x \in Recent(s, k), x \notin D PROVE FALSE
    <3>1. x \in Asked(s) /\ Last(s, x) >= Last(s, k)
      BY DEF Recent
    <3>2. Last(s, x) < Last(s, k)
      BY <1>1, <1>7, <2>1, <3>1
    <3>3. Last(s, x) \in Nat /\ Last(s, k) \in Nat
      BY <1>1, <1>2, <1>7, <3>1
    <3> QED
      BY <3>1, <3>2, <3>3
  <2>2. Recent(s, k) \in SUBSET D
    BY <2>1
  <2>3. Cardinality(Recent(s, k)) <= l
    BY <1>4, <2>2, FS_Subset
  <2> QED
    BY <1>1, <1>6, <1>7, <2>3
<1>8. ASSUME k \in Asked(s), k \notin D PROVE ~(Cardinality(Recent(s, k)) <= c)
  <2>1. l = c /\ \A x \in D : Last(s, k) < Last(s, x)
    BY <1>1, <1>8
  <2>2. D \cup {k} \subseteq Recent(s, k)
    <3>1. ASSUME NEW x \in D PROVE x \in Recent(s, k)
      <4>1. x \in Asked(s) /\ Last(s, k) < Last(s, x) /\ Last(s, k) \in Nat /\ Last(s, x) \in Nat
        BY <1>1, <1>2, <1>8, <2>1
      <4>2. Last(s, x) >= Last(s, k)
        BY <4>1
      <4> QED
        BY <4>1, <4>2 DEF Recent
    <3>2. k \in Recent(s, k)
      BY <1>2, <1>8 DEF Recent
    <3> QED
      BY <3>1, <3>2
  <2>3. Cardinality(D \cup {k}) = l + 1
    BY <1>4, <1>8, FS_AddElement
  <2>4. Cardinality(D \cup {k}) <= Cardinality(Recent(s, k))
    BY <1>6, <2>2, FS_Subset
  <2> QED
    BY <1>1, <1>6, <2>1, <2>3, <2>4
<1> QED
  BY <1>5, <1>7, <1>8

\* move_to_end, of an item that is at p, and of one that is not there.
LEMMA MovedToEndIs ==
  ASSUME NEW d \in Seq(Item), NEW k \in Item, NEW p \in 1..Len(d), d[p] = k,
         \A q \in 1..Len(d) : d[q] = k => q = p
  PROVE  /\ Cache!MovedToEnd(d, k) \in Seq(Item) /\ Len(Cache!MovedToEnd(d, k)) = Len(d)
         /\ Cache!MovedToEnd(d, k)[Len(d)] = k
         /\ \A q \in 1..Len(d) - 1 :
               Cache!MovedToEnd(d, k)[q] = d[IF q < p THEN q ELSE q + 1]
<1> DEFINE l == Len(d)
           a == SubSeq(d, 1, p - 1)
           b == SubSeq(d, p + 1, l)
           S == {j \in 1..l : d[j] = k}
           r == a \o b
<1>1. l \in Nat /\ p \in 1..l /\ p \in Nat /\ p >= 1 /\ p <= l
  OBVIOUS
<1>2. S = {p}
  OBVIOUS
<1>3. Cache!Min(S) = p
  <2> HIDE DEF S
  <2>1. p \in S /\ \A j \in S : j = p
    BY <1>2
  <2>2. p <= p
    BY <1>1
  <2> QED
    BY <2>1, <2>2 DEF Cache!Min
<1>4. Cache!SelectInSeq(d, LAMBDA x : x = k) = p
  <2>1. S # {}
    BY <1>2
  <2>2. Cache!SelectInSeq(d, LAMBDA x : x = k) = IF S # {} THEN Cache!Min(S) ELSE 0
    BY DEF Cache!SelectInSeq
  <2> QED
    BY <1>3, <2>1, <2>2
<1>5. Cache!RemoveFirst(d, k) = r
  <2>1. \E j \in 1..l : d[j] = k
    OBVIOUS
  <2>2. Cache!RemoveFirst(d, k) = Cache!RemoveAt(d, Cache!SelectInSeq(d, LAMBDA x : x = k))
    BY <2>1 DEF Cache!RemoveFirst
  <2> QED
    BY <1>4, <2>2 DEF Cache!RemoveAt
<1> HIDE DEF l
<1>6. /\ a \in Seq(Item) /\ Len(a) = p - 1 /\ \A q \in 1..p - 1 : a[q] = d[q]
      /\ b \in Seq(Item) /\ Len(b) = l - p /\ \A q \in 1..l - p : b[q] = d[p + q]
  <2>1. d \in Seq(Item) /\ Len(d) = l
    BY DEF l
  <2>2. 1 \in 1..l + 1 /\ p - 1 \in 0..l /\ p + 1 \in 1..l + 1 /\ l \in p..l
    BY <1>1
  <2> QED
    BY <1>1, <2>1, <2>2, SubSeqProperties
<1> HIDE DEF a, b
<1>7. /\ r \in Seq(Item) /\ Len(r) = l - 1
      /\ \A q \in 1..l - 1 : r[q] = d[IF q < p THEN q ELSE q + 1]
  <2>1. r \in Seq(Item) /\ Len(r) = (p - 1) + (l - p)
        /\ \A q \in 1..(p - 1) + (l - p) : r[q] = IF q <= p - 1 THEN a[q] ELSE b[q - (p - 1)]
    <3>1. /\ r \in Seq(Item) /\ Len(r) = Len(a) + Len(b)
          /\ \A q \in 1..Len(a) + Len(b) :
                r[q] = IF q <= Len(a) THEN a[q] ELSE b[q - Len(a)]
      BY <1>6, ConcatProperties
    <3> HIDE DEF r
    <3> QED
      BY <1>6, <3>1
  <2>2. (p - 1) + (l - p) = l - 1
    BY <1>1
  <2>3. ASSUME NEW q \in 1..l - 1 PROVE r[q] = d[IF q < p THEN q ELSE q + 1]
    <3>1. CASE q < p
      <4>1. q \in 1..p - 1 /\ q <= p - 1
        BY <1>1, <3>1
      <4> QED
        BY <1>6, <2>1, <2>2, <3>1, <4>1
    <3>2. CASE ~(q < p)
      <4>1. q - (p - 1) \in 1..l - p /\ ~(q <= p - 1) /\ p + (q - (p - 1)) = q + 1
        BY <1>1, <3>2
      <4> QED
        BY <1>6, <2>1, <2>2, <3>2, <4>1
    <3> QED
      BY <3>1, <3>2
  <2> QED
    BY <2>1, <2>2, <2>3
<1> HIDE DEF r
<1>8. Cache!MovedToEnd(d, k) = Append(r, k)
  BY <1>5 DEF Cache!MovedToEnd
<1>9. /\ Append(r, k) \in Seq(Item) /\ Len(Append(r, k)) = l /\ Append(r, k)[l] = k
      /\ \A q \in 1..l - 1 : Append(r, k)[q] = r[q]
  <2>1. (l - 1) + 1 = l
    BY <1>1
  <2> QED
    BY <1>7, <2>1, AppendProperties
<1> QED
  BY <1>7, <1>8, <1>9 DEF l

LEMMA HitKeeps ==
  ASSUME NEW c \in Nat, NEW s \in Seq(Item), NEW d, Held(d, s, c), NEW k \in Item,
         Cache!Contains(d, k)
  PROVE  Held(Cache!MovedToEnd(d, k), Append(s, k), c)
<1> DEFINE l == Len(d)
           N == Len(s)
           t == Append(s, k)
           m == Cache!MovedToEnd(d, k)
<1>1. /\ d \in Seq(Item) /\ l \in Nat /\ l <= c /\ N \in Nat
      /\ \A p \in 1..l : d[p] \in Asked(s)
      /\ \A p, q \in 1..l : p < q => Last(s, d[p]) < Last(s, d[q])
      /\ \A y \in Asked(s) : (\A p \in 1..l : d[p] # y) =>
            l = c /\ \A p \in 1..l : Last(s, y) < Last(s, d[p])
  BY DEF Held
<1>2. \A x \in Asked(s) : Last(s, x) \in Nat /\ Last(s, x) < N + 1
  BY LastIs
<1>3. PICK p \in 1..l : d[p] = k
  BY DEF Cache!Contains
<1>4. ASSUME NEW q \in 1..l, d[q] = k PROVE q = p
  <2>1. q < p \/ q = p \/ p < q
    OBVIOUS
  <2>2. Last(s, k) \in Nat
    BY <1>1, <1>2, <1>3
  <2> QED
    BY <1>1, <1>3, <1>4, <2>1, <2>2
<1>5. /\ m \in Seq(Item) /\ Len(m) = l /\ m[l] = k
      /\ \A q \in 1..l - 1 : m[q] = d[IF q < p THEN q ELSE q + 1]
  BY <1>1, <1>3, <1>4, MovedToEndIs
<1>6. /\ Asked(t) = Asked(s) \cup {k} /\ Last(t, k) = N + 1
      /\ \A x \in Asked(s) : x # k => Last(t, x) = Last(s, x)
  BY LastAfter
<1> HIDE DEF l, N, t, m
<1>7. ASSUME NEW q \in 1..l - 1
      PROVE  \E j \in 1..l : j # p /\ j = (IF q < p THEN q ELSE q + 1) /\ m[q] = d[j] /\ m[q] # k
  <2> DEFINE j == IF q < p THEN q ELSE q + 1
  <2>1. j \in 1..l /\ j # p
    BY <1>1
  <2>2. m[q] = d[j]
    BY <1>5
  <2> QED
    BY <1>4, <2>1, <2>2
<1>8. \A q \in 1..l : q = l \/ q \in 1..l - 1
  BY <1>1
<1>9. \A q \in 1..l : m[q] \in Asked(t) /\ (m[q] # k => m[q] \in Asked(s) /\ \E j \in 1..l : m[q] = d[j])
  BY <1>1, <1>5, <1>6, <1>7, <1>8
<1>10. ASSUME NEW q \in 1..l, NEW r \in 1..l, q < r PROVE Last(t, m[q]) < Last(t, m[r])
  <2>1. q \in 1..l - 1
    BY <1>1, <1>10
  <2>2. PICK j \in 1..l : j = (IF q < p THEN q ELSE q + 1) /\ m[q] = d[j] /\ m[q] # k
    BY <1>7, <2>1
  <2>3. m[q] \in Asked(s) /\ Last(t, m[q]) = Last(s, d[j])
    BY <1>1, <1>6, <2>2
  <2>4. CASE r = l
    BY <1>2, <1>5, <1>6, <2>2, <2>3, <2>4
  <2>5. CASE r # l
    <3>1. r \in 1..l - 1
      BY <1>8, <2>5
    <3>2. PICK i1 \in 1..l : i1 = (IF r < p THEN r ELSE r + 1) /\ m[r] = d[i1] /\ m[r] # k
      BY <1>7, <3>1
    <3>3. Last(t, m[r]) = Last(s, d[i1])
      BY <1>1, <1>6, <3>2
    <3>4. j < i1
      BY <1>10, <2>2, <3>2
    <3> QED
      BY <1>1, <2>3, <3>3, <3>4
  <2> QED
    BY <2>4, <2>5
<1>11. ASSUME NEW y \in Asked(t), \A q \in 1..l : m[q] # y
       PROVE  l = c /\ \A q \in 1..l : Last(t, y) < Last(t, m[q])
  <2>1. l \in 1..l
    BY <1>1, <1>3
  <2>2. y # k /\ y \in Asked(s)
    BY <1>5, <1>6, <1>11, <2>1
  <2>3. ASSUME NEW j \in 1..l PROVE d[j] # y
    <3>1. CASE j = p
      BY <1>3, <2>2, <3>1
    <3>2. CASE j # p
      <4> DEFINE q == IF j < p THEN j ELSE j - 1
      <4>1. q \in 1..l - 1 /\ q \in 1..l /\ (IF q < p THEN q ELSE q + 1) = j
        BY <1>1, <3>2
      <4> HIDE DEF q
      <4>2. m[q] = d[j]
        BY <1>5, <4>1
      <4> QED
        BY <1>11, <4>1, <4>2
    <3> QED
      BY <3>1, <3>2
  <2>4. l = c /\ \A j \in 1..l : Last(s, y) < Last(s, d[j])
    BY <1>1, <2>2, <2>3
  <2>5. Last(t, y) = Last(s, y) /\ Last(s, y) < N + 1
    BY <1>2, <1>6, <2>2
  <2>6. ASSUME NEW q \in 1..l PROVE Last(t, y) < Last(t, m[q])
    <3>1. CASE m[q] = k
      BY <1>6, <2>5, <3>1
    <3>2. CASE m[q] # k
      BY <1>6, <1>9, <2>4, <2>5, <3>2
    <3> QED
      BY <3>1, <3>2
  <2> QED
    BY <2>4, <2>6
<1> QED
  BY <1>1, <1>5, <1>9, <1>10, <1>11 DEF Held, m, t

LEMMA PutKeeps ==
  ASSUME NEW c \in Nat, NEW s \in Seq(Item), NEW d, Held(d, s, c), NEW k \in Item,
         ~Cache!Contains(d, k)
  PROVE  Held(Cache!put(d, k, c), Append(s, k), c)
<1> DEFINE l == Len(d)
           N == Len(s)
           t == Append(s, k)
           e == Append(d, k)
<1>1. /\ d \in Seq(Item) /\ l \in Nat /\ l <= c /\ N \in Nat
      /\ \A p \in 1..l : d[p] \in Asked(s)
      /\ \A p, q \in 1..l : p < q => Last(s, d[p]) < Last(s, d[q])
      /\ \A y \in Asked(s) : (\A p \in 1..l : d[p] # y) =>
            l = c /\ \A p \in 1..l : Last(s, y) < Last(s, d[p])
  BY DEF Held
<1>2. \A x \in Asked(s) : Last(s, x) \in Nat /\ Last(s, x) < N + 1
  BY LastIs
<1>3. \A p \in 1..l : d[p] # k
  BY DEF Cache!Contains
<1>4. Cache!MovedToEnd(d, k) = e
  <2>1. Cache!RemoveFirst(d, k) = d
    BY <1>3 DEF Cache!RemoveFirst
  <2> QED
    BY <2>1 DEF Cache!MovedToEnd
<1>5. /\ e \in Seq(Item) /\ Len(e) = l + 1 /\ e[l + 1] = k
      /\ \A p \in 1..l : e[p] = d[p]
  BY <1>1, AppendProperties
<1>6. Cache!put(d, k, c) = IF Len(e) > c THEN Tail(e) ELSE e
  BY <1>4 DEF Cache!put
<1>7. /\ Asked(t) = Asked(s) \cup {k} /\ Last(t, k) = N + 1
      /\ \A x \in Asked(s) : x # k => Last(t, x) = Last(s, x)
  BY LastAfter
<1> HIDE DEF l, N, t, e
<1>8. \A p \in 1..l + 1 : p = l + 1 \/ p \in 1..l
  BY <1>1
<1>9. \A p \in 1..l + 1 : e[p] \in Asked(t)
  BY <1>1, <1>5, <1>7, <1>8
<1>10. ASSUME NEW p \in 1..l + 1, NEW q \in 1..l + 1, p < q
       PROVE  Last(t, e[p]) < Last(t, e[q])
  <2>1. p \in 1..l
    BY <1>1, <1>10
  <2>2. e[p] = d[p] /\ Last(t, e[p]) = Last(s, d[p]) /\ d[p] \in Asked(s)
    BY <1>1, <1>3, <1>5, <1>7, <2>1
  <2>3. CASE q = l + 1
    BY <1>2, <1>5, <1>7, <2>2, <2>3
  <2>4. CASE q # l + 1
    <3>1. q \in 1..l
      BY <1>8, <2>4
    <3>2. Last(t, e[q]) = Last(s, d[q])
      BY <1>1, <1>3, <1>5, <1>7, <3>1
    <3> QED
      BY <1>1, <1>10, <2>1, <2>2, <3>1, <3>2
  <2> QED
    BY <2>3, <2>4
<1>11. ASSUME NEW y \in Asked(t), \A p \in 1..l + 1 : e[p] # y
       PROVE  l = c /\ \A p \in 1..l + 1 : Last(t, y) < Last(t, e[p])
  <2>1. l + 1 \in 1..l + 1 /\ \A p \in 1..l : p \in 1..l + 1
    BY <1>1
  <2>2. y # k /\ y \in Asked(s) /\ \A p \in 1..l : d[p] # y
    BY <1>5, <1>7, <1>11, <2>1
  <2>3. l = c /\ \A p \in 1..l : Last(s, y) < Last(s, d[p])
    BY <1>1, <2>2
  <2>4. Last(t, y) = Last(s, y) /\ Last(s, y) < N + 1
    BY <1>2, <1>7, <2>2
  <2>5. ASSUME NEW p \in 1..l + 1 PROVE Last(t, y) < Last(t, e[p])
    <3>1. CASE p = l + 1
      BY <1>5, <1>7, <2>4, <3>1
    <3>2. CASE p \in 1..l
      BY <1>1, <1>3, <1>5, <1>7, <2>3, <2>4, <3>2
    <3> QED
      BY <1>8, <3>1, <3>2
  <2> QED
    BY <2>3, <2>5
<1>12. CASE ~(Len(e) > c)
  <2>1. l + 1 <= c /\ Cache!put(d, k, c) = e
    BY <1>1, <1>5, <1>6, <1>12
  <2>2. \A y \in Asked(t) : ~\A p \in 1..l + 1 : e[p] # y
    BY <1>1, <1>11, <2>1
  <2> QED
    BY <1>5, <1>9, <1>10, <2>1, <2>2 DEF Held, t
<1>13. CASE Len(e) > c
  <2> DEFINE w == Tail(e)
  <2>1. l = c /\ Cache!put(d, k, c) = w
    BY <1>1, <1>5, <1>6, <1>13
  <2>2. w \in Seq(Item) /\ Len(w) = l /\ \A p \in 1..l : w[p] = e[p + 1]
    <3>1. e # <<>>
      BY <1>1, <1>5
    <3>2. w \in Seq(Item) /\ Len(w) = (l + 1) - 1 /\ \A p \in 1..Len(w) : w[p] = e[p + 1]
      BY <1>5, <3>1, HeadTailProperties
    <3>3. (l + 1) - 1 = l
      BY <1>1
    <3> QED
      BY <3>2, <3>3
  <2>3. \A p \in 1..l : p + 1 \in 1..l + 1
    BY <1>1
  <2> HIDE DEF w
  <2>4. \A p \in 1..l : w[p] \in Asked(t)
    BY <1>9, <2>2, <2>3
  <2>5. ASSUME NEW p \in 1..l, NEW q \in 1..l, p < q PROVE Last(t, w[p]) < Last(t, w[q])
    <3>1. p + 1 < q + 1
      BY <2>5
    <3> QED
      BY <1>10, <2>2, <2>3, <3>1
  <2>6. ASSUME NEW y \in Asked(t), \A p \in 1..l : w[p] # y
        PROVE  \A p \in 1..l : Last(t, y) < Last(t, w[p])
    <3>1. CASE \A p \in 1..l + 1 : e[p] # y
      BY <1>11, <2>2, <2>3, <3>1
    <3>2. CASE \E p \in 1..l + 1 : e[p] = y
      <4>1. PICK p \in 1..l + 1 : e[p] = y
        BY <3>2
      <4>2. p = 1
        <5>1. SUFFICES ASSUME p # 1 PROVE FALSE
          OBVIOUS
        <5>2. p - 1 \in 1..l /\ (p - 1) + 1 = p
          BY <1>1, <5>1
        <5>3. w[p - 1] = y
          BY <2>2, <4>1, <5>2
        <5> QED
          BY <2>6, <5>2, <5>3
      <4>3. \A q \in 1..l : 1 < q + 1
        BY <1>1
      <4> QED
        BY <1>10, <2>2, <2>3, <4>1, <4>2, <4>3
    <3> QED
      BY <3>1, <3>2
  <2> QED
    BY <1>1, <2>1, <2>2, <2>4, <2>5, <2>6 DEF Held, t
<1> QED
  BY <1>12, <1>13

\* The requests that are answered, after one more.
LEMMA AnsweredAfter ==
  ASSUME NEW c \in Nat, NEW s \in Seq(Item), NEW k \in Item
  PROVE  /\ IsFiniteSet(Answered(s, c))
         /\ Cardinality(Answered(Append(s, k), c)) =
               IF k \in Asked(s) /\ Cardinality(Recent(s, k)) <= c
               THEN Cardinality(Answered(s, c)) + 1 ELSE Cardinality(Answered(s, c))
<1> DEFINE t == Append(s, k)
           l == Len(s)
           A == Answered(s, c)
<1>1. l \in Nat /\ Len(t) = l + 1 /\ t[l + 1] = k /\ \A j \in 1..l : t[j] = s[j]
  BY LastAfter
<1> HIDE DEF t
<1>2. IsFiniteSet(A) /\ l + 1 \notin A
  <2> HIDE DEF l
  <2>1. IsFiniteSet(1..l) /\ l + 1 \notin 1..l
    BY <1>1, FS_Interval
  <2>2. A \in SUBSET (1..l)
    BY DEF Answered, l
  <2> HIDE DEF A
  <2> QED
    BY <2>1, <2>2, FS_Subset
<1>3. ASSUME NEW j \in 1..l PROVE Near(t, j, c) <=> Near(s, j, c)
  <2> DEFINE S(u) == {q \in 1..j - 1 : u[q] = u[j]}
             w == Cache!Max(S(s))
  <2> HIDE DEF l
  <2>1. \A q \in 1..j - 1 : q \in 1..l
    BY <1>1
  <2>2. S(t) = S(s)
    BY <1>1, <2>1
  <2>3. (\E q \in 1..j - 1 : t[q] = t[j]) <=> \E q \in 1..j - 1 : s[q] = s[j]
    BY <1>1, <2>1
  <2>4. ASSUME \E q \in 1..j - 1 : s[q] = s[j]
        PROVE  {t[q] : q \in w..j - 1} = {s[q] : q \in w..j - 1}
    <3>1. j - 1 \in Nat /\ S(s) \in SUBSET (0..j - 1) /\ S(s) # {}
      BY <1>1, <2>4
    <3>2. \E x \in S(s) : \A y \in S(s) : x >= y
      <4> HIDE DEF S
      <4> QED
        BY <3>1, GreatestIs
    <3>3. w \in S(s)
      <4> HIDE DEF S
      <4> QED
        BY <3>2 DEF Cache!Max
    <3>4. w \in 1..j - 1
      BY <3>3
    <3> HIDE DEF w
    <3>5. \A q \in w..j - 1 : q \in 1..j - 1
      BY <1>1, <3>4
    <3>6. \A q \in w..j - 1 : t[q] = s[q]
      BY <1>1, <2>1, <3>5
    <3> QED
      BY <3>6
  <2>5. Cache!Max(S(t)) = w
    BY <2>2
  <2>6. Near(t, j, c) <=> (\E q \in 1..j - 1 : t[q] = t[j])
                          /\ Cardinality({t[q] : q \in Cache!Max(S(t))..j - 1}) <= c
    BY DEF Near
  <2>7. Near(s, j, c) <=> (\E q \in 1..j - 1 : s[q] = s[j])
                          /\ Cardinality({s[q] : q \in w..j - 1}) <= c
    BY DEF Near
  <2> HIDE DEF S, w
  <2> QED
    BY <2>3, <2>4, <2>5, <2>6, <2>7
<1>4. Near(t, l + 1, c) <=> k \in Asked(s) /\ Cardinality(Recent(s, k)) <= c
  <2> DEFINE S == {q \in 1..(l + 1) - 1 : t[q] = t[l + 1]}
             w == Last(s, k)
  <2>1. (l + 1) - 1 = l
    BY <1>1
  <2>2. S = {q \in 1..l : s[q] = k}
    BY <1>1, <2>1
  <2>3. Cache!Max(S) = w
    BY <2>2 DEF Last
  <2>4. (\E q \in 1..(l + 1) - 1 : t[q] = t[l + 1]) <=> k \in Asked(s)
    BY <1>1, <2>1 DEF Asked
  <2>5. ASSUME k \in Asked(s)
        PROVE  {t[q] : q \in w..(l + 1) - 1} = Recent(s, k)
    <3>1. w \in 1..l
      BY <2>5, LastIs
    <3>2. \A x \in Asked(s) : /\ Last(s, x) \in 1..l /\ s[Last(s, x)] = x
                              /\ \A j \in 1..l : s[j] = x => j <= Last(s, x)
      BY LastIs
    <3>3. \A j \in 1..l : s[j] \in Asked(s)
      BY DEF Asked
    <3> HIDE DEF l, w
    <3>4. ASSUME NEW q \in w..(l + 1) - 1 PROVE t[q] \in Recent(s, k)
      <4>1. q \in 1..l /\ w <= q
        BY <1>1, <3>1
      <4>2. t[q] = s[q] /\ s[q] \in Asked(s) /\ q <= Last(s, s[q]) /\ Last(s, s[q]) \in 1..l
        BY <1>1, <3>2, <3>3, <4>1
      <4>3. Last(s, s[q]) >= w
        BY <1>1, <3>1, <4>1, <4>2
      <4> QED
        BY <4>2, <4>3 DEF Recent, w
    <3>5. ASSUME NEW x \in Recent(s, k) PROVE \E q \in w..(l + 1) - 1 : x = t[q]
      <4>1. x \in Asked(s) /\ Last(s, x) >= w
        BY DEF Recent, w
      <4>2. Last(s, x) \in 1..l /\ s[Last(s, x)] = x
        BY <3>2, <4>1
      <4>3. Last(s, x) \in w..(l + 1) - 1
        BY <1>1, <3>1, <4>1, <4>2
      <4> QED
        BY <1>1, <4>2, <4>3
    <3> QED
      BY <3>4, <3>5
  <2>6. Near(t, l + 1, c) <=> (\E q \in 1..(l + 1) - 1 : t[q] = t[l + 1])
                              /\ Cardinality({t[q] : q \in Cache!Max(S)..(l + 1) - 1}) <= c
    BY DEF Near
  <2> HIDE DEF S, w
  <2> QED
    BY <2>3, <2>4, <2>5, <2>6
<1>5. \A j : j \in 1..l + 1 <=> j \in 1..l \/ j = l + 1
  <2> HIDE DEF l
  <2> QED
    BY <1>1
<1>6. Answered(t, c) = {j \in 1..l + 1 : Near(t, j, c)} /\ A = {j \in 1..l : Near(s, j, c)}
  BY <1>1 DEF Answered
<1> HIDE DEF l, A
<1>7. CASE k \in Asked(s) /\ Cardinality(Recent(s, k)) <= c
  <2>1. Answered(t, c) = A \cup {l + 1}
    BY <1>3, <1>4, <1>5, <1>6, <1>7
  <2>2. Cardinality(A \cup {l + 1}) = Cardinality(A) + 1
    BY <1>2, FS_AddElement
  <2> QED
    BY <1>2, <1>7, <2>1, <2>2 DEF A, t
<1>8. CASE ~(k \in Asked(s) /\ Cardinality(Recent(s, k)) <= c)
  <2>1. Answered(t, c) = A
    BY <1>3, <1>4, <1>5, <1>6, <1>8
  <2> QED
    BY <1>2, <1>8, <2>1 DEF A, t
<1> QED
  BY <1>7, <1>8

LEMMA CacheStarts == Cache!CacheInit => CacheInv
<1> SUFFICES ASSUME Cache!CacheInit PROVE CacheInv
  OBVIOUS
<1>1. /\ cache_data = [c \in Capacities |-> <<>>] /\ hits = [c \in Capacities |-> 0]
      /\ stream = <<>>
  BY DEF Cache!CacheInit
<1>2. stream \in Seq(Item) /\ Len(stream) = 0 /\ Capacities \subseteq Nat
  BY <1>1, LabsAssumption DEF Cache!CacheAssumption
<1>3. Asked(stream) = {}
  BY <1>2 DEF Asked
<1>4. ASSUME NEW c \in Capacities
      PROVE  Held(cache_data[c], stream, c) /\ hits[c] = Cardinality(Answered(stream, c))
  <2>1. c \in Nat /\ cache_data[c] = <<>> /\ hits[c] = 0
    BY <1>1, <1>2
  <2>2. <<>> \in Seq(Item) /\ Len(<<>>) = 0
    OBVIOUS
  <2>3. Held(<<>>, stream, c)
    BY <1>3, <2>1, <2>2 DEF Held
  <2>4. Answered(stream, c) = {}
    BY <1>2 DEF Answered
  <2>5. Cardinality({}) = 0
    BY FS_EmptySet
  <2> QED
    BY <2>1, <2>3, <2>4, <2>5
<1> QED
  BY <1>1, <1>2, <1>4 DEF CacheInv

LEMMA CacheNextKeeps == CacheInv /\ [Cache!CacheNext]_cache => CacheInv'
<1> SUFFICES ASSUME CacheInv, [Cache!CacheNext]_cache PROVE CacheInv'
  OBVIOUS
<1>1. ASSUME UNCHANGED cache PROVE CacheInv'
  <2>1. cache_data' = cache_data /\ hits' = hits /\ stream' = stream
    BY <1>1 DEF cache
  <2>2. /\ stream' \in Seq(Item)
        /\ cache_data' = [c \in Capacities |-> cache_data'[c]]
        /\ hits' = [c \in Capacities |-> hits'[c]]
        /\ \A c \in Capacities : /\ Held(cache_data'[c], stream', c)
                                /\ hits'[c] = Cardinality(Answered(stream', c))
    BY <2>1 DEF CacheInv
  <2> QED
    BY <2>2 DEF CacheInv, Held, Answered, Near, Last, Asked
<1>2. ASSUME Cache!CacheNext PROVE CacheInv'
  <2>1. PICK r \in 0..Cache!cumulative(Len(Weights)) - 1 : Cache!Request(Cache!draw(r))
    BY <1>2 DEF Cache!CacheNext
  <2> DEFINE k == Cache!draw(r)
  <2>2. k \in Item /\ Cache!Request(k)
    BY <2>1 DEF Item
  <2> HIDE DEF k
  <2>3. stream \in Seq(Item) /\ Capacities \subseteq Nat
    BY LabsAssumption DEF CacheInv, Cache!CacheAssumption
  <2>4. stream' = Append(stream, k)
    BY <2>2 DEF Cache!Request
  <2>5. stream' \in Seq(Item)
    BY <2>2, <2>3, <2>4
  <2>6. /\ cache_data' = [c \in Capacities |-> IF Cache!get(cache_data[c], k).hit
                                               THEN Cache!get(cache_data[c], k).keys
                                               ELSE Cache!put(Cache!get(cache_data[c], k).keys, k, c)]
        /\ hits' = [c \in Capacities |-> IF Cache!get(cache_data[c], k).hit
                                         THEN hits[c] + 1 ELSE hits[c]]
    BY <2>2 DEF Cache!Request
  <2>7. ASSUME NEW c \in Capacities
        PROVE  Held(cache_data'[c], stream', c) /\ hits'[c] = Cardinality(Answered(stream', c))
    <3> DEFINE d == cache_data[c]
    <3>1. c \in Nat /\ Held(d, stream, c) /\ hits[c] = Cardinality(Answered(stream, c))
      BY <2>3 DEF CacheInv
    <3>2. Cache!Contains(d, k) <=> k \in Asked(stream) /\ Cardinality(Recent(stream, k)) <= c
      BY <2>3, <3>1, HeldIs
    <3>3. Cardinality(Answered(stream', c)) =
             IF k \in Asked(stream) /\ Cardinality(Recent(stream, k)) <= c
             THEN Cardinality(Answered(stream, c)) + 1 ELSE Cardinality(Answered(stream, c))
      BY <2>2, <2>3, <2>4, <3>1, AnsweredAfter
    <3>4. CASE Cache!Contains(d, k)
      <4>1. Cache!get(d, k).hit /\ Cache!get(d, k).keys = Cache!MovedToEnd(d, k)
        BY <3>4 DEF Cache!get
      <4>2. cache_data'[c] = Cache!MovedToEnd(d, k) /\ hits'[c] = hits[c] + 1
        BY <2>6, <4>1
      <4> QED
        BY <2>2, <2>3, <2>4, <3>1, <3>2, <3>3, <3>4, <4>2, HitKeeps
    <3>5. CASE ~Cache!Contains(d, k)
      <4>1. ~Cache!get(d, k).hit /\ Cache!get(d, k).keys = d
        BY <3>5 DEF Cache!get
      <4>2. cache_data'[c] = Cache!put(d, k, c) /\ hits'[c] = hits[c]
        BY <2>6, <4>1
      <4> QED
        BY <2>2, <2>3, <2>4, <3>1, <3>2, <3>3, <3>5, <4>2, PutKeeps
    <3> QED
      BY <3>4, <3>5
  <2>8. cache_data' = [c \in Capacities |-> cache_data'[c]] /\ hits' = [c \in Capacities |-> hits'[c]]
    BY <2>6
  <2> QED
    BY <2>5, <2>7, <2>8 DEF CacheInv, Held, Answered, Near, Last, Asked
<1> QED
  BY <1>1, <1>2

\* Hits follow reuse: at any capacity and for any stream of requests, a request is a hit
\* exactly when no more keys than the capacity were asked for since its last use.
THEOREM HitsFollowReuseHolds == Spec => []HitsFollowReuse
<1>1. Init => CacheInv
  BY CacheStarts DEF Init
<1>2. CacheInv /\ [Next]_vars => CacheInv'
  <2>1. [Next]_vars => [Cache!CacheNext]_cache
    BY DEF Next, vars
  <2> QED
    BY <2>1, CacheNextKeeps
<1>3. CacheInv => HitsFollowReuse
  <2> SUFFICES ASSUME CacheInv, NEW c \in Capacities
               PROVE  hits[c] = Cache!Cardinality({j \in DOMAIN stream :
                                  /\ \E q \in 1..j - 1 : stream[q] = stream[j]
                                  /\ Cache!Reuse(j) <= c})
    BY DEF HitsFollowReuse, Cache!HitsFollowReuse
  <2>1. \A S : Cache!Cardinality(S) = Cardinality(S)
    <3> SUFFICES ASSUME NEW S PROVE Cache!Cardinality(S) = Cardinality(S)
      OBVIOUS
    <3> QED
      BY DEF Cache!Cardinality, Cardinality
  <2>2. DOMAIN stream = 1..Len(stream)
    BY DEF CacheInv
  <2>3. \A j : Near(stream, j, c) <=>
           (\E q \in 1..j - 1 : stream[q] = stream[j]) /\ Cache!Reuse(j) <= c
    BY <2>1 DEF Near, Cache!Reuse
  <2>4. Answered(stream, c) = {j \in DOMAIN stream :
                                 /\ \E q \in 1..j - 1 : stream[q] = stream[j]
                                 /\ Cache!Reuse(j) <= c}
    BY <2>2, <2>3 DEF Answered
  <2> QED
    BY <2>1, <2>4 DEF CacheInv
<1> QED
  BY <1>1, <1>2, <1>3, PTL DEF Spec
-------------------------------------------------------------------------------
(* 020_hash_table_demo: the set *)

TableInv ==
    /\ hash_fn \in [TableKey -> Nat] /\ keys \in Seq(TableKey)
    /\ \E m \in Nat \ {0} : Exact(TableKey, hash_fn, chains, Asked(keys), m) /\ 4 * size <= 3 * m
    /\ size = Cardinality(Asked(keys))
    /\ compares \in Nat /\ 2 * compares <= Len(keys) * (Len(keys) - 1)

LEMMA TableNames ==
  /\ \A S : Table!Cardinality(S) = Cardinality(S)
  /\ \A s : Table!Range(s) = {s[j] : j \in DOMAIN s}
  /\ \A s : Table!IsInjective(s) <=> \A a, b \in DOMAIN s : s[a] = s[b] => a = b
<1>1. ASSUME NEW S PROVE Table!Cardinality(S) = Cardinality(S)
  BY DEF Table!Cardinality, Cardinality
<1>2. \A s : Table!Range(s) = {s[j] : j \in DOMAIN s}
  BY DEF Table!Range
<1>3. \A s : Table!IsInjective(s) <=> \A a, b \in DOMAIN s : s[a] = s[b] => a = b
  BY DEF Table!IsInjective
<1> QED
  BY <1>1, <1>2, <1>3

LEMMA BucketIs ==
  ASSUME hash_fn \in [TableKey -> Nat], NEW m \in Nat \ {0}, NEW bs \in Arrays(TableKey, m)
  PROVE  /\ Table!Buckets(bs) = m
         /\ \A v \in TableKey : /\ Table!Bucket(v, bs) = hash_fn[v] % m
                                /\ hash_fn[v] % m \in 0..m - 1
<1>1. Table!Buckets(bs) = m
  BY ArraySize, TableNames DEF Table!Buckets
<1>2. \A v \in TableKey : hash_fn[v] % m \in 0..m - 1
  BY HashIs
<1> QED
  BY <1>1, <1>2 DEF Table!Bucket

\* A key that is appended to a chain.
LEMMA AppendLists ==
  ASSUME NEW s \in Seq(TableKey), NEW P \in SUBSET TableKey, Lists(s, P),
         NEW v \in TableKey, v \notin P
  PROVE  Append(s, v) \in Seq(TableKey) /\ Lists(Append(s, v), P \cup {v})
<1> DEFINE t == Append(s, v)
           N == Len(s)
<1>1. /\ t \in Seq(TableKey) /\ N \in Nat /\ Len(t) = N + 1 /\ t[N + 1] = v
      /\ \A j \in 1..N : t[j] = s[j]
  OBVIOUS
<1> HIDE DEF t, N
<1>2. \A j \in 1..N + 1 : j \in 1..N \/ j = N + 1
  BY <1>1
<1>3. \A j \in 1..N : j \in 1..N + 1 /\ s[j] \in P /\ s[j] # v
  BY <1>1 DEF Lists, N
<1>4. \A w \in P : \E j \in 1..N : s[j] = w
  BY DEF Lists, N
<1>5. \A j, k \in 1..N : s[j] = s[k] => j = k
  BY DEF Lists, N
<1>6. N + 1 \in 1..N + 1
  BY <1>1
<1>7. \A j, k \in 1..N + 1 : t[j] = t[k] => j = k
  BY <1>1, <1>2, <1>3, <1>5
<1> QED
  BY <1>1, <1>2, <1>3, <1>4, <1>6, <1>7 DEF Lists, t

LEMMA AppendedIs ==
  ASSUME hash_fn \in [TableKey -> Nat],
         NEW m \in Nat \ {0}, NEW P \in SUBSET TableKey, NEW bs, Exact(TableKey, hash_fn, bs, P, m),
         NEW v \in TableKey, v \notin P
  PROVE  Exact(TableKey, hash_fn, Table!Appended(bs, v), P \cup {v}, m)
<1> DEFINE c == hash_fn[v] % m
           Q == Chain(hash_fn, P, m, c)
           t == Append(bs[c], v)
<1>1. bs \in [0..m - 1 -> Seq(TableKey)] /\ c \in 0..m - 1 /\ Table!Bucket(v, bs) = c
  BY BucketIs DEF Exact, Arrays
<1>2. Table!Appended(bs, v) = [bs EXCEPT ![c] = t]
  BY <1>1 DEF Table!Appended
<1>3. Lists(bs[c], Q) /\ Q \in SUBSET TableKey /\ v \notin Q
  BY <1>1 DEF Exact, Chain
<1>4. t \in Seq(TableKey) /\ Lists(t, Q \cup {v})
  <2> HIDE DEF c, Q
  <2> QED
    BY <1>1, <1>3, AppendLists
<1> HIDE DEF t
<1>5. Exact(TableKey, hash_fn, [bs EXCEPT ![c] = t], P \cup {v}, m)
  BY <1>4, LongerIsExact
<1> QED
  BY <1>2, <1>5

\* A chain that is moved, key after key, and all the chains.
LEMMA TableRounds ==
  ASSUME hash_fn \in [TableKey -> Nat],
         NEW m \in Nat \ {0}, NEW bs \in Arrays(TableKey, m), NEW s \in Seq(TableKey)
  PROVE  \E h : /\ h = [k \in 0..Len(s) |-> IF k = 0 THEN bs ELSE Table!Appended(h[k - 1], s[k])]
                /\ \A k \in 0..Len(s) : h[k] \in Arrays(TableKey, m)
                /\ Table!Moved(bs, s) = h[Len(s)]
<1> DEFINE X == Arrays(TableKey, m)
           N == Len(s)
           F == [a \in X \X (1..N) |-> Table!Appended(a[1], s[a[2]])]
           Is(h) == h = [k \in 0..N |-> IF k = 0 THEN bs ELSE Table!Appended(h[k - 1], s[k])]
           g == CHOOSE h : Is(h)
<1>1. N \in Nat /\ \A j \in 1..N : s[j] \in TableKey
  OBVIOUS
<1>2. ASSUME NEW x \in X, NEW v \in TableKey PROVE Table!Appended(x, v) \in X
  <2>1. x \in [0..m - 1 -> Seq(TableKey)] /\ Table!Bucket(v, x) \in 0..m - 1
    <3>1. Table!Bucket(v, x) = hash_fn[v] % m /\ hash_fn[v] % m \in 0..m - 1
      BY BucketIs
    <3> QED
      BY <3>1 DEF Arrays
  <2>2. Append(x[Table!Bucket(v, x)], v) \in Seq(TableKey)
    BY <2>1
  <2> QED
    BY <2>1, <2>2 DEF Arrays, Table!Appended
<1> HIDE DEF X
<1>3. \A x \in X, j \in 1..N : F[<<x, j>>] = Table!Appended(x, s[j]) /\ F[<<x, j>>] \in X
  BY <1>1, <1>2
<1> HIDE DEF F, N
<1>4. bs \in X
  BY DEF X
<1>5. PICK u : Rounds(bs, F, u, N) /\ \A j \in 0..N : u[j] \in X
  BY <1>1, <1>3, <1>4, RoundsExist
<1>6. Is(u)
  <2>1. ASSUME NEW k \in 0..N
        PROVE  u[k] = IF k = 0 THEN bs ELSE Table!Appended(u[k - 1], s[k])
    <3>1. u[k] = IF k = 0 THEN bs ELSE F[<<u[k - 1], k>>]
      BY <1>5 DEF Rounds
    <3>2. k # 0 => k - 1 \in 0..N /\ k \in 1..N
      BY <1>1
    <3>3. k # 0 => F[<<u[k - 1], k>>] = Table!Appended(u[k - 1], s[k])
      BY <1>3, <1>5, <3>2
    <3> QED
      BY <3>1, <3>3
  <2>2. u = [k \in 0..N |-> u[k]]
    BY <1>5 DEF Rounds
  <2> QED
    BY <2>1, <2>2
<1>7. Is(g)
  BY <1>6
<1>8. Table!Moved(bs, s) = g[N]
  BY DEF Table!Moved, N
<1> HIDE DEF g
<1>9. ASSUME NEW j \in 0..N PROVE g[j] \in X
  <2> DEFINE S == {k \in Nat : k <= N => g[k] \in X}
  <2>1. 0 \in S
    BY <1>1, <1>4, <1>7
  <2>2. ASSUME NEW k \in Nat, k \in S PROVE k + 1 \in S
    <3> SUFFICES ASSUME k + 1 <= N PROVE g[k + 1] \in X
      OBVIOUS
    <3>1. k + 1 \in 1..N /\ k + 1 \in 0..N /\ (k + 1) - 1 = k /\ k + 1 # 0 /\ k <= N
      BY <1>1
    <3>2. g[k + 1] = Table!Appended(g[k], s[k + 1])
      BY <1>7, <3>1
    <3>3. g[k] \in X /\ s[k + 1] \in TableKey
      BY <1>1, <2>2, <3>1
    <3> QED
      BY <1>2, <3>2, <3>3
  <2> HIDE DEF S
  <2>3. Nat \subseteq S
    BY <2>1, <2>2, NatSetInduction
  <2>4. j \in S /\ j <= N
    BY <1>1, <2>3
  <2> QED
    BY <2>4 DEF S
<1> QED
  BY <1>7, <1>8, <1>9 DEF N, X

LEMMA TableMovedIs ==
  ASSUME hash_fn \in [TableKey -> Nat],
         NEW m \in Nat \ {0}, NEW P \in SUBSET TableKey, NEW bs, Exact(TableKey, hash_fn, bs, P, m),
         NEW s \in Seq(TableKey), NEW Q \in SUBSET TableKey, Lists(s, Q), P \cap Q = {}
  PROVE  Exact(TableKey, hash_fn, Table!Moved(bs, s), P \cup Q, m)
<1>1. bs \in Arrays(TableKey, m)
  BY DEF Exact
<1>2. PICK h : /\ h = [k \in 0..Len(s) |-> IF k = 0 THEN bs ELSE Table!Appended(h[k - 1], s[k])]
               /\ Table!Moved(bs, s) = h[Len(s)]
  BY <1>1, TableRounds
<1>3. h[0] = bs /\ \A k \in 1..Len(s) : h[k] = Table!Appended(h[k - 1], s[k])
  <2>1. Len(s) \in Nat /\ 0 \in 0..Len(s) /\ \A k \in 1..Len(s) : k \in 0..Len(s) /\ k # 0
    OBVIOUS
  <2> QED
    BY <1>2, <2>1
<1>4. ASSUME NEW k \in 1..Len(s), NEW R \in SUBSET TableKey,
             Exact(TableKey, hash_fn, h[k - 1], R, m), s[k] \notin R
      PROVE  Exact(TableKey, hash_fn, h[k], R \cup {s[k]}, m)
  <2> DEFINE v == s[k]
  <2>1. v \in TableKey /\ v \notin R /\ h[k] = Table!Appended(h[k - 1], v)
    BY <1>3, <1>4
  <2> HIDE DEF v
  <2>2. Exact(TableKey, hash_fn, Table!Appended(h[k - 1], v), R \cup {v}, m)
    BY <1>4, <2>1, AppendedIs
  <2> QED
    BY <2>1, <2>2 DEF v
<1>5. Exact(TableKey, hash_fn, h[Len(s)], P \cup Q, m)
  BY <1>3, <1>4, MovedIsExact
<1> QED
  BY <1>2, <1>5

LEMMA DoubledIs ==
  ASSUME hash_fn \in [TableKey -> Nat],
         NEW m \in Nat \ {0}, NEW P \in SUBSET TableKey, Exact(TableKey, hash_fn, chains, P, m)
  PROVE  Exact(TableKey, hash_fn, Table!Doubled, P, 2 * m)
<1> DEFINE M == 2 * m
           X == Arrays(TableKey, M)
           base == Table!Empty(M)
           F == [a \in X \X (1..m) |-> Table!Moved(a[1], chains[a[2] - 1])]
           Is(h) == h = [b \in 0..m |-> IF b = 0 THEN base ELSE Table!Moved(h[b - 1], chains[b - 1])]
           g == CHOOSE h : Is(h)
<1>1. M \in Nat \ {0}
  OBVIOUS
<1>2. chains \in [0..m - 1 -> Seq(TableKey)] /\ Table!Buckets(chains) = m
  BY BucketIs DEF Exact, Arrays
<1> HIDE DEF M
<1>3. ASSUME NEW x \in X, NEW s \in Seq(TableKey) PROVE Table!Moved(x, s) \in X
  <2>1. PICK h : (\A k \in 0..Len(s) : h[k] \in Arrays(TableKey, M)) /\ Table!Moved(x, s) = h[Len(s)]
    BY <1>1, TableRounds
  <2>2. Len(s) \in 0..Len(s)
    OBVIOUS
  <2> QED
    BY <2>1, <2>2
<1>4. base \in X /\ Exact(TableKey, hash_fn, base, {}, M)
  BY <1>1, EmptyIsExact DEF Exact, Table!Empty
<1> HIDE DEF X, base
<1>5. \A x \in X, j \in 1..m : F[<<x, j>>] = Table!Moved(x, chains[j - 1]) /\ F[<<x, j>>] \in X
  BY <1>2, <1>3
<1> HIDE DEF F
<1>6. PICK u : Rounds(base, F, u, m) /\ \A j \in 0..m : u[j] \in X
  BY <1>4, <1>5, RoundsExist
<1>7. Is(u)
  <2>1. ASSUME NEW b \in 0..m
        PROVE  u[b] = IF b = 0 THEN base ELSE Table!Moved(u[b - 1], chains[b - 1])
    <3>1. u[b] = IF b = 0 THEN base ELSE F[<<u[b - 1], b>>]
      BY <1>6 DEF Rounds
    <3>2. b # 0 => b - 1 \in 0..m /\ b \in 1..m
      OBVIOUS
    <3>3. b # 0 => F[<<u[b - 1], b>>] = Table!Moved(u[b - 1], chains[b - 1])
      BY <1>5, <1>6, <3>2
    <3> QED
      BY <3>1, <3>3
  <2>2. u = [b \in 0..m |-> u[b]]
    BY <1>6 DEF Rounds
  <2> QED
    BY <2>1, <2>2
<1>8. Is(g)
  BY <1>7
<1>9. Table!Doubled = g[m]
  BY <1>2 DEF Table!Doubled, M, base
<1> HIDE DEF g
<1>10. ASSUME NEW b \in 0..m - 1, NEW R \in SUBSET TableKey, Exact(TableKey, hash_fn, g[b], R, M),
              R \cap Chain(hash_fn, P, m, b) = {}
       PROVE  Exact(TableKey, hash_fn, g[b + 1], R \cup Chain(hash_fn, P, m, b), M)
  <2>1. g[b + 1] = Table!Moved(g[b], chains[b])
    <3>1. b + 1 \in 0..m /\ (b + 1) - 1 = b /\ b + 1 # 0
      OBVIOUS
    <3> QED
      BY <1>8, <3>1
  <2>2. chains[b] \in Seq(TableKey) /\ Lists(chains[b], Chain(hash_fn, P, m, b))
    BY <1>2 DEF Exact
  <2>3. Chain(hash_fn, P, m, b) \in SUBSET TableKey
    BY DEF Chain
  <2> DEFINE s == chains[b]
             Q == Chain(hash_fn, P, m, b)
             x == g[b]
  <2>4. s \in Seq(TableKey) /\ Lists(s, Q) /\ Q \in SUBSET TableKey /\ R \cap Q = {}
        /\ Exact(TableKey, hash_fn, x, R, M)
    BY <1>10, <2>2, <2>3
  <2> HIDE DEF s, Q, x
  <2>5. Exact(TableKey, hash_fn, Table!Moved(x, s), R \cup Q, M)
    BY <1>1, <2>4, TableMovedIs
  <2> QED
    BY <2>1, <2>5 DEF s, Q, x
<1>11. g[0] = base
  <2>1. 0 \in 0..m
    OBVIOUS
  <2> QED
    BY <1>8, <2>1
<1>12. Exact(TableKey, hash_fn, g[m], P, M)
  BY <1>1, <1>4, <1>10, <1>11, GrownIsExact
<1> QED
  BY <1>9, <1>12 DEF M

LEMMA ListsRange ==
  ASSUME NEW V, NEW s \in Seq(V), NEW Q, Lists(s, Q)
  PROVE  Table!Range(s) = Q /\ Table!IsInjective(s)
<1>1. DOMAIN s = 1..Len(s)
  OBVIOUS
<1>2. Table!Range(s) = {s[j] : j \in 1..Len(s)}
  BY <1>1, TableNames
<1>3. {s[j] : j \in 1..Len(s)} = Q
  BY DEF Lists
<1> QED
  BY <1>1, <1>2, <1>3, TableNames DEF Lists

\* What a lookup finds, and how far it compares.
LEMMA LookupIs ==
  ASSUME hash_fn \in [TableKey -> Nat], NEW m \in Nat \ {0},
         NEW P \in SUBSET TableKey, Exact(TableKey, hash_fn, chains, P, m), IsFiniteSet(P),
         NEW v \in TableKey
  PROVE  /\ v \in Table!Range(chains[Table!Bucket(v, chains)]) <=> v \in P
         /\ Table!Compared(v) \in 0..Cardinality(P)
<1> DEFINE c == hash_fn[v] % m
           s == chains[c]
           Q == Chain(hash_fn, P, m, c)
           N == Len(s)
<1>1. c \in 0..m - 1 /\ Table!Bucket(v, chains) = c /\ chains \in [0..m - 1 -> Seq(TableKey)]
  BY BucketIs DEF Exact, Arrays
<1>2. s \in Seq(TableKey) /\ Lists(s, Q) /\ Q \subseteq P /\ (v \in Q <=> v \in P)
  BY <1>1 DEF Exact, Chain
<1> HIDE DEF c, Q
<1>3. DOMAIN s = 1..N /\ N \in Nat
  BY <1>2
<1>4. /\ v \in Table!Range(s) <=> v \in Q
      /\ \A j \in 1..N : s[j] \in Q
      /\ \A j, k \in 1..N : s[j] = s[k] => j = k
  <2>1. Table!Range(s) = Q
    <3> HIDE DEF s
    <3> QED
      BY <1>2, ListsRange
  <2>2. /\ \A j \in 1..Len(s) : s[j] \in Q
        /\ \A j, k \in 1..Len(s) : s[j] = s[k] => j = k
    BY <1>2 DEF Lists
  <2> QED
    BY <2>1, <2>2
<1>5. N <= Cardinality(P)
  <2> DEFINE D == {s[j] : j \in 1..N}
  <2>1. Cardinality(D) = N
    BY <1>2, <1>4, DistinctCount
  <2>2. D \subseteq P
    BY <1>2, <1>4
  <2> HIDE DEF D
  <2>3. Cardinality(D) <= Cardinality(P)
    BY <2>2, FS_Subset
  <2> QED
    BY <2>1, <2>3
<1>6. Table!Compared(v) \in 0..N
  <2> DEFINE First(j) == s[j] = v /\ \A k \in 1..j - 1 : s[k] # v
  <2>1. Table!Compared(v) = IF v \in Table!Range(s) THEN CHOOSE j \in 1..N : First(j) ELSE N
    BY <1>1 DEF Table!Compared
  <2>2. ASSUME v \in Table!Range(s) PROVE \E j \in 1..N : First(j)
    <3>1. PICK j \in 1..N : s[j] = v
      BY <1>3, <2>2, TableNames
    <3>2. \A k \in 1..j - 1 : k \in 1..N /\ k # j
      BY <1>3
    <3> QED
      BY <1>4, <3>1, <3>2
  <2> HIDE DEF First
  <2>3. v \in Table!Range(s) => Table!Compared(v) \in 1..N
    BY <2>1, <2>2
  <2> QED
    BY <1>3, <2>1, <2>3
<1>7. Cardinality(P) \in Nat
  BY FS_CardinalityType
<1> QED
  BY <1>1, <1>2, <1>3, <1>4, <1>5, <1>6, <1>7

LEMMA TableStarts == Table!ChainsInit => TableInv
<1> SUFFICES ASSUME Table!ChainsInit PROVE TableInv
  OBVIOUS
<1>1. /\ hash_fn \in [TableKey -> Nat] /\ Buckets0 \in Nat \ {0}
      /\ chains = Table!Empty(Buckets0) /\ size = 0 /\ compares = 0 /\ keys = <<>>
  BY LabsAssumption DEF Table!ChainsInit, Table!ChainsAssumption
<1>2. keys \in Seq(TableKey) /\ Len(keys) = 0
  BY <1>1
<1>3. Asked(keys) = {}
  BY <1>2 DEF Asked
<1>4. Exact(TableKey, hash_fn, chains, Asked(keys), Buckets0)
  BY <1>1, <1>3, EmptyIsExact DEF Table!Empty
<1>5. size = Cardinality(Asked(keys))
  BY <1>1, <1>3, FS_EmptySet
<1>6. 4 * size <= 3 * Buckets0 /\ 2 * compares <= Len(keys) * (Len(keys) - 1)
  BY <1>1, <1>2
<1>7. compares \in Nat
  BY <1>1
<1> QED
  BY <1>1, <1>2, <1>4, <1>5, <1>6, <1>7 DEF TableInv

\* The load that would be too high for m buckets is not for twice as many.
LEMMA LoadIs ==
  ASSUME NEW z \in Nat, NEW m \in Nat \ {0}, 4 * z <= 3 * m
  PROVE  4 * (z + 1) <= 3 * (2 * m)
OBVIOUS

\* One comparison more for every call before.
LEMMA PairsAre ==
  ASSUME NEW c \in Nat, NEW L \in Nat, 2 * c <= L * (L - 1), NEW d \in 0..L
  PROVE  2 * (c + d) <= (L + 1) * ((L + 1) - 1)
<1> DEFINE q == L * L
<1>1. L * (L - 1) = q - L /\ (L + 1) * ((L + 1) - 1) = q + L
  OBVIOUS
<1>2. q \in Int
  OBVIOUS
<1> HIDE DEF q
<1> QED
  BY <1>1, <1>2

LEMMA AddKeeps ==
  ASSUME TableInv, NEW v \in TableKey, Table!add(v)
  PROVE  TableInv'
<1> DEFINE P == Asked(keys)
           C == Table!Compared(v)
           L == Len(keys)
           F == v \in Table!Range(chains[Table!Bucket(v, chains)])
<1>1. PICK m \in Nat \ {0} : Exact(TableKey, hash_fn, chains, P, m) /\ 4 * size <= 3 * m
  BY DEF TableInv
<1>2. /\ hash_fn \in [TableKey -> Nat] /\ hash_fn' = hash_fn
      /\ keys \in Seq(TableKey) /\ keys' = Append(keys, v)
      /\ size = Cardinality(P) /\ compares \in Nat /\ compares' = compares + C
      /\ 2 * compares <= L * (L - 1)
  BY DEF TableInv, Table!add
<1>3. /\ F => chains' = chains /\ size' = size
      /\ ~F => /\ chains' = Table!Appended(IF Table!Overloaded THEN Table!Doubled ELSE chains, v)
               /\ size' = size + 1
  BY DEF Table!add
<1>4. P \in SUBSET TableKey
  BY <1>2 DEF Asked
<1>5. IsFiniteSet(P) /\ size \in 0..L /\ L \in Nat
  BY <1>2, AskedIsFinite
<1>6. keys' \in Seq(TableKey) /\ Len(keys') = L + 1 /\ Asked(keys') = P \cup {v}
  <2>1. /\ Append(keys, v) \in Seq(TableKey) /\ Len(Append(keys, v)) = L + 1
        /\ \A j \in 1..L : Append(keys, v)[j] = keys[j]
        /\ Append(keys, v)[L + 1] = v
    BY <1>2
  <2>2. \A j \in 1..L + 1 : j \in 1..L \/ j = L + 1
    BY <1>5
  <2>3. L + 1 \in 1..L + 1 /\ \A j \in 1..L : j \in 1..L + 1
    BY <1>5
  <2>4. Asked(Append(keys, v)) = P \cup {v}
    BY <2>1, <2>2, <2>3 DEF Asked
  <2> QED
    BY <1>2, <2>1, <2>4
<1> HIDE DEF P
<1>7. (F <=> v \in P) /\ C \in 0..size
  BY <1>1, <1>2, <1>4, <1>5, LookupIs
<1> HIDE DEF C, F, L
<1>8. compares' \in Nat /\ 2 * compares' <= (L + 1) * ((L + 1) - 1)
  <2>1. C \in 0..L
    BY <1>5, <1>7
  <2>2. 2 * (compares + C) <= (L + 1) * ((L + 1) - 1)
    BY <1>2, <1>5, <2>1, PairsAre
  <2> QED
    BY <1>2, <2>1, <2>2
<1>9. CASE F
  <2>1. P \cup {v} = P /\ chains' = chains /\ size' = size
    BY <1>3, <1>7, <1>9
  <2>2. Exact(TableKey, hash_fn', chains', Asked(keys'), m) /\ 4 * size' <= 3 * m
    BY <1>1, <1>2, <1>6, <2>1
  <2>3. size' = Cardinality(Asked(keys'))
    BY <1>2, <1>6, <2>1
  <2> QED
    BY <1>2, <1>6, <1>8, <2>2, <2>3 DEF TableInv, Asked
<1>10. CASE ~F
  <2> DEFINE bs == IF Table!Overloaded THEN Table!Doubled ELSE chains
             M == IF Table!Overloaded THEN 2 * m ELSE m
  <2>1. chains' = Table!Appended(bs, v) /\ size' = size + 1 /\ v \notin P
    BY <1>3, <1>7, <1>10
  <2>2. Table!Buckets(chains) = m
    BY <1>1, <1>2, BucketIs DEF Exact
  <2>3. M \in Nat \ {0} /\ 4 * (size + 1) <= 3 * M
    <3>1. CASE Table!Overloaded
      BY <1>1, <1>5, <3>1, LoadIs
    <3>2. CASE ~Table!Overloaded
      BY <1>5, <2>2, <3>2 DEF Table!Overloaded
    <3> QED
      BY <3>1, <3>2
  <2>4. Exact(TableKey, hash_fn, bs, P, M)
    BY <1>1, <1>2, <1>4, DoubledIs
  <2> HIDE DEF bs, M
  <2>5. Exact(TableKey, hash_fn, Table!Appended(bs, v), P \cup {v}, M)
    BY <1>2, <1>4, <2>1, <2>3, <2>4, AppendedIs
  <2>6. Exact(TableKey, hash_fn', chains', Asked(keys'), M) /\ 4 * size' <= 3 * M
    BY <1>2, <1>6, <2>1, <2>3, <2>5
  <2>7. size' = Cardinality(Asked(keys'))
    BY <1>2, <1>5, <1>6, <2>1, FS_AddElement
  <2> QED
    BY <1>2, <1>6, <1>8, <2>3, <2>6, <2>7 DEF TableInv, Asked
<1> QED
  BY <1>9, <1>10

LEMMA TableNextKeeps == TableInv /\ [Table!ChainsNext]_table => TableInv'
<1> SUFFICES ASSUME TableInv, [Table!ChainsNext]_table PROVE TableInv'
  OBVIOUS
<1>1. CASE UNCHANGED table
  BY <1>1 DEF TableInv, table, Asked
<1>2. ASSUME NEW v \in TableKey, Table!add(v) PROVE TableInv'
  BY <1>2, AddKeeps
<1> QED
  BY <1>1, <1>2 DEF Table!ChainsNext

\* The hash set of 020_hash_table_demo, for any hash function, keys and first number of
\* buckets: a bucket holds exactly the keys that were added and are looked for in it, each
\* once, however often the table grew; the load stays at 0.75 or less; and no pair of calls
\* costs more than one comparison.
THEOREM KeysAreFoundHolds == Spec => []KeysAreFound
<1>1. Init => TableInv
  BY TableStarts DEF Init
<1>2. TableInv /\ [Next]_vars => TableInv'
  <2>1. [Next]_vars => [Table!ChainsNext]_table
    BY DEF Next, vars
  <2> QED
    BY <2>1, TableNextKeeps
<1>3. TableInv => KeysAreFound
  <2> SUFFICES ASSUME TableInv PROVE KeysAreFound
    OBVIOUS
  <2> DEFINE P == Asked(keys)
  <2>1. PICK m \in Nat \ {0} : Exact(TableKey, hash_fn, chains, P, m) /\ 4 * size <= 3 * m
    BY DEF TableInv
  <2>2. /\ hash_fn \in [TableKey -> Nat] /\ keys \in Seq(TableKey) /\ P \in SUBSET TableKey
        /\ size = Cardinality(P) /\ 2 * compares <= Len(keys) * (Len(keys) - 1)
    BY DEF TableInv, Asked
  <2>3. Table!Range(keys) = P
    BY <2>2, TableNames DEF Asked
  <2> HIDE DEF P
  <2>4. /\ Table!Buckets(chains) = m /\ chains \in [0..m - 1 -> Seq(TableKey)]
        /\ \A v \in TableKey : Table!Bucket(v, chains) = hash_fn[v] % m
    BY <2>1, <2>2, BucketIs DEF Exact, Arrays
  <2>5. ASSUME NEW b \in DOMAIN chains
        PROVE  /\ Table!Range(chains[b]) = {v \in Table!Range(keys) : Table!Bucket(v, chains) = b}
               /\ Table!IsInjective(chains[b])
    <3>1. b \in 0..m - 1 /\ chains[b] \in Seq(TableKey) /\ DOMAIN chains[b] = 1..Len(chains[b])
      BY <2>4
    <3>2. Lists(chains[b], Chain(hash_fn, P, m, b))
      BY <2>1, <3>1 DEF Exact
    <3>3. Chain(hash_fn, P, m, b) = {v \in Table!Range(keys) : Table!Bucket(v, chains) = b}
      BY <2>2, <2>3, <2>4 DEF Chain
    <3>4. Table!Range(chains[b]) = Chain(hash_fn, P, m, b)
      BY <3>1, <3>2, ListsRange
    <3> QED
      BY <3>1, <3>2, <3>3, <3>4, ListsRange
  <2> QED
    BY <2>1, <2>2, <2>3, <2>4, <2>5, TableNames DEF KeysAreFound, Table!KeysAreFound
<1> QED
  BY <1>1, <1>2, <1>3, PTL DEF Spec

-------------------------------------------------------------------------------
(* 014_fifo_sizing: when bytes are read, and how many wait *)

\* For a host that first reads at L and a byte every q, and bytes that land every p: what the
\* time at which byte j is read is the latest of, that time, and how many bytes wait as byte
\* j lands.
Times(L, p, q, j)   == {L + j * q} \cup {m * p + (j - m) * q : m \in 0..j}
ReadsAt(L, p, q, j) == Fifo!Max(Times(L, p, q, j))
Waits(L, p, q, j)   == Cardinality({m \in 0..j : ReadsAt(L, p, q, m) >= j * p})

IsMost(x, S) == x \in S /\ \A y \in S : y <= x

LEMMA MostIs ==
  ASSUME NEW S \in SUBSET Int, NEW x, IsMost(x, S)
  PROVE  Fifo!Max(S) = x
<1>1. x \in S /\ (\A y \in S : x >= y) /\ \A z \in S : (\A y \in S : z >= y) => z = x
  BY DEF IsMost
<1>2. Fifo!Max(S) = CHOOSE z \in S : \A y \in S : z >= y
  BY DEF Fifo!Max
<1> QED
  BY <1>1, <1>2

LEMMA ReadsAre ==
  ASSUME NEW L \in Nat, NEW p \in Nat \ {0}, NEW q \in Nat \ {0}
  PROVE  /\ ReadsAt(L, p, q, 0) = L
         /\ \A j \in Nat :
               /\ ReadsAt(L, p, q, j) \in Nat
               /\ ReadsAt(L, p, q, j + 1) = IF ReadsAt(L, p, q, j) + q < (j + 1) * p
                                            THEN (j + 1) * p ELSE ReadsAt(L, p, q, j) + q
<1> DEFINE T(j) == Times(L, p, q, j)
           Up(j, y) == IF y + q < (j + 1) * p THEN (j + 1) * p ELSE y + q
           S == {j \in Nat : \E x \in Nat : IsMost(x, T(j))}
<1>1. \A j \in Nat : j * p \in Nat /\ j * q \in Nat
  OBVIOUS
<1>2. IsMost(L, T(0))
  <2>1. T(0) = {L, 0}
    BY DEF Times
  <2> QED
    BY <2>1 DEF IsMost
<1>3. ASSUME NEW j \in Nat PROVE T(j + 1) = {y + q : y \in T(j)} \cup {(j + 1) * p}
  <2>1. L + (j + 1) * q = (L + j * q) + q
    BY <1>1
  <2>2. ASSUME NEW m \in 0..j PROVE m * p + ((j + 1) - m) * q = (m * p + (j - m) * q) + q
    OBVIOUS
  <2>3. (j + 1) * p + ((j + 1) - (j + 1)) * q = (j + 1) * p
    BY <1>1
  <2>4. 0..j + 1 = (0..j) \cup {j + 1}
    OBVIOUS
  <2>5. {m * p + ((j + 1) - m) * q : m \in 0..j + 1} =
           {m * p + ((j + 1) - m) * q : m \in 0..j} \cup {(j + 1) * p}
    <3> DEFINE G(m) == m * p + ((j + 1) - m) * q
    <3>1. G(j + 1) = (j + 1) * p
      BY <2>3
    <3> HIDE DEF G
    <3>2. {G(m) : m \in 0..j + 1} = {G(m) : m \in 0..j} \cup {G(j + 1)}
      BY <2>4
    <3>3. {G(m) : m \in 0..j + 1} = {G(m) : m \in 0..j} \cup {(j + 1) * p}
      BY <3>1, <3>2
    <3> QED
      BY <3>3 DEF G
  <2>6. {m * p + ((j + 1) - m) * q : m \in 0..j} = {(m * p + (j - m) * q) + q : m \in 0..j}
    BY <2>2
  <2>7. {y + q : y \in T(j)} = {(L + j * q) + q} \cup {(m * p + (j - m) * q) + q : m \in 0..j}
    BY DEF Times
  <2> QED
    BY <2>1, <2>5, <2>6, <2>7 DEF Times
<1>4. ASSUME NEW j \in Nat PROVE T(j) \in SUBSET Int
  <2>1. \A m \in 0..j : m * p + (j - m) * q \in Int
    OBVIOUS
  <2> QED
    BY <1>1, <2>1 DEF Times
<1> HIDE DEF T
<1>5. ASSUME NEW j \in Nat, NEW x \in Nat, IsMost(x, T(j))
      PROVE  Up(j, x) \in Nat /\ IsMost(Up(j, x), T(j + 1))
  <2> DEFINE z == (j + 1) * p
  <2>1. z \in Nat
    BY <1>1
  <2>2. T(j + 1) = {y + q : y \in T(j)} \cup {z}
    BY <1>3
  <2>3. x \in T(j) /\ \A y \in T(j) : y \in Int /\ y <= x
    BY <1>4, <1>5 DEF IsMost
  <2> HIDE DEF z
  <2>4. CASE x + q < z
    BY <2>1, <2>2, <2>3, <2>4 DEF IsMost, z
  <2>5. CASE ~(x + q < z)
    BY <2>1, <2>2, <2>3, <2>5 DEF IsMost, z
  <2> QED
    BY <2>4, <2>5
<1> HIDE DEF Up
<1>6. Nat \subseteq S
  <2>1. 0 \in S
    BY <1>2
  <2>2. ASSUME NEW j \in Nat, j \in S PROVE j + 1 \in S
    BY <1>5, <2>2
  <2> HIDE DEF S
  <2> QED
    BY <2>1, <2>2, NatSetInduction
<1>7. ASSUME NEW j \in Nat, NEW x \in Nat, IsMost(x, T(j)) PROVE ReadsAt(L, p, q, j) = x
  BY <1>4, <1>7, MostIs DEF ReadsAt, T
<1>8. ASSUME NEW j \in Nat
      PROVE  ReadsAt(L, p, q, j) \in Nat /\ ReadsAt(L, p, q, j + 1) = Up(j, ReadsAt(L, p, q, j))
  <2>1. PICK x \in Nat : IsMost(x, T(j))
    BY <1>6
  <2>2. j + 1 \in Nat
    OBVIOUS
  <2> QED
    BY <1>5, <1>7, <2>1, <2>2
<1>9. ReadsAt(L, p, q, 0) = L
  BY <1>2, <1>7
<1> QED
  BY <1>8, <1>9 DEF Up

\* A byte is read after those before it, and not before it lands.
LEMMA ReadsRise ==
  ASSUME NEW L \in Nat, NEW p \in Nat \ {0}, NEW q \in Nat \ {0}
  PROVE  \A j \in Nat : /\ ReadsAt(L, p, q, j) >= j * p
                        /\ \A k \in 0..j : ReadsAt(L, p, q, k) <= ReadsAt(L, p, q, j)
<1> DEFINE R(j) == ReadsAt(L, p, q, j)
           S == {j \in Nat : R(j) >= j * p /\ \A k \in 0..j : R(k) <= R(j)}
<1>1. R(0) = L /\ \A j \in Nat : /\ R(j) \in Nat
                                 /\ R(j + 1) = IF R(j) + q < (j + 1) * p THEN (j + 1) * p ELSE R(j) + q
  BY SMTT(30), ZenonT(30), ReadsAre
<1> HIDE DEF R
<1>2. 0 \in S
  BY <1>1
<1>3. ASSUME NEW j \in Nat, j \in S PROVE j + 1 \in S
  <2> DEFINE z == (j + 1) * p
  <2>1. z \in Nat /\ R(j + 1) = IF R(j) + q < z THEN z ELSE R(j) + q
    BY <1>1
  <2> HIDE DEF z
  <2>2. R(j) \in Nat /\ R(j + 1) >= z /\ R(j) <= R(j + 1) /\ R(j + 1) \in Nat
    BY <1>1, <2>1
  <2>3. ASSUME NEW k \in 0..j + 1 PROVE R(k) <= R(j + 1)
    <3>1. CASE k = j + 1
      BY <2>2, <3>1
    <3>2. CASE k # j + 1
      <4>1. k \in 0..j /\ k \in Nat
        BY <3>2
      <4> QED
        BY <1>1, <1>3, <2>2, <4>1
    <3> QED
      BY <3>1, <3>2
  <2> QED
    BY <2>2, <2>3 DEF z
<1> HIDE DEF S
<1>4. Nat \subseteq S
  BY <1>2, <1>3, NatSetInduction
<1> QED
  BY <1>4 DEF S, R

\* Byte k is the first that is not read as byte j lands, or before: it and those after wait.
Stands(L, p, q, j, k) == /\ k \in 0..j /\ ReadsAt(L, p, q, k) >= j * p
                         /\ k = 0 \/ ReadsAt(L, p, q, k - 1) < j * p

LEMMA WaitsAre ==
  ASSUME NEW L \in Nat, NEW p \in Nat \ {0}, NEW q \in Nat \ {0},
         NEW j \in Nat, NEW k, Stands(L, p, q, j, k)
  PROVE  Waits(L, p, q, j) = (j + 1) - k
<1> DEFINE R(m) == ReadsAt(L, p, q, m)
           z == j * p
<1>1. k \in 0..j /\ R(k) >= z /\ (k = 0 \/ R(k - 1) < z) /\ z \in Nat
  BY DEF Stands
<1>2. \A m \in Nat : R(m) \in Nat /\ \A y \in 0..m : R(y) <= R(m)
  BY ReadsAre, ReadsRise
<1> HIDE DEF R, z
<1>3. ASSUME NEW m \in 0..j PROVE R(m) >= z <=> m >= k
  <2>1. CASE m >= k
    <3>1. m \in Nat /\ k \in 0..m /\ k \in Nat
      BY <1>1, <2>1
    <3> QED
      BY <1>1, <1>2, <2>1, <3>1
  <2>2. CASE m < k
    <3>1. k - 1 \in Nat /\ m \in 0..k - 1 /\ k # 0 /\ m \in Nat
      BY <1>1, <2>2
    <3> QED
      BY <1>1, <1>2, <2>2, <3>1
  <2> QED
    BY <1>1, <2>1, <2>2
<1>4. {m \in 0..j : R(m) >= z} = k..j
  BY <1>1, <1>3
<1>5. k \in Int /\ j \in Int
  BY <1>1
<1>6. Cardinality(k..j) = IF k > j THEN 0 ELSE j - k + 1
  BY ONLY <1>5, FS_Interval
<1>7. Cardinality({m \in 0..j : R(m) >= z}) = (j + 1) - k
  <2>1. Cardinality(k..j) = (j + 1) - k
    BY <1>1, <1>6
  <2> QED
    BY <1>4, <2>1
<1> QED
  BY <1>7 DEF Waits, R, z

LEMMA StandsOne ==
  ASSUME NEW L \in Nat, NEW p \in Nat \ {0}, NEW q \in Nat \ {0}, NEW j \in Nat
  PROVE  \E k : Stands(L, p, q, j, k)
<1> DEFINE R(m) == ReadsAt(L, p, q, m)
           z == j * p
           S == {k \in Nat : k <= j => R(k) < z}
<1>1. z \in Nat
  OBVIOUS
<1>0. R(j) >= z /\ \A m \in Nat : R(m) \in Nat
  BY ReadsAre, ReadsRise
<1> SUFFICES ASSUME \A k \in 0..j : ~(R(k) >= z /\ (k = 0 \/ R(k - 1) < z)) PROVE FALSE
  BY DEF Stands
<1> HIDE DEF R, z
<1>2. 0 \in S
  BY <1>0, <1>1
<1>3. ASSUME NEW k \in Nat, k \in S PROVE k + 1 \in S
  <2> SUFFICES ASSUME k + 1 <= j PROVE R(k + 1) < z
    OBVIOUS
  <2>1. k + 1 \in 0..j /\ (k + 1) - 1 = k /\ k <= j /\ k + 1 \in Nat
    OBVIOUS
  <2>2. R(k) < z
    BY <1>3, <2>1
  <2> QED
    BY <1>0, <1>1, <2>1, <2>2
<1> HIDE DEF S
<1>4. Nat \subseteq S
  BY <1>2, <1>3, NatSetInduction
<1>5. R(j) < z
  BY <1>4 DEF S
<1> QED
  BY <1>0, <1>1, <1>5

-------------------------------------------------------------------------------
(* 014_fifo_sizing: the simulation *)

Reads(j)  == ReadsAt(latency, t_in, t_out, j)
Waited(j) == Waits(latency, t_in, t_out, j)

\* The next read is that of the first byte in the FIFO, which is not before the last byte
\* landed; the byte read last was read before the next one lands; the peak is the most bytes
\* that waited as one landed.
FifoInv ==
    /\ burst \in Nat /\ latency \in Nat /\ t_in \in Nat \ {0} /\ t_out \in Nat \ {0}
    /\ fifo_a \in 0..burst /\ occupancy \in 0..fifo_a /\ peak \in Nat
    /\ next_read = IF occupancy > 0 \/ fifo_a = 0 THEN Reads(fifo_a - occupancy)
                                                  ELSE Reads(fifo_a - 1) + t_out
    /\ occupancy > 0 => (fifo_a - 1) * t_in <= next_read
    /\ occupancy < fifo_a /\ fifo_a < burst => Reads(fifo_a - occupancy - 1) < fifo_a * t_in
    /\ \A j \in 0..fifo_a - 1 : Waited(j) <= peak
    /\ (fifo_a = 0 /\ peak = 0) \/ \E j \in 0..fifo_a - 1 : Waited(j) = peak

LEMMA NextReadIs ==
  ASSUME latency \in Nat, t_in \in Nat \ {0}, t_out \in Nat \ {0}
  PROVE  /\ Reads(0) = latency
         /\ \A j \in Nat : /\ Reads(j) \in Nat
                           /\ Reads(j + 1) = IF Reads(j) + t_out < (j + 1) * t_in
                                             THEN (j + 1) * t_in ELSE Reads(j) + t_out
<1>1. /\ ReadsAt(latency, t_in, t_out, 0) = latency
      /\ \A j \in Nat :
            /\ ReadsAt(latency, t_in, t_out, j) \in Nat
            /\ ReadsAt(latency, t_in, t_out, j + 1) =
                  IF ReadsAt(latency, t_in, t_out, j) + t_out < (j + 1) * t_in
                  THEN (j + 1) * t_in ELSE ReadsAt(latency, t_in, t_out, j) + t_out
  BY SMTT(30), ZenonT(30), ReadsAre
<1> QED
  BY <1>1 DEF Reads

LEMMA FifoStarts == Fifo!FifoInit => FifoInv
<1> SUFFICES ASSUME Fifo!FifoInit PROVE FifoInv
  OBVIOUS
<1>1. /\ burst \in Nat /\ latency \in Nat /\ t_in \in Nat \ {0} /\ t_out \in Nat \ {0}
      /\ fifo_a = 0 /\ occupancy = 0 /\ peak = 0 /\ next_read = latency
  BY LabsAssumption DEF Fifo!FifoInit, Fifo!FifoAssumption
<1>2. Reads(0) = latency
  BY <1>1, NextReadIs
<1> QED
  BY <1>1, <1>2 DEF FifoInv

LEMMA ArriveKeeps ==
  ASSUME FifoInv, Fifo!Arrive
  PROVE  FifoInv'
<1> DEFINE r == fifo_a - occupancy
           z == fifo_a * t_in
<1>1. /\ burst \in Nat /\ latency \in Nat /\ t_in \in Nat \ {0} /\ t_out \in Nat \ {0}
      /\ fifo_a \in 0..burst /\ occupancy \in 0..fifo_a /\ peak \in Nat
      /\ next_read = IF occupancy > 0 \/ fifo_a = 0 THEN Reads(r) ELSE Reads(fifo_a - 1) + t_out
      /\ occupancy > 0 => (fifo_a - 1) * t_in <= next_read
      /\ occupancy < fifo_a /\ fifo_a < burst => Reads(r - 1) < z
      /\ \A j \in 0..fifo_a - 1 : Waited(j) <= peak
      /\ (fifo_a = 0 /\ peak = 0) \/ \E j \in 0..fifo_a - 1 : Waited(j) = peak
  BY DEF FifoInv
<1>2. /\ fifo_a < burst /\ (z <= next_read \/ occupancy = 0)
      /\ fifo_a' = fifo_a + 1 /\ occupancy' = occupancy + 1
      /\ peak' = IF occupancy + 1 > peak THEN occupancy + 1 ELSE peak
      /\ next_read' = IF occupancy + 1 = 1 /\ next_read < z THEN z ELSE next_read
      /\ burst' = burst /\ latency' = latency /\ t_in' = t_in /\ t_out' = t_out
  BY DEF Fifo!Arrive, Fifo!ArrivesNext, Fifo!arrivals, Fifo!arguments
<1>3. \A j : Reads(j)' = Reads(j) /\ Waited(j)' = Waited(j)
  BY <1>2 DEF Reads, Waited
<1>4. /\ Reads(0) = latency
      /\ \A j \in Nat : /\ Reads(j) \in Nat
                        /\ Reads(j + 1) = IF Reads(j) + t_out < (j + 1) * t_in
                                          THEN (j + 1) * t_in ELSE Reads(j) + t_out
  BY <1>1, NextReadIs
<1>5. z \in Nat /\ z <= (fifo_a + 1) * t_in /\ ((fifo_a + 1) - 1) * t_in = z
  BY <1>1
<1>6. r \in 0..fifo_a /\ r \in Nat /\ fifo_a \in Nat /\ occupancy \in Nat
      /\ (fifo_a + 1) - (occupancy + 1) = r
  BY <1>1
<1>7. next_read' = Reads(r) /\ Reads(r) >= z
  <2>1. CASE occupancy > 0
    BY <1>1, <1>2, <1>4, <1>5, <1>6, <2>1
  <2>2. CASE occupancy = 0 /\ fifo_a = 0
    <3>1. z = 0 /\ r = 0
      BY <1>1, <2>2
    <3> QED
      BY <1>1, <1>2, <1>4, <2>2, <3>1
  <2>3. CASE occupancy = 0 /\ fifo_a # 0
    <3> DEFINE b == fifo_a - 1
    <3>1. b \in Nat /\ fifo_a = b + 1 /\ r = b + 1
      BY <1>1, <1>6, <2>3
    <3>2. Reads(r) = IF Reads(b) + t_out < z THEN z ELSE Reads(b) + t_out
      BY <1>4, <3>1
    <3>3. next_read = Reads(b) + t_out /\ Reads(b) \in Nat
      BY <1>1, <1>4, <2>3, <3>1
    <3>4. next_read' = IF next_read < z THEN z ELSE next_read
      BY <1>2, <2>3
    <3> HIDE DEF b, z, r
    <3> QED
      BY <1>1, <1>5, <3>2, <3>3, <3>4
  <2> QED
    BY <1>1, <2>1, <2>2, <2>3
<1>8. occupancy < fifo_a => Reads(r - 1) < z
  BY <1>1, <1>2
<1>9. Waited(fifo_a) = occupancy + 1
  <2>1. Stands(latency, t_in, t_out, fifo_a, r)
    <3>1. r = 0 \/ occupancy < fifo_a
      BY <1>1
    <3> QED
      BY <1>6, <1>7, <1>8, <3>1 DEF Stands, Reads
  <2> HIDE DEF r
  <2>2. Waits(latency, t_in, t_out, fifo_a) = (fifo_a + 1) - r
    BY <1>1, <1>6, <2>1, WaitsAre
  <2> QED
    BY <1>1, <2>2 DEF Waited, r
<1>10. /\ burst' \in Nat /\ latency' \in Nat /\ t_in' \in Nat \ {0} /\ t_out' \in Nat \ {0}
       /\ fifo_a' \in 0..burst' /\ occupancy' \in 0..fifo_a' /\ peak' \in Nat
  BY <1>1, <1>2
<1>11. /\ next_read' = IF occupancy' > 0 \/ fifo_a' = 0 THEN Reads(fifo_a' - occupancy')
                                                        ELSE Reads(fifo_a' - 1) + t_out
       /\ (fifo_a' - 1) * t_in <= next_read'
       /\ occupancy' < fifo_a' => Reads(fifo_a' - occupancy' - 1) < fifo_a' * t_in
  <2>1. fifo_a' - occupancy' = r /\ occupancy' > 0 /\ fifo_a' - 1 = fifo_a
        /\ (occupancy' < fifo_a' <=> occupancy < fifo_a)
    BY <1>1, <1>2
  <2>2. occupancy < fifo_a => Reads(r - 1) \in Nat
    <3>1. occupancy < fifo_a => r - 1 \in Nat
      BY <1>6
    <3> QED
      BY <1>4, <3>1
  <2>3. fifo_a' * t_in \in Nat /\ z <= fifo_a' * t_in
    BY <1>1, <1>2, <1>5
  <2> HIDE DEF z, r
  <2> QED
    BY <1>5, <1>7, <1>8, <2>1, <2>2, <2>3 DEF z
<1>12. ASSUME NEW j \in 0..fifo_a' - 1 PROVE Waited(j) <= peak'
  <2>1. j = fifo_a \/ j \in 0..fifo_a - 1
    BY <1>2, <1>6
  <2>2. ASSUME j \in 0..fifo_a - 1 PROVE Waited(j) <= peak
    BY <1>1, <2>2
  <2>3. ASSUME j \in 0..fifo_a - 1 PROVE Waited(j) \in Int
    <3>1. j \in Nat
      OBVIOUS
    <3>2. PICK k : Stands(latency, t_in, t_out, j, k)
      BY <1>1, <3>1, StandsOne
    <3>3. Waited(j) = (j + 1) - k
      BY <1>1, <3>1, <3>2, WaitsAre DEF Waited
    <3> QED
      BY <3>2, <3>3 DEF Stands
  <2> QED
    BY <1>1, <1>2, <1>9, <2>1, <2>2, <2>3
<1>13. \E j \in 0..fifo_a' - 1 : Waited(j) = peak'
  <2>1. CASE occupancy + 1 > peak
    <3>1. fifo_a \in 0..fifo_a' - 1 /\ Waited(fifo_a) = peak'
      BY <1>2, <1>6, <1>9, <2>1
    <3> QED
      BY <3>1
  <2>2. CASE ~(occupancy + 1 > peak)
    <3>1. peak' = peak /\ peak # 0
      BY <1>1, <1>2, <1>6, <2>2
    <3>2. PICK j \in 0..fifo_a - 1 : Waited(j) = peak
      BY <1>1, <3>1
    <3>3. j \in 0..fifo_a' - 1
      BY <1>2, <1>6
    <3> QED
      BY <3>1, <3>2, <3>3
  <2> QED
    BY <2>1, <2>2
<1> QED
  BY <1>2, <1>3, <1>10, <1>11, <1>12, <1>13 DEF FifoInv

LEMMA ReadKeepsPeak ==
  ASSUME FifoInv, Fifo!ReadByte
  PROVE  FifoInv'
<1> DEFINE r == fifo_a - occupancy
<1>1. /\ burst \in Nat /\ latency \in Nat /\ t_in \in Nat \ {0} /\ t_out \in Nat \ {0}
      /\ fifo_a \in 0..burst /\ occupancy \in 0..fifo_a /\ peak \in Nat
      /\ next_read = IF occupancy > 0 \/ fifo_a = 0 THEN Reads(r) ELSE Reads(fifo_a - 1) + t_out
      /\ occupancy > 0 => (fifo_a - 1) * t_in <= next_read
      /\ \A j \in 0..fifo_a - 1 : Waited(j) <= peak
      /\ (fifo_a = 0 /\ peak = 0) \/ \E j \in 0..fifo_a - 1 : Waited(j) = peak
  BY DEF FifoInv
<1>2. /\ ~(fifo_a < burst /\ (fifo_a * t_in <= next_read \/ occupancy = 0)) /\ occupancy > 0
      /\ occupancy' = occupancy - 1 /\ next_read' = next_read + t_out
      /\ fifo_a' = fifo_a /\ peak' = peak
      /\ burst' = burst /\ latency' = latency /\ t_in' = t_in /\ t_out' = t_out
  BY DEF Fifo!ReadByte, Fifo!ArrivesNext, Fifo!arrivals, Fifo!arguments
<1>3. \A j : Reads(j)' = Reads(j) /\ Waited(j)' = Waited(j)
  BY <1>2 DEF Reads, Waited
<1>4. \A j \in Nat : /\ Reads(j) \in Nat
                     /\ Reads(j + 1) = IF Reads(j) + t_out < (j + 1) * t_in
                                       THEN (j + 1) * t_in ELSE Reads(j) + t_out
  BY <1>1, NextReadIs
<1>5. /\ r \in Nat /\ occupancy \in Nat /\ fifo_a \in Nat /\ fifo_a > 0 /\ r < fifo_a
      /\ fifo_a - (occupancy - 1) = r + 1 /\ r + 1 \in Nat
      /\ (occupancy = 1 <=> r = fifo_a - 1)
  BY <1>1, <1>2
<1>6. next_read = Reads(r) /\ Reads(r) \in Nat /\ (fifo_a - 1) * t_in <= next_read
  BY <1>1, <1>2, <1>4, <1>5
<1>7. occupancy # 1 => next_read' = Reads(r + 1)
  <2> SUFFICES ASSUME occupancy # 1 PROVE next_read' = Reads(r + 1)
    OBVIOUS
  <2>1. r + 1 <= fifo_a - 1
    BY <1>5
  <2>2. (r + 1) * t_in <= (fifo_a - 1) * t_in /\ (r + 1) * t_in \in Nat /\ (fifo_a - 1) * t_in \in Nat
    <3> DEFINE d == (fifo_a - 1) - (r + 1)
               e == r + 1
    <3>1. d \in Nat /\ fifo_a - 1 = e + d /\ e \in Nat
      BY <1>5, <2>1
    <3> HIDE DEF d, e
    <3>2. (e + d) * t_in = e * t_in + d * t_in /\ e * t_in \in Nat /\ d * t_in \in Nat
      BY <1>1, <3>1
    <3>3. e * t_in <= (fifo_a - 1) * t_in /\ e * t_in \in Nat /\ (fifo_a - 1) * t_in \in Nat
      BY <3>1, <3>2
    <3> QED
      BY <3>3 DEF e
  <2>3. Reads(r + 1) = IF Reads(r) + t_out < (r + 1) * t_in THEN (r + 1) * t_in ELSE Reads(r) + t_out
    BY <1>4, <1>5
  <2> QED
    BY <1>1, <1>2, <1>6, <2>2, <2>3
<1>8. /\ next_read' = IF occupancy' > 0 \/ fifo_a' = 0 THEN Reads(fifo_a' - occupancy')
                                                       ELSE Reads(fifo_a' - 1) + t_out
      /\ occupancy' > 0 => (fifo_a' - 1) * t_in <= next_read'
  <2>1. (fifo_a - 1) * t_in \in Int
    BY <1>1
  <2>2. (fifo_a' - 1) * t_in <= next_read'
    BY <1>1, <1>2, <1>6, <2>1
  <2>3. CASE occupancy = 1
    BY <1>2, <1>5, <1>6, <2>2, <2>3
  <2>4. CASE occupancy # 1
    BY <1>2, <1>5, <1>7, <2>2, <2>4
  <2> QED
    BY <2>3, <2>4
<1>9. fifo_a' < burst' => Reads(fifo_a' - occupancy' - 1) < fifo_a' * t_in
  <2>1. fifo_a' - occupancy' - 1 = r
    BY <1>2, <1>5
  <2>2. fifo_a * t_in \in Int
    BY <1>1
  <2> QED
    BY <1>2, <1>6, <2>1, <2>2
<1>10. occupancy' \in 0..fifo_a'
  BY <1>1, <1>2
<1> QED
  BY <1>1, <1>2, <1>3, <1>8, <1>9, <1>10 DEF FifoInv

LEMMA FifoNextKeeps == FifoInv /\ [Fifo!FifoNext]_fifo => FifoInv'
<1> SUFFICES ASSUME FifoInv, [Fifo!FifoNext]_fifo PROVE FifoInv'
  OBVIOUS
<1>1. CASE UNCHANGED fifo
  BY <1>1 DEF FifoInv, fifo, Reads, Waited
<1> QED
  BY <1>1, ArriveKeeps, ReadKeepsPeak DEF Fifo!FifoNext

-------------------------------------------------------------------------------
(* 014_fifo_sizing: the formula *)

LEMMA QuotientIs ==
  ASSUME NEW x \in Nat, NEW y \in Nat \ {0}
  PROVE  x \div y \in Nat /\ (x \div y) * y <= x /\ x < (x \div y) * y + y
OBVIOUS

LEMMA ProductsRise ==
  ASSUME NEW x \in Nat, NEW y \in Nat, NEW p \in Nat \ {0}
  PROVE  x * p \in Nat /\ (x <= y <=> x * p <= y * p)
<1>1. x * p \in Nat /\ y * p \in Nat
  OBVIOUS
<1>2. ASSUME x <= y PROVE x * p <= y * p
  <2> DEFINE d == y - x
  <2>1. d \in Nat /\ y = x + d
    BY <1>2
  <2> HIDE DEF d
  <2>2. (x + d) * p = x * p + d * p /\ d * p \in Nat
    BY <2>1
  <2> QED
    BY <1>1, <2>1, <2>2
<1>3. ASSUME y < x PROVE y * p < x * p
  <2> DEFINE d == x - y - 1
  <2>1. d \in Nat /\ x = (y + d) + 1
    BY <1>3
  <2> HIDE DEF d
  <2>2. ((y + d) + 1) * p = (y * p + d * p) + p /\ d * p \in Nat
    BY <2>1
  <2> QED
    BY <1>1, <2>1, <2>2
<1> QED
  BY <1>1, <1>2, <1>3

\* Bytes that land before the host first reads: all of them wait.
LEMMA EarlyWait ==
  ASSUME NEW L \in Nat, NEW p \in Nat \ {0}, NEW q \in Nat \ {0}, NEW j \in 0..L \div p
  PROVE  Stands(L, p, q, j, 0) /\ Waits(L, p, q, j) = j + 1
<1> DEFINE E == L \div p
<1>1. E \in Nat /\ E * p <= L
  BY QuotientIs
<1>2. j \in Nat /\ j <= E
  BY <1>1
<1> HIDE DEF E
<1>3. j * p <= E * p /\ j * p \in Nat /\ E * p \in Nat
  BY <1>1, <1>2, ProductsRise
<1>4. ReadsAt(L, p, q, 0) = L
  BY ReadsAre, Zenon
<1>7. ReadsAt(L, p, q, 0) >= j * p
  BY <1>1, <1>3, <1>4
<1>5. Stands(L, p, q, j, 0)
  BY <1>2, <1>7 DEF Stands
<1>6. Waits(L, p, q, j) = (j + 1) - 0
  BY <1>2, <1>5, WaitsAre
<1> QED
  BY <1>2, <1>5, <1>6

\* A host that is as fast as the device: no more wait than landed before it first read.
LEMMA FastHost ==
  ASSUME NEW L \in Nat, NEW p \in Nat \ {0}, NEW q \in Nat \ {0}, q <= p,
         NEW j \in Nat
  PROVE  Waits(L, p, q, j) <= L \div p + 1
<1> DEFINE E == L \div p + 1
           R(m) == ReadsAt(L, p, q, m)
           S == {m \in Nat : R(m) < (m + E) * p}
<1>1. E \in Nat /\ E >= 1 /\ L < E * p
  <2> DEFINE x == L \div p
  <2>1. x \in Nat /\ L < x * p + p
    BY QuotientIs
  <2> HIDE DEF x
  <2>2. (x + 1) * p = x * p + p
    BY <2>1
  <2> QED
    BY <2>1, <2>2 DEF x
<1>2. R(0) = L /\ \A m \in Nat : /\ R(m) \in Nat
                                 /\ R(m + 1) = IF R(m) + q < (m + 1) * p THEN (m + 1) * p ELSE R(m) + q
  <2>1. ReadsAt(L, p, q, 0) = L
    BY ReadsAre, Zenon
  <2>2. ASSUME NEW m \in Nat
        PROVE  /\ ReadsAt(L, p, q, m) \in Nat
               /\ ReadsAt(L, p, q, m + 1) = IF ReadsAt(L, p, q, m) + q < (m + 1) * p
                                            THEN (m + 1) * p ELSE ReadsAt(L, p, q, m) + q
    BY ReadsAre
  <2> QED
    BY <2>1, <2>2
<1> HIDE DEF E, R
<1>3. 0 \in S
  <2>1. 0 + E = E
    BY <1>1
  <2> QED
    BY <1>1, <1>2, <2>1
<1>4. ASSUME NEW m \in Nat, m \in S PROVE m + 1 \in S
  <2> DEFINE y == (m + E) * p
             z == (m + 1) * p
  <2>1. ((m + 1) + E) * p = y + p /\ y \in Nat
    BY <1>1
  <2>2. z <= y /\ z \in Nat
    <3>1. m + 1 \in Nat /\ m + E \in Nat /\ m + 1 <= m + E
      BY <1>1
    <3> QED
      BY <2>1, <3>1, ProductsRise
  <2>3. R(m) < y /\ R(m) \in Nat /\ R(m + 1) = IF R(m) + q < z THEN z ELSE R(m) + q
    BY <1>2, <1>4
  <2> HIDE DEF y, z
  <2>4. R(m + 1) < y + p
    BY <2>1, <2>2, <2>3
  <2> QED
    BY <2>1, <2>4
<1>5. \A m \in Nat : R(m) < (m + E) * p
  <2> HIDE DEF S
  <2>1. Nat \subseteq S
    BY <1>3, <1>4, NatSetInduction
  <2> QED
    BY <2>1 DEF S
<1>6. PICK k : Stands(L, p, q, j, k)
  BY StandsOne
<1>7. k \in 0..j /\ k \in Nat /\ R(k) >= j * p
  BY <1>6 DEF Stands, R
<1>8. j < k + E
  <2>1. k + E \in Nat /\ R(k) < (k + E) * p /\ R(k) \in Nat
    BY <1>1, <1>2, <1>5, <1>7
  <2>2. j * p \in Nat /\ (k + E) * p \in Nat
    BY <2>1, ProductsRise
  <2>3. ~((k + E) * p <= j * p)
    BY <1>7, <2>1, <2>2
  <2>4. ~(k + E <= j)
    BY <2>1, <2>3, ProductsRise
  <2> QED
    BY <2>1, <2>4
<1>9. Waits(L, p, q, j) = (j + 1) - k
  BY <1>6, WaitsAre
<1> QED
  BY <1>1, <1>7, <1>8, <1>9 DEF E

\* A slower host reads without a pause, and the last byte finds the most waiting.
LEMMA SlowReads ==
  ASSUME NEW L \in Nat, NEW p \in Nat \ {0}, NEW q \in Nat \ {0}, p < q
  PROVE  \A j \in Nat : ReadsAt(L, p, q, j) = L + j * q
<1> DEFINE R(m) == ReadsAt(L, p, q, m)
           S == {m \in Nat : R(m) = L + m * q}
<1>1. R(0) = L /\ \A m \in Nat : /\ R(m) \in Nat
                                 /\ R(m + 1) = IF R(m) + q < (m + 1) * p THEN (m + 1) * p ELSE R(m) + q
  <2>1. ReadsAt(L, p, q, 0) = L
    BY ReadsAre, Zenon
  <2>2. ASSUME NEW m \in Nat
        PROVE  /\ ReadsAt(L, p, q, m) \in Nat
               /\ ReadsAt(L, p, q, m + 1) = IF ReadsAt(L, p, q, m) + q < (m + 1) * p
                                            THEN (m + 1) * p ELSE ReadsAt(L, p, q, m) + q
    BY ReadsAre
  <2> QED
    BY <2>1, <2>2
<1> HIDE DEF R
<1>2. 0 \in S
  BY <1>1
<1>3. ASSUME NEW m \in Nat, m \in S PROVE m + 1 \in S
  <2> DEFINE y == m * q
             z == m * p
             d == q - p
  <2>1. y \in Nat /\ z \in Nat /\ (m + 1) * q = y + q /\ (m + 1) * p = z + p
    OBVIOUS
  <2>2. z <= y
    <3>1. d \in Nat /\ q = p + d
      OBVIOUS
    <3> HIDE DEF d
    <3>2. m * (p + d) = m * p + m * d /\ m * d \in Nat
      BY <3>1
    <3> QED
      BY <2>1, <3>1, <3>2
  <2>3. R(m) = L + y /\ R(m + 1) = IF R(m) + q < (m + 1) * p THEN (m + 1) * p ELSE R(m) + q
    BY <1>1, <1>3
  <2> HIDE DEF y, z
  <2>4. R(m + 1) = L + (y + q)
    BY <2>1, <2>2, <2>3
  <2> QED
    BY <2>1, <2>4
<1> HIDE DEF S
<1>4. Nat \subseteq S
  BY <1>2, <1>3, NatSetInduction
<1> QED
  BY <1>4 DEF S, R

LEMMA SlowHost ==
  ASSUME NEW L \in Nat, NEW p \in Nat \ {0}, NEW q \in Nat \ {0}, p < q,
         NEW e \in Nat, NEW j \in 0..e
  PROVE  Waits(L, p, q, j) <= Waits(L, p, q, e)
<1>1. PICK k : Stands(L, p, q, j, k)
  BY StandsOne
<1>2. PICK m : Stands(L, p, q, e, m)
  BY StandsOne
<1>3. Waits(L, p, q, j) = (j + 1) - k /\ Waits(L, p, q, e) = (e + 1) - m
  BY <1>1, <1>2, WaitsAre
<1>4. \A b \in Nat : ReadsAt(L, p, q, b) = L + b * q
  BY SlowReads
<1>5. k \in 0..j /\ L + k * q >= j * p
  BY <1>1, <1>4 DEF Stands
<1>6. m \in 0..e /\ (m = 0 \/ L + (m - 1) * q < e * p)
  <2>1. m \in 0..e /\ (m = 0 \/ ReadsAt(L, p, q, m - 1) < e * p)
    BY <1>2 DEF Stands
  <2>2. m # 0 => m - 1 \in Nat
    BY <2>1
  <2> QED
    BY <1>4, <2>1, <2>2
<1>7. m <= k + (e - j)
  <2> SUFFICES ASSUME k + (e - j) < m PROVE FALSE
    BY <1>5, <1>6
  <2> DEFINE d == e - j
             b == k + d
             kq == k * q
             jp == j * p
             dq == d * q
             dp == d * p
  <2>1. d \in Nat /\ e = j + d /\ k \in Nat /\ b \in Nat /\ m - 1 \in Nat /\ b <= m - 1
    BY <1>5, <1>6
  <2> HIDE DEF d
  <2>2. (k + d) * q = kq + dq /\ (j + d) * p = jp + dp /\ kq \in Nat /\ jp \in Nat
        /\ dq \in Nat /\ dp \in Nat
    BY <2>1
  <2>3. dp <= dq
    <3> DEFINE x == q - p
    <3>1. x \in Nat /\ q = p + x
      OBVIOUS
    <3> HIDE DEF x
    <3>2. d * (p + x) = d * p + d * x /\ d * x \in Nat
      BY <2>1, <3>1
    <3> QED
      BY <2>2, <3>1, <3>2
  <2>4. b * q <= (m - 1) * q
    BY <2>1, ProductsRise
  <2>5. b * q = kq + dq /\ e * p = jp + dp /\ L + kq >= jp
    BY <1>5, <2>1, <2>2
  <2>6. L + (m - 1) * q < e * p /\ (m - 1) * q \in Int
    <3>1. (m - 1) * q \in Int
      BY <2>1
    <3>2. m # 0
      BY <2>1
    <3> QED
      BY <1>6, <3>1, <3>2
  <2> HIDE DEF b, kq, jp, dq, dp
  <2> QED
    BY <2>2, <2>3, <2>4, <2>5, <2>6
<1> QED
  BY <1>3, <1>5, <1>6, <1>7

\* What the formula is above what waits as the last byte lands.
LEMMA SlowFormula ==
  ASSUME NEW L \in Nat, NEW p \in Nat \ {0}, NEW q \in Nat \ {0}, p < q,
         NEW e \in Nat, e >= L \div p
  PROVE  (e + 1) - ((e - L \div p) * p) \div q - Waits(L, p, q, e) \in {0, 1}
<1> DEFINE E == L \div p
           d == e - E
           X == d * p
           Q == X \div q
<1>1. PICK k : Stands(L, p, q, e, k)
  BY StandsOne
<1>2. Waits(L, p, q, e) = (e + 1) - k
  BY <1>1, WaitsAre
<1>3. \A b \in Nat : ReadsAt(L, p, q, b) = L + b * q
  BY SlowReads
<1>4. k \in 0..e /\ L + k * q >= e * p /\ (k = 0 \/ L + (k - 1) * q < e * p)
  <2>1. k \in 0..e /\ ReadsAt(L, p, q, k) >= e * p /\ (k = 0 \/ ReadsAt(L, p, q, k - 1) < e * p)
    BY <1>1 DEF Stands
  <2>2. k \in Nat /\ (k # 0 => k - 1 \in Nat)
    BY <2>1
  <2> QED
    BY <1>3, <2>1, <2>2
<1>5. E \in Nat /\ E * p <= L /\ L < E * p + p
  BY QuotientIs
<1>6. d \in Nat /\ e = E + d
  BY <1>5
<1> HIDE DEF E, d
<1>7. e * p = E * p + X /\ E * p \in Nat /\ X \in Nat
  <2>1. (E + d) * p = E * p + d * p /\ E * p \in Nat /\ d * p \in Nat
    BY <1>5, <1>6
  <2> QED
    BY <1>6, <2>1
<1> HIDE DEF X
<1>8. Q \in Nat /\ Q * q <= X /\ X < Q * q + q
  BY <1>7, QuotientIs
<1> HIDE DEF Q
<1>9. k <= Q + 1
  <2> SUFFICES ASSUME Q + 2 <= k PROVE FALSE
    BY <1>4, <1>8
  <2>1. k - 1 \in Nat /\ Q + 1 \in Nat /\ Q + 1 <= k - 1 /\ k # 0
    BY <1>4, <1>8
  <2>2. (Q + 1) * q <= (k - 1) * q
    BY <2>1, ProductsRise
  <2>3. (Q + 1) * q = Q * q + q /\ Q * q \in Nat /\ (k - 1) * q \in Nat
    BY <1>8, <2>1
  <2>4. L + (k - 1) * q < e * p
    BY <1>4, <2>1
  <2> DEFINE x == (k - 1) * q
             y == Q * q
             z == E * p
             w == e * p
  <2>5. y + q <= x /\ L + x < w /\ w = z + X /\ z <= L /\ X < y + q
        /\ x \in Nat /\ y \in Nat /\ z \in Nat
    BY <1>5, <1>7, <1>8, <2>2, <2>3, <2>4
  <2> HIDE DEF x, y, z, w
  <2> QED
    BY <1>7, <2>5
<1>10. Q <= k
  <2> SUFFICES ASSUME k + 1 <= Q PROVE FALSE
    BY <1>4, <1>8
  <2>1. k \in Nat /\ k + 1 \in Nat
    BY <1>4
  <2>2. (k + 1) * q <= Q * q
    BY <1>8, <2>1, ProductsRise
  <2>3. (k + 1) * q = k * q + q /\ k * q \in Nat /\ Q * q \in Nat
    BY <1>8, <2>1
  <2> DEFINE x == k * q
             y == Q * q
             z == E * p
             w == e * p
  <2>4. x + q <= y /\ L + x >= w /\ w = z + X /\ L < z + p /\ y <= X
        /\ x \in Nat /\ y \in Nat /\ z \in Nat
    BY <1>4, <1>5, <1>7, <1>8, <2>2, <2>3
  <2> HIDE DEF x, y, z, w
  <2> QED
    BY <1>7, <2>4
<1>11. (e + 1) - Q - ((e + 1) - k) \in {0, 1}
  BY <1>4, <1>8, <1>9, <1>10
<1> QED
  BY <1>2, <1>11 DEF Q, X, d, E

\* The formula is the most bytes that wait, or one more.
LEMMA FormulaIs ==
  ASSUME NEW L \in Nat, NEW p \in Nat \ {0}, NEW q \in Nat \ {0}, NEW N \in Nat \ {0},
         NEW w, \A j \in 0..N - 1 : Waits(L, p, q, j) <= w,
         NEW l \in 0..N - 1, Waits(L, p, q, l) = w,
         NEW B, B = IF N < L \div p + 1 THEN N ELSE L \div p + 1
  PROVE  (IF q <= p THEN B ELSE B + (N - B) - ((N - B) * p) \div q) - w \in {0, 1}
<1> DEFINE E == L \div p
           e == N - 1
<1>1. E \in Nat /\ e \in Nat /\ N = e + 1 /\ l \in Nat /\ l \in 0..e /\ e \in 0..N - 1
  BY QuotientIs
<1>2. ASSUME NEW j \in Nat PROVE Waits(L, p, q, j) \in Int
  <2>1. PICK k : Stands(L, p, q, j, k)
    BY StandsOne
  <2>2. k \in 0..j
    BY <2>1 DEF Stands
  <2>3. Waits(L, p, q, j) = (j + 1) - k
    BY <2>1, WaitsAre
  <2> QED
    BY <2>2, <2>3
<1>3. w \in Int /\ Waits(L, p, q, e) <= w /\ Waits(L, p, q, e) \in Int
  BY <1>1, <1>2
<1>4. CASE e <= E
  <2>1. \A j \in 0..e : Waits(L, p, q, j) = j + 1
    <3> SUFFICES ASSUME NEW j \in 0..e PROVE Waits(L, p, q, j) = j + 1
      OBVIOUS
    <3>1. j \in 0..L \div p
      BY <1>1, <1>4
    <3> QED
      BY <3>1, EarlyWait
  <2>2. w = N
    BY <1>1, <1>3, <2>1
  <2>3. B = N
    BY <1>1, <1>4
  <2>4. (N - B) * p = 0 /\ 0 \div q = 0
    BY <2>3
  <2> QED
    BY <2>2, <2>3, <2>4
<1>5. CASE E < e
  <2>1. B = E + 1 /\ N - B = e - E /\ B + (N - B) = e + 1
    BY <1>1, <1>5
  <2>2. CASE q <= p
    <3>1. w <= E + 1
      <4> HIDE DEF E
      <4> QED
        BY <1>1, <2>2, FastHost DEF E
    <3>2. Waits(L, p, q, E) = E + 1
      <4>1. L \div p \in 0..L \div p
        BY <1>1
      <4> QED
        BY <4>1, EarlyWait
    <3>3. Waits(L, p, q, E) <= w
      BY <1>1, <1>5
    <3>4. w = E + 1
      BY <1>1, <1>3, <3>1, <3>2, <3>3
    <3> HIDE DEF E
    <3> QED
      BY <1>1, <2>1, <2>2, <3>4
  <2>3. CASE ~(q <= p)
    <3>1. p < q /\ e >= E
      BY <1>1, <1>5, <2>3
    <3>2. w = Waits(L, p, q, e)
      <4>1. Waits(L, p, q, l) <= Waits(L, p, q, e)
        BY <1>1, <3>1, SlowHost
      <4> QED
        BY <1>3, <4>1
    <3>3. (e + 1) - ((e - E) * p) \div q - Waits(L, p, q, e) \in {0, 1}
      BY <1>1, <3>1, SlowFormula
    <3> HIDE DEF E, e
    <3> QED
      BY <2>1, <2>3, <3>2, <3>3
  <2> QED
    BY <2>2, <2>3
<1> QED
  BY <1>1, <1>4, <1>5

\* peak_occupancy and closed_form, for any burst and timing: the simulation ends with the most
\* bytes that are in the FIFO as one of them lands, and the formula beside it is that peak or
\* one byte above it.
THEOREM PeaksAreExactHolds == Spec => []PeaksAreExact
<1>1. Init => FifoInv
  BY FifoStarts DEF Init
<1>2. FifoInv /\ [Next]_vars => FifoInv'
  <2>1. [Next]_vars => [Fifo!FifoNext]_fifo
    BY DEF Next, vars
  <2> QED
    BY <2>1, FifoNextKeeps
<1>3. FifoInv => PeaksAreExact
  <2> SUFFICES ASSUME FifoInv, fifo_a = burst, occupancy = 0
               PROVE  /\ peak = Fifo!Max({0} \cup {Fifo!Waiting(j) : j \in 0..burst - 1})
                      /\ Fifo!closed_form - peak \in {0, 1}
    BY DEF PeaksAreExact, Fifo!PeaksAreExact
  <2>1. /\ burst \in Nat /\ latency \in Nat /\ t_in \in Nat \ {0} /\ t_out \in Nat \ {0}
        /\ peak \in Nat
        /\ \A j \in 0..burst - 1 : Waited(j) <= peak
        /\ (burst = 0 /\ peak = 0) \/ \E j \in 0..burst - 1 : Waited(j) = peak
    BY DEF FifoInv
  <2>2. ASSUME NEW S PROVE Fifo!Cardinality(S) = Cardinality(S)
    BY DEF Fifo!Cardinality, Cardinality
  <2>3. ASSUME NEW j PROVE Fifo!ReadAt(j) = Reads(j)
    BY DEF Fifo!ReadAt, Fifo!arrivals, Reads, ReadsAt, Times
  <2>4. ASSUME NEW j PROVE Fifo!Waiting(j) = Waited(j)
    BY <2>2, <2>3 DEF Fifo!Waiting, Fifo!arrivals, Waited, Waits, Reads
  <2>5. peak = Fifo!Max({0} \cup {Fifo!Waiting(j) : j \in 0..burst - 1})
    <3> DEFINE S == {0} \cup {Waited(j) : j \in 0..burst - 1}
    <3>1. ASSUME NEW j \in 0..burst - 1 PROVE Waited(j) \in Int
      <4>1. j \in Nat
        BY <2>1
      <4>2. PICK k : Stands(latency, t_in, t_out, j, k)
        BY <2>1, <4>1, StandsOne
      <4>3. k \in 0..j
        BY <4>2 DEF Stands
      <4>4. Waits(latency, t_in, t_out, j) = (j + 1) - k
        BY <2>1, <4>1, <4>2, WaitsAre
      <4> QED
        BY <4>1, <4>3, <4>4 DEF Waited
    <3>2. S \in SUBSET Int /\ IsMost(peak, S)
      BY <2>1, <3>1 DEF IsMost
    <3>3. S = {0} \cup {Fifo!Waiting(j) : j \in 0..burst - 1}
      BY <2>4
    <3> HIDE DEF S
    <3>4. Fifo!Max(S) = peak
      BY <3>2, MostIs
    <3> QED
      BY <3>3, <3>4
  <2>6. Fifo!closed_form - peak \in {0, 1}
    <3> DEFINE E == latency \div t_in + 1
               B == IF burst < E THEN burst ELSE E
    <3>1. Fifo!closed_form = IF t_out <= t_in THEN B
                             ELSE B + (burst - B) - ((burst - B) * t_in) \div t_out
      BY DEF Fifo!closed_form
    <3>2. CASE burst = 0
      <4>1. latency \div t_in \in Nat
        BY <2>1, QuotientIs
      <4>2. B = 0 /\ peak = 0
        BY <2>1, <3>2, <4>1
      <4> HIDE DEF B
      <4>3. CASE t_out <= t_in
        BY <3>1, <4>2, <4>3
      <4>4. CASE ~(t_out <= t_in)
        <5> DEFINE x == (burst - B) * t_in
                   y == x \div t_out
                   z == B + (burst - B)
        <5>1. x = 0 /\ z = 0
          BY <2>1, <3>2, <4>2
        <5>2. Fifo!closed_form = z - y
          BY <2>1, <3>1, <4>2, <4>4
        <5> HIDE DEF x, z
        <5>3. y = 0
          BY <2>1, <5>1
        <5> HIDE DEF y
        <5> QED
          BY <4>2, <5>1, <5>2, <5>3
      <4> QED
        BY <4>3, <4>4
    <3>3. CASE burst # 0
      <4>1. PICK l \in 0..burst - 1 : Waits(latency, t_in, t_out, l) = peak
        BY <2>1, <3>3 DEF Waited
      <4>2. burst \in Nat \ {0} /\ \A j \in 0..burst - 1 : Waits(latency, t_in, t_out, j) <= peak
        BY <2>1, <3>3 DEF Waited
      <4> HIDE DEF B
      <4>3. B = IF burst < latency \div t_in + 1 THEN burst ELSE latency \div t_in + 1
        BY DEF B
      <4>4. (IF t_out <= t_in THEN B ELSE B + (burst - B) - ((burst - B) * t_in) \div t_out) - peak
               \in {0, 1}
        BY <2>1, <4>1, <4>2, <4>3, FormulaIs
      <4> DEFINE C == IF t_out <= t_in THEN B ELSE B + (burst - B) - ((burst - B) * t_in) \div t_out
      <4>5. Fifo!closed_form = C /\ C - peak \in {0, 1}
        BY ONLY <3>1, <4>4
      <4> HIDE DEF C
      <4> QED
        BY <4>5
    <3> QED
      BY <3>2, <3>3
  <2> QED
    BY <2>5, <2>6
<1> QED
  BY <1>1, <1>2, <1>3, PTL DEF Spec

===============================================================================
