------------------------------ MODULE TokenBucket ------------------------------
(* RateLimiter of the system-design lecture: one token bucket per key.  Tokens are  *)
(* counted in parts of one, which makes the arithmetic exact; the clock is the      *)
(* caller's and may be set back.                                                    *)
EXTENDS Integers, Sequences, FiniteSets

CONSTANTS
    Key,       \* user ids, API keys, addresses
    Token,     \* parts of a token
    Capacity,  \* most parts a bucket holds
    Rate,      \* parts added per unit of time
    MaxTime,   \* bound: times are 0..MaxTime
    MaxCalls   \* bound: calls of allow

ASSUME BucketAssumption ==
    /\ Token \in Nat \ {0} /\ Capacity \in Nat /\ Rate \in Nat
    /\ MaxTime \in Nat /\ MaxCalls \in Nat

VARIABLES
    bucket,  \* bucket[k]: the TokenBucket of key k, once there is one
    calls    \* history: every call of allow, [key, now, ok]

bucketVars == <<bucket, calls>>

Lesser(a, b) == IF a < b THEN a ELSE b

\* Mutant of Refilled: what a bucket holds is not limited.
RefilledOver(b, now) == b.tokens + (now - b.last) * Rate

\* The tokens of bucket b at time now.
Refilled(b, now) == Lesser(Capacity, b.tokens + (now - b.last) * Rate)

BucketInit == bucket = <<>> /\ calls = <<>>

\* RateLimiter.allow(key, now): the key's bucket is made, full, on its first call.
Allow(key, now) ==
    LET t  == IF key \in DOMAIN bucket THEN Refilled(bucket[key], now) ELSE Capacity
        ok == t >= Token
    IN /\ bucket' = [k \in DOMAIN bucket \cup {key} |->
                       IF k = key THEN [tokens |-> IF ok THEN t - Token ELSE t, last |-> now]
                                  ELSE bucket[k]]
       /\ calls' = Append(calls, [key |-> key, now |-> now, ok |-> ok])

BucketNext ==
    /\ Len(calls) < MaxCalls
    /\ \E key \in Key, now \in 0..MaxTime : Allow(key, now)

-------------------------------------------------------------------------------

\* Parts spent by the calls i..j - 1 of the key of call j.
Spent(i, j) ==
    Token * Cardinality({n \in i..j - 1 : calls[n].ok /\ calls[n].key = calls[j].key})

\* A request passes exactly when no stretch of its key's requests that ends with it
\* takes more than a full bucket and what flows in meanwhile, whatever the other keys
\* do and wherever the clock jumps.
LimitIsExact ==
    \A j \in 1..Len(calls) :
        calls[j].ok <=>
            \A i \in {n \in 1..j : calls[n].key = calls[j].key} :
                Spent(i, j) + Token <= Capacity + Rate * (calls[j].now - calls[i].now)

===============================================================================
