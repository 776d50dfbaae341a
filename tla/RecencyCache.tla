---------------------------- MODULE RecencyCache ----------------------------
(***************************************************************************)
(* What an LRU cache promises, without a list or a dictionary: the entries *)
(* it holds, ordered by when they were last used, and the answer to the    *)
(* last call.  LRUCache (001_practice_medium.py) implements it.            *)
(***************************************************************************)
EXTENDS Integers, Sequences, SequencesExt

CONSTANTS
    Keys, Values, Capacity,
    None                \* what a call without an answer returns

VARIABLES
    entries,    \* the entries held, [key, value] records, newest use first
    answer      \* what the last call returned

rcVars == <<entries, answer>>

Miss == -1          \* what get returns for a key that is not held

EntryOf(k, v) == [key |-> k, value |-> v]

Holds(k) == \E i \in DOMAIN entries : entries[i].key = k

\* The newest Capacity entries of a sequence.
Newest(s) == SubSeq(s, 1, IF Len(s) < Capacity THEN Len(s) ELSE Capacity)

RcInit == entries = <<>> /\ answer = None

RcGetMiss(k) ==
    /\ ~Holds(k)
    /\ answer' = Miss
    /\ UNCHANGED entries

\* The entry found goes to the front.
RcGetHit(k) ==
    \E i \in DOMAIN entries :
        /\ entries[i].key = k
        /\ entries' = <<entries[i]>> \o RemoveAt(entries, i)
        /\ answer' = entries[i].value

\* The new entry goes to the front, and the oldest goes when there is one too many.
RcPutNew(k, v) ==
    /\ ~Holds(k)
    /\ entries' = Newest(<<EntryOf(k, v)>> \o entries)
    /\ answer' = None

RcPutHeld(k, v) ==
    /\ \E i \in DOMAIN entries :
          /\ entries[i].key = k
          /\ entries' = <<EntryOf(k, v)>> \o RemoveAt(entries, i)
    /\ answer' = None

RcNext == \E k \in Keys : \/ RcGetMiss(k) \/ RcGetHit(k)
                          \/ \E v \in Values : RcPutNew(k, v) \/ RcPutHeld(k, v)

RcSpec == RcInit /\ [][RcNext]_rcVars
=============================================================================
