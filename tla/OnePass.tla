------------------------------ MODULE OnePass ------------------------------
(***************************************************************************)
(* Practice solutions that go over a list once, with a window, two         *)
(* pointers, a stack or a bound: one of them and its input is chosen at    *)
(* the start, and each turn of its loop is a step.  Positions count from 0 *)
(* as in Python, so the element at pos is given[pos + 1].                  *)
(***************************************************************************)
EXTENDS Integers, Sequences, FiniteSetsExt

CONSTANTS
    Numbers,        \* the elements of the lists; letters are numbers as well
    Window,         \* the width of a DNA window, 10 in the code
    MaxLength       \* bound: elements of a list

ASSUME OnePassAssumption ==
    /\ Numbers \subseteq Int
    /\ Window \in Nat \ {0}

VARIABLES
    solution,       \* the method that runs
    given,          \* nums, s, height or temperatures
    argument,       \* k or target
    pos,            \* i
    total, best,    \* total or vowels; current_max, res or result
    seen, found,    \* seen and result of the DNA sequences
    mystack, waits, \* mystack, without the temperatures, and answer
    furthest,
    lo, hi,         \* l and r
    returned        \* <<>> until the method has returned a value

inputs      == <<solution, given, argument>>
windowVars  == <<total, best, seen, found>>
stackVars   == <<mystack, waits>>
pointerVars == <<lo, hi>>
passVars    == <<inputs, pos, windowVars, stackVars, furthest, pointerVars, returned>>

Lists == UNION {[1..m -> Numbers] : m \in 0..MaxLength}

Rising(s) == \A a, b \in DOMAIN s : a < b => s[a] < s[b]

\* What each method is called with.
Called ==
    \/ solution \in {"findRepeatedDnaSequences", "dailyTemperatures"} /\ argument = 0
    \/ solution \in {"findMaxAverage", "maxVowels"} /\ argument \in 1..Len(given)
    \/ /\ solution \in {"maxArea", "canJump"} /\ argument = 0
       /\ \A j \in DOMAIN given : given[j] >= 0
       /\ solution = "canJump" => given # <<>>
    \/ solution = "searchInsert" /\ Rising(given) /\ argument \in Numbers

OnePassInit ==
    /\ solution \in {"findRepeatedDnaSequences", "findMaxAverage", "maxVowels", "maxArea",
                     "dailyTemperatures", "canJump", "searchInsert"}
    /\ given \in Lists
    /\ Called
    /\ pos = 0 /\ total = 0 /\ best = 0 /\ seen = {} /\ found = <<>>
    /\ mystack = <<>> /\ waits = [j \in DOMAIN given |-> 0]
    /\ furthest = IF solution = "canJump" THEN given[1] ELSE 0
    /\ lo = 0
    /\ hi = IF solution = "maxArea" THEN Len(given) - 1 ELSE Len(given)
    /\ returned = <<>>

Runs(method) == solution = method /\ returned = <<>>

Return(value) ==
    /\ returned' = <<value>>
    /\ UNCHANGED <<inputs, pos, windowVars, stackVars, furthest, pointerVars>>

Larger(a, b) == IF a > b THEN a ELSE b
Smaller(a, b) == IF a < b THEN a ELSE b

\* nums[i]
element == given[pos + 1]

-----------------------------------------------------------------------------
(* Windows *)

WindowAt(j) == SubSeq(given, j + 1, j + Window)

\* Mutant: the first attempt of the file, which stops one window early.
WindowFitsBefore == pos + Window < Len(given)

WindowFits == pos + Window - 1 < Len(given)

\* already_added is the set of the elements of found.
LookAtWindow ==
    /\ Runs("findRepeatedDnaSequences") /\ WindowFits
    /\ seen' = seen \cup {WindowAt(pos)}
    /\ found' = IF WindowAt(pos) \in seen /\ \A j \in DOMAIN found : found[j] # WindowAt(pos)
                THEN Append(found, WindowAt(pos)) ELSE found
    /\ pos' = pos + 1
    /\ UNCHANGED <<inputs, total, best, stackVars, furthest, pointerVars, returned>>

ReturnRepeats == Runs("findRepeatedDnaSequences") /\ ~WindowFits /\ Return(found)

\* The averages times k, which their order does not depend on.
AddNumber ==
    /\ Runs("findMaxAverage") /\ pos < Len(given)
    /\ \/ /\ pos < argument
          /\ total' = total + element
          /\ best' = IF pos = argument - 1 THEN total' ELSE best
       \/ /\ pos >= argument
          /\ total' = (total - given[pos - argument + 1]) + element
          /\ best' = Larger(best, total')
    /\ pos' = pos + 1
    /\ UNCHANGED <<inputs, seen, found, stackVars, furthest, pointerVars, returned>>

ReturnAverage == Runs("findMaxAverage") /\ pos = Len(given) /\ Return(best)

\* Even numbers stand for vowels.
vowel(x) == IF x % 2 = 0 THEN 1 ELSE 0

AddLetter ==
    /\ Runs("maxVowels") /\ pos < Len(given)
    /\ \/ pos < argument  /\ total' = total + vowel(element)
       \/ pos >= argument /\ total' = (total + vowel(element)) - vowel(given[pos - argument + 1])
    /\ best' = Larger(best, total')
    /\ pos' = pos + 1
    /\ UNCHANGED <<inputs, seen, found, stackVars, furthest, pointerVars, returned>>

ReturnVowels == Runs("maxVowels") /\ pos = Len(given) /\ Return(best)

-----------------------------------------------------------------------------
(* Pointers, a stack and a bound *)

volume == Smaller(given[lo + 1], given[hi + 1]) * (hi - lo)

Narrow ==
    /\ Runs("maxArea") /\ lo < hi
    /\ best' = Larger(best, volume)
    /\ \/ given[lo + 1] > given[hi + 1]  /\ hi' = hi - 1 /\ lo' = lo
       \/ given[lo + 1] <= given[hi + 1] /\ lo' = lo + 1 /\ hi' = hi
    /\ UNCHANGED <<inputs, pos, total, seen, found, stackVars, furthest, returned>>

ReturnArea == Runs("maxArea") /\ lo >= hi /\ Return(best)

mid == (lo + hi) \div 2

Halve ==
    /\ Runs("searchInsert") /\ lo < hi
    /\ \/ given[mid + 1] < argument /\ lo' = mid + 1 /\ hi' = hi
       \/ given[mid + 1] > argument /\ hi' = mid /\ lo' = lo
    /\ UNCHANGED <<inputs, pos, windowVars, stackVars, furthest, returned>>

ReturnPlace ==
    /\ Runs("searchInsert")
    /\ \/ lo < hi /\ given[mid + 1] = argument /\ Return(mid)
       \/ lo >= hi /\ Return(lo)

\* The day on top of the stack is colder than today.
Warmer == mystack # <<>> /\ given[mystack[Len(mystack)] + 1] < element

Resolve ==
    /\ Runs("dailyTemperatures") /\ pos < Len(given) /\ Warmer
    /\ mystack' = SubSeq(mystack, 1, Len(mystack) - 1)
    /\ waits' = [waits EXCEPT ![mystack[Len(mystack)] + 1] = pos - mystack[Len(mystack)]]
    /\ UNCHANGED <<inputs, pos, windowVars, furthest, pointerVars, returned>>

AddDay ==
    /\ Runs("dailyTemperatures") /\ pos < Len(given) /\ ~Warmer
    /\ mystack' = Append(mystack, pos)
    /\ pos' = pos + 1
    /\ UNCHANGED <<inputs, windowVars, waits, furthest, pointerVars, returned>>

ReturnWaits == Runs("dailyTemperatures") /\ pos = Len(given) /\ Return(waits)

\* The end of the method is reached without a return statement.
Jump ==
    /\ Runs("canJump")
    /\ LET reach == Larger(furthest, element + pos)
       IN  IF pos = Len(given) THEN Return("None")
           ELSE /\ furthest' = reach
                /\ IF reach >= Len(given) - 1 THEN returned' = <<"True">> /\ pos' = pos
                   ELSE IF reach = pos        THEN returned' = <<"False">> /\ pos' = pos
                   ELSE pos' = pos + 1 /\ returned' = returned
                /\ UNCHANGED <<inputs, windowVars, stackVars, pointerVars>>

OnePassNext ==
    \/ LookAtWindow \/ ReturnRepeats
    \/ AddNumber \/ ReturnAverage \/ AddLetter \/ ReturnVowels
    \/ Narrow \/ ReturnArea \/ Halve \/ ReturnPlace
    \/ Resolve \/ AddDay \/ ReturnWaits \/ Jump

OnePassSpec == OnePassInit /\ [][OnePassNext]_passVars

-----------------------------------------------------------------------------
(* What the methods should return *)

Returns(method) == solution = method /\ returned # <<>>

\* The window at b has been seen before.
Again(b) == \E a \in 0..b - 1 : WindowAt(a) = WindowAt(b)

\* Where a window occurs for the second time.
Second(w) == Min({b \in 0..Len(given) - Window : WindowAt(b) = w /\ Again(b)})

\* Every repeated window once, in the order of their second occurrences
\* (findRepeatedDnaSequences).
RepeatsAreFoundOnce ==
    Returns("findRepeatedDnaSequences") =>
        LET result == returned[1]
        IN  /\ {result[j] : j \in DOMAIN result} =
                   {WindowAt(b) : b \in {c \in 0..Len(given) - Window : Again(c)}}
            /\ \A i, j \in DOMAIN result : i < j => Second(result[i]) < Second(result[j])

\* The sum of m elements of s, and those of all windows of a width.
Sum(s, start, m) ==
    LET added[j \in 0..m] == IF j = 0 THEN 0 ELSE added[j - 1] + s[start + j]
    IN  added[m]

Sums(s, width) == {Sum(s, start, width) : start \in 0..Len(s) - width}

\* The running totals are those of the windows, negative numbers included
\* (findMaxAverage, maxVowels).
AverageIsOfABestWindow ==
    Returns("findMaxAverage") => returned[1] = Max(Sums(given, argument))

VowelsAreOfABestWindow ==
    Returns("maxVowels") =>
        returned[1] = Max(Sums([j \in DOMAIN given |-> vowel(given[j])], argument))

\* Moving the lower wall passes over no larger area (maxArea).
AreaIsLargest ==
    Returns("maxArea") =>
        returned[1] = Max({0} \cup {Smaller(given[i], given[j]) * (j - i) : i, j \in DOMAIN given})

\* The place found keeps a sorted list sorted, and is the place of the target when
\* it is in the list (searchInsert).
InsertKeepsOrder ==
    Returns("searchInsert") =>
        returned[1] = Cardinality({j \in DOMAIN given : given[j] < argument})

WarmerDays(j) == {d \in DOMAIN given : d > j /\ given[d] > given[j]}

\* The stack gives each day the wait to its next warmer day, 0 if none comes
\* (dailyTemperatures).
WaitsAreShortest ==
    Returns("dailyTemperatures") =>
        returned[1] = [j \in DOMAIN given |-> IF WarmerDays(j) = {} THEN 0 ELSE Min(WarmerDays(j)) - j]

\* A way from the first index to the last: the indices stepped on.
HasWay ==
    \E S \in SUBSET DOMAIN given :
        /\ {1, Len(given)} \subseteq S
        /\ \A i \in S \ {Len(given)} : \E j \in S : j > i /\ j - i <= given[i]

\* The greedy answer is given, and is True exactly when some way reaches the end
\* (canJump).
JumpsReachTheEnd ==
    Returns("canJump") => returned[1] = IF HasWay THEN "True" ELSE "False"

\* One pass with a window, two pointers, a stack or a bound passes over no answer.
OnePassIsEnough ==
    /\ RepeatsAreFoundOnce /\ AverageIsOfABestWindow /\ VowelsAreOfABestWindow
    /\ AreaIsLargest /\ InsertKeepsOrder /\ WaitsAreShortest /\ JumpsReachTheEnd
=============================================================================
