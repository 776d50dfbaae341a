------------------------- MODULE PracticeSolutions -------------------------
(***************************************************************************)
(* The finished practice solutions of the leetcode lectures, each as an    *)
(* operator over its arguments, against a definition of what it should     *)
(* return that shares nothing with it.                                     *)
(*                                                                         *)
(* The arguments are the state: they grow by one element at a step, so the *)
(* reachable states are the inputs up to a bound and the invariants say    *)
(* that no input tells a solution from its definition.  Python counts      *)
(* indices from 0 and a TLA+ sequence from 1; where a solution computes    *)
(* with indices, comments give the difference.                             *)
(***************************************************************************)
EXTENDS Integers, Sequences, SequencesExt, FiniteSets, FiniteSetsExt

CONSTANTS
    Digits,         \* the elements of the sequences
    MaxNums,        \* bound: elements of nums
    MaxOther,       \* bound: elements of each when there are two sequences
    MaxTree         \* bound: nodes of a tree

InputAssumption ==
    /\ Digits \subseteq Nat
    /\ MaxOther <= MaxNums

VARIABLES
    nums, other,    \* sequences of digits
    tree            \* a value for each node, and a node is the turns from the root to it

vars == <<nums, other, tree>>

MaxOf(a, b) == IF a > b THEN a ELSE b
Total(S, f) == FoldFunctionOnSet(+, 0, f, S)

-----------------------------------------------------------------------------
(* Recursion over two sequences *)

\* What a call returns, and the table as it leaves it: the calls of a recursion share one.
\* An entry that is -1 in the program is not in the domain here.
Answer(value, table)          == [value |-> value, table |-> table]
Remember(key, value, table)   == Answer(value, (key :> value) @@ table)

longestCommonSubsequence(text1, text2) ==
    LET RECURSIVE recurse(_, _, _)
        recurse(i, j, answer_pad) ==
            IF i > Len(text1) \/ j > Len(text2) THEN Answer(0, answer_pad)
            ELSE IF <<i, j>> \in DOMAIN answer_pad THEN Answer(answer_pad[i, j], answer_pad)
            ELSE IF text1[i] = text2[j]
            THEN LET both == recurse(i + 1, j + 1, answer_pad)
                 IN  Remember(<<i, j>>, 1 + both.value, both.table)
            ELSE LET first  == recurse(i + 1, j, answer_pad)
                     second == recurse(i, j + 1, first.table)
                 IN  Remember(<<i, j>>, MaxOf(first.value, second.value), second.table)
    IN  recurse(1, 1, <<>>).value

maxUncrossedLines(nums1, nums2) ==
    LET bt[i \in 1..Len(nums1) + 1, j \in 1..Len(nums2) + 1, current \in 0..Len(nums1)] ==
            IF i > Len(nums1) \/ j > Len(nums2) THEN current
            ELSE IF nums1[i] = nums2[j]
            THEN Max({bt[i + 1, j + 1, current + 1], bt[i + 1, j, current],
                      bt[i, j + 1, current]})
            ELSE MaxOf(bt[i + 1, j, current], bt[i, j + 1, current])
    IN  bt[1, 1, 0]

\* The longest sequence that both hold in order, by trying all of them.
LongestShared(s, t) == Max({Len(u) : u \in AllSubSeqs(s) \cap AllSubSeqs(t)})

\* The version without a table.
lcsByBacktracking(text1, text2) ==
    LET backtrack[i \in 1..Len(text1) + 1, j \in 1..Len(text2) + 1] ==
            IF i > Len(text1) \/ j > Len(text2) THEN 0
            ELSE IF text1[i] = text2[j] THEN 1 + backtrack[i + 1, j + 1]
            ELSE MaxOf(backtrack[i + 1, j], backtrack[i, j + 1])
    IN  backtrack[1, 1]

-----------------------------------------------------------------------------
(* Recursion over a tree *)

left(node)  == Append(node, 0)
right(node) == Append(node, 1)
leaf(root, node) == node \in DOMAIN root /\ left(node) \notin DOMAIN root
                                        /\ right(node) \notin DOMAIN root

maxDepth(root) ==
    LET RECURSIVE depth(_)
        depth(node) == IF node \notin DOMAIN root THEN 0
                       ELSE MaxOf(depth(left(node)), depth(right(node))) + 1
    IN  depth(<<>>)

hasPathSum(root, targetSum) ==
    LET RECURSIVE traverse(_, _)
        traverse(node, passed_in) ==
            IF node \notin DOMAIN root THEN FALSE
            ELSE LET current_sum == passed_in + root[node]
                 IN  IF leaf(root, node) THEN current_sum = targetSum
                     ELSE traverse(left(node), current_sum) \/ traverse(right(node), current_sum)
    IN  traverse(<<>>, 0)

\* path is the string of the digits so far, and int(path) its number.
sumNumbers(root) ==
    LET RECURSIVE traverse(_, _)
        traverse(node, path) ==
            IF node \notin DOMAIN root THEN 0
            ELSE LET longer == 10 * path + root[node]
                 IN  IF leaf(root, node) THEN longer
                     ELSE traverse(left(node), longer) + traverse(right(node), longer)
    IN  traverse(<<>>, 0)

Leaves(root) == {node \in DOMAIN root : leaf(root, node)}
PathTo(node) == {SubSeq(node, 1, k) : k \in 0..Len(node)}

-----------------------------------------------------------------------------
(* Recursion over one sequence, with the table dp *)

TwoDigits(s, i) == 10 * s[i] + s[i + 1]

\* A "0" is answered without an entry.
numDecodings(s) ==
    LET RECURSIVE bt(_, _)
        bt(i, dp) ==
            IF i = Len(s) + 1 THEN Answer(1, dp)
            ELSE IF i \in DOMAIN dp THEN Answer(dp[i], dp)
            ELSE IF s[i] = 0 THEN Answer(0, dp)
            ELSE LET r1 == bt(i + 1, dp)
                     r2 == IF i < Len(s) /\ TwoDigits(s, i) <= 26 THEN bt(i + 2, r1.table)
                                                                  ELSE Answer(0, r1.table)
                 IN  Remember(i, r1.value + r2.value, r2.table)
    IN  bt(1, <<>>).value

\* A decoding is a choice of where the letters start.
Letter(s, i, j) ==
    \/ j = i /\ s[i] \in 1..9
    \/ j = i + 1 /\ TwoDigits(s, i) \in 10..26

Decodings(s) ==
    {starts \in SUBSET DOMAIN s :
        \A i \in starts \cup (IF s = <<>> THEN {} ELSE {1}) :
            /\ i \in starts
            /\ Letter(s, i, Min({j \in starts : j > i} \cup {Len(s) + 1}) - 1)}

\* Mutant: the total so far is an argument, as in the first version, and no part of the key.
robTotalNotInKey(amounts) ==
    LET RECURSIVE bt(_, _, _)
        bt(i, curr_total, dp) ==
            IF i > Len(amounts) THEN Answer(curr_total, dp)
            ELSE IF i \in DOMAIN dp THEN Answer(dp[i], dp)
            ELSE LET r1 == bt(i + 2, curr_total + amounts[i], dp)
                     r2 == bt(i + 1, curr_total, r1.table)
                 IN  Remember(i, MaxOf(r1.value, r2.value), r2.table)
    IN  bt(1, 0, <<>>).value

rob(amounts) ==
    LET RECURSIVE bt(_, _)
        bt(i, dp) ==
            IF i > Len(amounts) THEN Answer(0, dp)
            ELSE IF i \in DOMAIN dp THEN Answer(dp[i], dp)
            ELSE LET r1 == bt(i + 2, dp)
                     r2 == bt(i + 1, r1.table)
                 IN  Remember(i, MaxOf(amounts[i] + r1.value, r2.value), r2.table)
    IN  bt(1, <<>>).value

Hauls(amounts) ==
    {Total(S, amounts) : S \in {T \in SUBSET DOMAIN amounts : \A i \in T : i + 1 \notin T}}

-----------------------------------------------------------------------------
(* The inputs *)

Init == nums = <<>> /\ other = <<>> /\ tree = <<>>

\* A second sequence is only added to a short first one, and a tree to neither: no
\* solution takes all of them.
GrowNums ==
    /\ tree = <<>>
    /\ Len(nums) < IF other = <<>> THEN MaxNums ELSE MaxOther
    /\ \E d \in Digits : nums' = Append(nums, d)
    /\ UNCHANGED <<other, tree>>

GrowOther ==
    /\ tree = <<>>
    /\ Len(nums) <= MaxOther /\ Len(other) < MaxOther
    /\ \E d \in Digits : other' = Append(other, d)
    /\ UNCHANGED <<nums, tree>>

GrowTree ==
    /\ nums = <<>> /\ other = <<>>
    /\ Cardinality(DOMAIN tree) < MaxTree
    /\ \E node \in ({<<>>} \cup {left(p) : p \in DOMAIN tree} \cup {right(p) : p \in DOMAIN tree})
                       \ DOMAIN tree, d \in Digits :
          tree' = [p \in DOMAIN tree \cup {node} |-> IF p = node THEN d ELSE tree[p]]
    /\ UNCHANGED <<nums, other>>

Next == GrowNums \/ GrowOther \/ GrowTree

Spec == Init /\ [][Next]_vars

-----------------------------------------------------------------------------
(* Properties *)

\* The recursion over two texts finds the longest subsequence they share, though it answers
\* from a table that earlier calls filled (longestCommonSubsequence); and counting with an
\* accumulator and without a table finds the same number (maxUncrossedLines).
LcsIsLongest ==
    /\ longestCommonSubsequence(nums, other) = LongestShared(nums, other)
    /\ lcsByBacktracking(nums, other) = LongestShared(nums, other)
LinesAreLongest == maxUncrossedLines(nums, other) = LongestShared(nums, other)

\* One count per way to cut the digits into letters (numDecodings).
DecodingsAreCounted == nums # <<>> => numDecodings(nums) = Cardinality(Decodings(nums))

\* The best haul without two neighbours, though the table knows only the index (rob, second
\* version; with a total as a second argument that would not do).
RobIsBest == rob(nums) = Max(Hauls(nums))

\* A path ends at a leaf, and nowhere else: its length, its sum and its number are those of
\* the nodes from the root to a leaf (maxDepth, hasPathSum, sumNumbers).
PathsEndAtLeaves ==
    /\ maxDepth(tree) = Max({0} \cup {Len(node) + 1 : node \in DOMAIN tree})
    /\ \A targetSum \in 0..MaxTree * Max(Digits) :
          hasPathSum(tree, targetSum) <=>
              \E node \in Leaves(tree) : Total(PathTo(node), tree) = targetSum
    /\ sumNumbers(tree) =
          MapThenSumSet(LAMBDA node :
              MapThenSumSet(LAMBDA p : tree[p] * 10 ^ (Len(node) - Len(p)), PathTo(node)),
              Leaves(tree))

\* Counting and optimising by trying both choices at every index is as good as
\* trying every selection, though answers come from tables that other calls filled, under the
\* index alone; and so is a traversal that carries its path along.
RecursionsMissNothing ==
    LcsIsLongest /\ LinesAreLongest /\ DecodingsAreCounted /\ RobIsBest /\ PathsEndAtLeaves
=============================================================================
