--------------------------- MODULE CourseSchedule ---------------------------
(***************************************************************************)
(* canFinish of the practice solutions, call by call: the adjacency lists  *)
(* are built pair by pair, and a depth-first search starts from every      *)
(* course.  The calls of dfs that have not returned are a stack; visited   *)
(* is kept from one search to the next and path is not.                    *)
(***************************************************************************)
EXTENDS Integers, Sequences

CONSTANTS
    numCourses,
    MaxEdges        \* bound: prerequisites

ASSUME CoursesAssumption == numCourses \in Nat

Courses == 0..numCourses - 1

VARIABLES
    prerequisites,  \* pairs <<a, b>>: b before a
    joined,         \* how many of them are in the lists
    al,             \* al[b] lists the courses that b comes before
    course,         \* how many courses a search has started from
    calls,          \* the calls of dfs: a node, and how many of its list it has passed on
    visited, path,
    verdict         \* what canFinish has returned, "open" while it runs

courseVars == <<prerequisites, joined, al, course, calls, visited, path, verdict>>

CoursesInit ==
    /\ prerequisites \in UNION {[1..m -> Courses \X Courses] : m \in 0..MaxEdges}
    /\ joined = 0 /\ al = [b \in Courses |-> <<>>]
    /\ course = 0 /\ calls = <<>>
    /\ visited = {} /\ path = {}
    /\ verdict = "open"

Join ==
    /\ joined < Len(prerequisites)
    /\ LET pair == prerequisites[joined + 1]
       IN  al' = [al EXCEPT ![pair[2]] = Append(@, pair[1])]
    /\ joined' = joined + 1
    /\ UNCHANGED <<prerequisites, course, calls, visited, path, verdict>>

\* dfs(node), called from callers with the path onPath.  False is handed on by every
\* caller, and by canFinish.
dfs(node, callers, onPath) ==
    \/ /\ node \in onPath
       /\ verdict' = "False" /\ calls' = <<>>
       /\ path' = onPath /\ UNCHANGED visited
    \/ /\ node \notin onPath /\ node \in visited
       /\ calls' = callers
       /\ path' = onPath /\ UNCHANGED <<visited, verdict>>
    \/ /\ node \notin onPath /\ node \notin visited
       /\ visited' = visited \cup {node}
       /\ path' = onPath \cup {node}
       /\ calls' = Append(callers, [node |-> node, passed |-> 0])
       /\ UNCHANGED verdict

Searching == joined = Len(prerequisites) /\ verdict = "open"

Search ==
    /\ Searching /\ calls = <<>> /\ course < numCourses
    /\ dfs(course, <<>>, {})
    /\ course' = course + 1
    /\ UNCHANGED <<prerequisites, joined, al>>

last == Len(calls)
newest  == calls[last]
rest == SubSeq(calls, 1, last - 1)

Explore ==
    /\ calls # <<>> /\ newest.passed < Len(al[newest.node])
    /\ dfs(al[newest.node][newest.passed + 1],
           Append(rest, [node |-> newest.node, passed |-> newest.passed + 1]), path)
    /\ UNCHANGED <<prerequisites, joined, al, course>>

\* Mutant: a course stays on the path when its call is over.
LeaveKeepsPath ==
    /\ calls # <<>> /\ newest.passed = Len(al[newest.node])
    /\ calls' = rest
    /\ UNCHANGED <<prerequisites, joined, al, course, visited, path, verdict>>

Leave ==
    /\ calls # <<>> /\ newest.passed = Len(al[newest.node])
    /\ calls' = rest
    /\ path' = path \ {newest.node}
    /\ UNCHANGED <<prerequisites, joined, al, course, visited, verdict>>

\* The method ends without a return statement, where its author meant True.
Fall ==
    /\ Searching /\ calls = <<>> /\ course = numCourses
    /\ verdict' = "None"
    /\ UNCHANGED <<prerequisites, joined, al, course, calls, visited, path>>

CoursesNext == Join \/ Search \/ Explore \/ Leave \/ Fall

CoursesSpec == CoursesInit /\ [][CoursesNext]_courseVars

-----------------------------------------------------------------------------

\* Courses every one of which waits for another of them.
Deadlocked ==
    \E S \in (SUBSET Courses) \ {{}} :
        \A a \in S : \E b \in S, m \in DOMAIN prerequisites : prerequisites[m] = <<a, b>>

\* The search that never visits a course twice misses no cycle and sees none that
\* is not there, in whichever order the prerequisites are listed (canFinish).
CanFinishIffNoCycle == verdict # "open" => (verdict = "False" <=> Deadlocked)
=============================================================================
