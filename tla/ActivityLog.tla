------------------------------ MODULE ActivityLog ------------------------------
(* JsonLinesActivityLog: the audit trail the app and every shell append to and   *)
(* read, one JSON object per line.                                               *)
(*                                                                               *)
(* An entry is stamped before the lock is taken and written under it; a reader   *)
(* looks for the file before the lock is taken, reads it under the lock and      *)
(* parses it after.  An append is one write at the end the file had when it was  *)
(* opened; a process or disk that fails may leave any prefix of it.              *)
EXTENDS Naturals, Sequences, SequencesExt

CONSTANTS
    Process,     \* the app and the shells
    NoProcess,   \* holder of a free lock
    WritesFail,  \* may a process die in a call, or the disk fill up at an append?
    MayReset,    \* may a user delete the data directory?
    MaxStamps    \* bound: calls of Record

ASSUME ConstantsAssumption ==
    /\ NoProcess \notin Process
    /\ WritesFail \in BOOLEAN /\ MayReset \in BOOLEAN
    /\ MaxStamps \in Nat \ {0}

\* An entry is the number of its timestamp.  A line is the sequence of
\* pieces [entry, whole] appended since the last newline: one whole entry, unless an
\* append was cut short.
Entry == 1..MaxStamps

\* What a call of ReadAll came to: a list of entries, or an exception.
Answered(es) == [kind |-> "entries", entries |-> es]
Thrown(what) == [kind |-> what, entries |-> <<>>]
NoAnswer     == Thrown("none")

VARIABLES
    dirExists,   \* does the data directory exist?
    fileExists,  \* does activity.jsonl?
    lines,       \* its lines
    ended,       \* does its last line end with a newline?
    lock,        \* the process that has .lock open
    pc,          \* where each process stands in Record or ReadAll
    mine,        \* mine[p]: the entry p is recording
    base,        \* base[p]: what precedes the position at which p opened the file
    copy,        \* copy[p]: the lines p read
    answer,      \* answer[p]: what ReadAll last returned or threw
    stamps,      \* timestamps handed out so far
    recorded,    \* history: entries whose Record returned
    earlier,     \* history: earlier[e]: entries recorded when e was stamped
    seen         \* history: seen[p]: entries recorded when p called ReadAll

file    == <<dirExists, fileExists, lines, ended>>
locals  == <<mine, base, copy, answer>>
history == <<recorded, earlier, seen>>
vars    == <<file, lock, pc, locals, stamps, history>>

NoBase == [lines |-> <<>>, ended |-> TRUE]

Init ==
    /\ dirExists = TRUE
    /\ fileExists = FALSE
    /\ lines = <<>>
    /\ ended = TRUE
    /\ lock = NoProcess
    /\ pc = [p \in Process |-> "idle"]
    /\ mine = [p \in Process |-> 0]
    /\ base = [p \in Process |-> NoBase]
    /\ copy = [p \in Process |-> <<>>]
    /\ answer = [p \in Process |-> NoAnswer]
    /\ stamps = 0
    /\ recorded = {}
    /\ earlier = [e \in Entry |-> {}]
    /\ seen = [p \in Process |-> {}]

Goto(p, place) == pc' = [pc EXCEPT ![p] = place]

-------------------------------------------------------------------------------
(* The lock file *)

\* Mutant of Acquire: .lock is opened with FileShare.ReadWrite.
AcquireShared(p, from, to) ==
    /\ pc[p] = from
    /\ dirExists
    /\ lock' = p
    /\ Goto(p, to)
    /\ UNCHANGED <<file, locals, stamps, history>>

Acquire(p, from, to) ==
    /\ pc[p] = from
    /\ dirExists
    /\ lock = NoProcess
    /\ lock' = p
    /\ Goto(p, to)
    /\ UNCHANGED <<file, locals, stamps, history>>

\* Mutant of Timeout: it waits for as long as the directory is gone.
TimeoutWhenHeld(p) ==
    /\ pc[p] \in {"stamped", "found"}
    /\ lock # NoProcess
    /\ answer' = IF pc[p] = "found" THEN [answer EXCEPT ![p] = Thrown("Timeout")] ELSE answer
    /\ Goto(p, "idle")
    /\ UNCHANGED <<file, lock, mine, base, copy, stamps, history>>

\* Five seconds of failed opens: the lock is held, or its directory is gone.
Timeout(p) ==
    /\ pc[p] \in {"stamped", "found"}
    /\ lock # NoProcess \/ ~dirExists
    /\ answer' = IF pc[p] = "found" THEN [answer EXCEPT ![p] = Thrown("Timeout")] ELSE answer
    /\ Goto(p, "idle")
    /\ UNCHANGED <<file, lock, mine, base, copy, stamps, history>>

Free(p) == lock' = IF lock = p THEN NoProcess ELSE lock

-------------------------------------------------------------------------------
(* Record *)

\* The constructor creates the directory; the entry takes its timestamp before the
\* lock is asked for.
Stamp(p) ==
    /\ pc[p] = "idle"
    /\ stamps < MaxStamps
    /\ dirExists' = TRUE
    /\ stamps' = stamps + 1
    /\ mine' = [mine EXCEPT ![p] = stamps + 1]
    /\ earlier' = [earlier EXCEPT ![stamps + 1] = recorded]
    /\ Goto(p, "stamped")
    /\ UNCHANGED <<fileExists, lines, ended, lock, base, copy, answer, recorded, seen>>

\* File.AppendAllText opens the file at its end, creating it if need be...
OpenAppend(p) ==
    /\ pc[p] = "append"
    /\ fileExists' = TRUE
    /\ base' = [base EXCEPT ![p] = [lines |-> lines, ended |-> ended]]
    /\ Goto(p, "write")
    /\ UNCHANGED <<dirExists, lines, ended, lock, mine, copy, answer, stamps, history>>

\* The file once piece x was written after what b holds.
Appended(b, x) ==
    IF b.ended \/ b.lines = <<>>
      THEN Append(b.lines, <<x>>)
      ELSE [b.lines EXCEPT ![Len(b.lines)] = Append(@, x)]

\* Mutant of Written: the newest entry goes to the front.
WrittenFirst(b, e) == <<<<[entry |-> e, whole |-> TRUE]>>>> \o b.lines

Written(b, e) == Appended(b, [entry |-> e, whole |-> TRUE])

\* ...and writes the line and its newline there.
Write(p) ==
    /\ pc[p] = "write"
    /\ lines' = Written(base[p], mine[p])
    /\ ended' = TRUE
    /\ Goto(p, "written")
    /\ UNCHANGED <<dirExists, fileExists, lock, locals, stamps, history>>

\* The process dies at the write or the disk is full: nothing of the line was written, or its
\* beginning, or all but its newline.  Either way .lock is closed.
WriteFails(p) ==
    /\ WritesFail
    /\ pc[p] = "write"
    /\ \/ UNCHANGED <<lines, ended>>
       \/ \E whole \in BOOLEAN :
            /\ lines' = Appended(base[p], [entry |-> mine[p], whole |-> whole])
            /\ ended' = FALSE
    /\ Free(p)
    /\ Goto(p, "idle")
    /\ UNCHANGED <<dirExists, fileExists, locals, stamps, history>>

\* Record closes .lock and returns.
Recorded(p) ==
    /\ pc[p] = "written"
    /\ Free(p)
    /\ recorded' = recorded \cup {mine[p]}
    /\ Goto(p, "idle")
    /\ UNCHANGED <<file, locals, stamps, earlier, seen>>

-------------------------------------------------------------------------------
(* ReadAll *)

\* File.Exists, without the lock.
LookForFile(p) ==
    /\ pc[p] = "idle"
    /\ dirExists' = TRUE
    /\ seen' = [seen EXCEPT ![p] = recorded]
    /\ answer' = [answer EXCEPT ![p] = IF fileExists THEN NoAnswer
                                             ELSE Answered(<<>>)]
    /\ Goto(p, IF fileExists THEN "found" ELSE "idle")
    /\ UNCHANGED <<fileExists, lines, ended, lock, mine, base, copy, stamps, recorded, earlier>>

\* File.ReadAllLines, then the lock is given back.
ReadLines(p) ==
    /\ pc[p] = "read"
    /\ Free(p)
    /\ IF fileExists
         THEN /\ copy' = [copy EXCEPT ![p] = lines]
              /\ Goto(p, "parse")
              /\ UNCHANGED answer
         ELSE /\ answer' = [answer EXCEPT ![p] = Thrown("FileNotFound")]
              /\ Goto(p, "idle")
              /\ UNCHANGED copy
    /\ UNCHANGED <<file, mine, base, stamps, history>>

\* A line is an entry if it is one whole object, and nothing follows it.
Parses(line) == Len(line) = 1 /\ line[1].whole

\* Mutant of ParsedLines: a line that does not parse is skipped.
ParsedLeniently(ls) ==
    LET good == SelectSeq(ls, Parses) IN Answered([i \in 1..Len(good) |-> good[i][1].entry])

\* The entries of the lines, unless one of them makes Deserialize throw.
ParsedLines(ls) ==
    IF \A i \in 1..Len(ls) : Parses(ls[i])
      THEN Answered([i \in 1..Len(ls) |-> ls[i][1].entry])
      ELSE Thrown("JsonException")

Parse(p) ==
    /\ pc[p] = "parse"
    /\ answer' = [answer EXCEPT ![p] = ParsedLines(copy[p])]
    /\ copy' = [copy EXCEPT ![p] = <<>>]
    /\ Goto(p, "idle")
    /\ UNCHANGED <<file, lock, mine, base, stamps, history>>

-------------------------------------------------------------------------------

\* A user deletes the data directory, which no process has a file open in.
Reset ==
    /\ MayReset
    /\ dirExists
    /\ lock = NoProcess
    /\ dirExists' = FALSE
    /\ fileExists' = FALSE
    /\ lines' = <<>>
    /\ ended' = TRUE
    /\ recorded' = {}
    /\ earlier' = [e \in Entry |-> {}]
    /\ seen' = [p \in Process |-> {}]
    /\ UNCHANGED <<lock, pc, locals, stamps>>

\* The process dies in a call, at any step, and the operating system closes .lock.
Crash(p) ==
    /\ WritesFail
    /\ pc[p] # "idle"
    /\ copy' = [copy EXCEPT ![p] = <<>>]
    /\ Free(p)
    /\ Goto(p, "idle")
    /\ UNCHANGED <<file, mine, base, answer, stamps, history>>

RecordStep(p) ==
    \/ Stamp(p) \/ Acquire(p, "stamped", "append") \/ OpenAppend(p)
    \/ Write(p) \/ WriteFails(p) \/ Recorded(p)

ReadStep(p) ==
    LookForFile(p) \/ Acquire(p, "found", "read") \/ ReadLines(p) \/ Parse(p)

Next ==
    \/ \E p \in Process : RecordStep(p) \/ ReadStep(p) \/ Timeout(p) \/ Crash(p)
    \/ Reset

Spec == Init /\ [][Next]_vars

\* A call, once made, goes on: it gets the lock or times out.
InCallStep(p) ==
    /\ pc[p] # "idle"
    /\ RecordStep(p) \/ ReadStep(p) \/ Timeout(p)

FairSpec == Spec /\ \A p \in Process : WF_vars(InCallStep(p))

-------------------------------------------------------------------------------

\* Where in the file entry e stands on a line of its own.
LinesOf(e) == {i \in 1..Len(lines) : lines[i] = <<[entry |-> e, whole |-> TRUE]>>}

\* Once Record has returned its entry is in the log, whole and with its newline, and
\* stays there, whatever the other processes append and however they fail.
RecordedIsKept ==
    \A e \in recorded : \E i \in 1..Len(lines) : Last(lines[i]) = [entry |-> e, whole |-> TRUE]

\* Calls of Record that do not overlap are logged in the order they were made,
\* although the timestamp is taken before the lock.
NonOverlappingInOrder ==
    \A e, f \in Entry : e \in earlier[f] =>
        \A i \in LinesOf(e), j \in LinesOf(f) : i < j

\* An answer of ReadAll misses no entry that had been recorded when it was called,
\* and has none twice.
AnswerIsComplete ==
    \A p \in Process :
        pc[p] = "idle" /\ answer[p].kind = "entries" =>
            /\ seen[p] \subseteq ToSet(answer[p].entries)
            /\ IsInjective(answer[p].entries)

\* Every call of Record and ReadAll returns or throws.
CallsReturn == \A p \in Process : pc[p] # "idle" ~> pc[p] = "idle"

\* "One JSON object per line" (JsonLinesActivityLog): no line gets a second one.
OneObjectPerLine == \A i \in 1..Len(lines) : Len(lines[i]) = 1

===============================================================================
