-------------------------------- MODULE ShmDemo --------------------------------
(* shm_demo.c: a writer and a reader share a block in a named section, under a named *)
(* mutex, and wake each other with two auto-reset events.  The objects live as long  *)
(* as a process has them open.  Either program may be run again, also while the      *)
(* other process is still closing its handles, and either may be killed.             *)
EXTENDS Integers, Sequences

CONSTANTS
    Messages,  \* rounds of the loop, 3 in the code
    MayKill,   \* may a user kill a process?
    MaxRuns    \* bound: times each program is run

Role == {"writer", "reader"}

VARIABLES
    pc,          \* where the process of each role is, "ended" when there is none
    i,           \* its loop counter
    runs,        \* how often the program was run in that role
    mapped,      \* the processes that have the section
    opened,      \* those that have the mutex and the events
    block,       \* the shared block
    lock,        \* the process that owns the mutex
    ready, ack,  \* are the events signalled?
    written,     \* history: messages the writers finished
    printed,     \* history: blocks the readers printed
    killed,      \* history: was a process killed?
    cut          \* history: was a writer, inside its critical section?

demoVars == <<pc, i, runs, mapped, opened, block, lock, ready, ack, written, printed, killed, cut>>
objects  == <<mapped, opened, block, lock, ready, ack>>
history  == <<written, printed, killed, cut>>

Nobody == "nobody"

\* A message is known by its number and the process that wrote its text.
NoText     == <<0, 0>>
EmptyBlock == [sequence |-> 0, text |-> NoText]
Whole(b)   == b.text[1] = b.sequence

DemoInit ==
    /\ pc = [r \in Role |-> "ended"]
    /\ i = [r \in Role |-> 0]
    /\ runs = [r \in Role |-> 0]
    /\ mapped = {} /\ opened = {}
    /\ block = EmptyBlock
    /\ lock = Nobody
    /\ ready = FALSE /\ ack = FALSE
    /\ written = <<>> /\ printed = <<>>
    /\ killed = FALSE /\ cut = FALSE

\* The process of role r goes from one place to another.
Goes(r, from, to) == pc[r] = from /\ pc' = [pc EXCEPT ![r] = to]

First(r) == IF r = "writer" THEN "lock" ELSE "ready"

Run(r) ==
    /\ runs[r] < MaxRuns
    /\ Goes(r, "ended", "section")
    /\ runs' = [runs EXCEPT ![r] = @ + 1]
    /\ UNCHANGED <<i, objects, history>>

\* CreateFileMappingW and MapViewOfFile: a section nobody has open is a new page.
MapSection(r) ==
    /\ Goes(r, "section", "objects")
    /\ block' = IF mapped = {} THEN EmptyBlock ELSE block
    /\ mapped' = mapped \cup {r}
    /\ UNCHANGED <<i, runs, opened, lock, ready, ack, history>>

\* CreateMutexW and CreateEventW
OpenObjects(r) ==
    /\ Goes(r, "objects", First(r))
    /\ IF opened = {} THEN lock' = Nobody /\ ready' = FALSE /\ ack' = FALSE
                      ELSE UNCHANGED <<lock, ready, ack>>
    /\ opened' = opened \cup {r}
    /\ i' = [i EXCEPT ![r] = 1]
    /\ UNCHANGED <<runs, mapped, block, history>>

\* WaitForSingleObject(lock): a mutex its owner abandoned is had like a free one.
WaitForLock(r) ==
    /\ lock = Nobody
    /\ Goes(r, "lock", IF r = "writer" THEN "sequence" ELSE "print")
    /\ lock' = r
    /\ UNCHANGED <<i, runs, mapped, opened, block, ready, ack, history>>

WriteSequence ==
    /\ Goes("writer", "sequence", "text")
    /\ block' = [block EXCEPT !.sequence = i["writer"]]
    /\ UNCHANGED <<i, runs, mapped, opened, lock, ready, ack, history>>

WriteText ==
    LET text == <<i["writer"], runs["writer"]>> IN
    /\ Goes("writer", "text", "unlock")
    /\ block' = [block EXCEPT !.text = text]
    /\ written' = Append(written, text)
    /\ UNCHANGED <<i, runs, mapped, opened, lock, ready, ack, printed, killed, cut>>

PrintBlock ==
    /\ Goes("reader", "print", "unlock")
    /\ printed' = Append(printed, block)
    /\ UNCHANGED <<i, runs, objects, written, killed, cut>>

ReleaseMutex(r) ==
    /\ Goes(r, "unlock", "signal")
    /\ lock' = Nobody
    /\ UNCHANGED <<i, runs, mapped, opened, block, ready, ack, history>>

\* The next round of the loop.
Round(r, from) ==
    /\ Goes(r, from, IF i[r] < Messages THEN First(r) ELSE "close")
    /\ i' = [i EXCEPT ![r] = @ + 1]

\* The writer sets ready and will wait for ack; the reader sets ack and goes round.
SetReady ==
    /\ Goes("writer", "signal", "ack")
    /\ ready' = TRUE
    /\ UNCHANGED <<i, runs, mapped, opened, block, lock, ack, history>>

SetAck ==
    /\ Round("reader", "signal")
    /\ ack' = TRUE
    /\ UNCHANGED <<runs, mapped, opened, block, lock, ready, history>>

\* Mutant of WaitForReady: the event is created with manual reset.
WaitForReadyManual ==
    /\ ready
    /\ Goes("reader", "ready", "lock")
    /\ UNCHANGED <<i, runs, objects, history>>

WaitForReady ==
    /\ ready
    /\ Goes("reader", "ready", "lock")
    /\ ready' = FALSE
    /\ UNCHANGED <<i, runs, mapped, opened, block, lock, ack, history>>

WaitForAck ==
    /\ ack
    /\ Round("writer", "ack")
    /\ ack' = FALSE
    /\ UNCHANGED <<runs, mapped, opened, block, lock, ready, history>>

\* UnmapViewOfFile, and CloseHandle for the section and then for the rest.
CloseSection(r) ==
    /\ Goes(r, "close", "closing")
    /\ mapped' = mapped \ {r}
    /\ UNCHANGED <<i, runs, opened, block, lock, ready, ack, history>>

CloseObjects(r) ==
    /\ Goes(r, "closing", "ended")
    /\ opened' = opened \ {r}
    /\ UNCHANGED <<i, runs, mapped, block, lock, ready, ack, history>>

\* A user kills the process: its handles are closed and its mutex is abandoned.
Kill(r) ==
    /\ MayKill
    /\ pc[r] # "ended"
    /\ pc' = [pc EXCEPT ![r] = "ended"]
    /\ mapped' = mapped \ {r}
    /\ opened' = opened \ {r}
    /\ lock' = IF lock = r THEN Nobody ELSE lock
    /\ killed' = TRUE
    /\ cut' = (cut \/ pc[r] = "text")
    /\ UNCHANGED <<i, runs, block, ready, ack, written, printed>>

WriterStep == WriteSequence \/ WriteText \/ SetReady \/ WaitForAck
ReaderStep == WaitForReady \/ PrintBlock \/ SetAck
CommonStep(r) ==
    \/ MapSection(r) \/ OpenObjects(r) \/ WaitForLock(r) \/ ReleaseMutex(r)
    \/ CloseSection(r) \/ CloseObjects(r)

DemoNext ==
    \/ WriterStep \/ ReaderStep
    \/ \E r \in Role : CommonStep(r) \/ Run(r) \/ Kill(r)

-------------------------------------------------------------------------------

\* The text of every message is printed once, in the order they were written, and the
\* writer is at most one ahead, over all the runs of both programs; this takes that no
\* process was killed.  If some were, a reader still never prints the number of one
\* message with the text of another, unless a writer was killed between the two.
MessagesArriveOnce ==
    /\ ~killed => LET texts == [n \in 1..Len(printed) |-> printed[n].text] IN
                  /\ Len(texts) \in {Len(written) - 1, Len(written)}
                  /\ texts = SubSeq(written, 1, Len(texts))
    /\ ~cut => \A n \in 1..Len(printed) : Whole(printed[n])

\* Two programs that were run as often as each other come to their ends.
DemoEnds ==
    <>[](~killed /\ runs["writer"] = runs["reader"]) => <>[](\A r \in Role : pc[r] = "ended")

===============================================================================
