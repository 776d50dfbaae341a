--------------------------- MODULE ActivityLogProofs ---------------------------
(* The audit trail loses no entry, keeps the order of the calls that do not      *)
(* overlap and answers in full, for any number of processes and of entries.      *)
EXTENDS ActivityLog, SequenceTheorems, TLAPS

Piece == [entry : Nat, whole : BOOLEAN]
Line  == Seq(Piece) \ {<<>>}
Lines == Seq(Line)

Whole(e) == [entry |-> e, whole |-> TRUE]

\* Entry e ends a line of ls, and nothing will be appended to that line: en says
\* whether the last one has its newline.
Safe(e, ls, en) == \E i \in 1..Len(ls) : Last(ls[i]) = Whole(e) /\ (i = Len(ls) => en)

\* Entry e ends a line of ls.
Holds(e, ls) == \E i \in 1..Len(ls) : Last(ls[i]) = Whole(e)

\* The lines of ls that are entry e and nothing else.
On(e, ls) == {i \in 1..Len(ls) : ls[i] = <<Whole(e)>>}

\* No entry is on two lines of ls.
NoTwice(ls) == \A e \in Nat : \A i, j \in On(e, ls) : i = j

\* Answer a, if it is one, misses nothing of S and has no entry twice.
Complete(S, a) == a.kind = "entries" => S \subseteq ToSet(a.entries) /\ IsInjective(a.entries)

Place == {"idle", "stamped", "append", "write", "written", "found", "read", "parse"}
Kind  == {"none", "entries", "Timeout", "FileNotFound", "JsonException"}

Contents == [lines : Lines, ended : BOOLEAN]
Answers  == [kind : Kind, entries : Seq(Nat)]

TypeInv ==
    /\ fileExists \in BOOLEAN /\ ended \in BOOLEAN
    /\ lines \in Lines
    /\ pc \in [Process -> Place]
    /\ mine \in [Process -> Nat]
    /\ base \in [Process -> Contents]
    /\ copy \in [Process -> Lines]
    /\ answer \in [Process -> Answers]
    /\ stamps \in 0..MaxStamps
    /\ recorded \subseteq 1..stamps
    /\ earlier \in [Entry -> SUBSET Nat]
    /\ seen \in [Process -> SUBSET Nat]

\* The lock is held wherever the file is used, and the file a writer has opened is
\* the file it will write to.
LockInv ==
    /\ \A p \in Process : pc[p] \in {"append", "write", "written", "read"} => lock = p
    /\ \A p \in Process : pc[p] = "write" =>
          fileExists /\ base[p] = [lines |-> lines, ended |-> ended]
    /\ ~fileExists => lines = <<>>

\* What was recorded is safe, and so is what was written but has not returned.
KeptInv ==
    /\ \A e \in recorded : Safe(e, lines, ended)
    /\ \A p \in Process : pc[p] = "written" => Safe(mine[p], lines, ended)

Recording(p) == pc[p] \in {"stamped", "append", "write", "written"}

\* An entry in the making was stamped for one process only, and is not recorded.
StampInv ==
    /\ \A p \in Process : Recording(p) => mine[p] \in (1..stamps) \ recorded
    /\ \A p, q \in Process : Recording(p) /\ Recording(q) /\ p # q => mine[p] # mine[q]
    /\ \A f \in Entry : earlier[f] \subseteq recorded

\* An entry is on one line at most, and on none before it is written.
OnceInv ==
    /\ NoTwice(lines)
    /\ \A e \in Nat : e > stamps => On(e, lines) = {}
    /\ \A p \in Process :
          pc[p] \in {"stamped", "append", "write"} => On(mine[p], lines) = {}

\* The order of two entries, one recorded when the other was stamped.
OrderInv ==
    \A e, f \in Entry : e \in earlier[f] =>
        \A i \in On(e, lines), j \in On(f, lines) : i < j

\* What a reader had to see is in its copy, and in its answer.
ReadInv ==
    /\ \A p \in Process : pc[p] \in {"found", "read"} => seen[p] \subseteq recorded
    /\ \A p \in Process : pc[p] = "parse" =>
          (\A e \in seen[p] : Holds(e, copy[p])) /\ NoTwice(copy[p])
    /\ \A p \in Process : pc[p] \in {"found", "read", "parse"} => answer[p].kind # "entries"
    /\ \A p \in Process : Complete(seen[p], answer[p])

LogInv == TypeInv /\ LockInv /\ KeptInv /\ StampInv /\ OnceInv /\ OrderInv /\ ReadInv

-------------------------------------------------------------------------------
(* What an append makes of the lines *)

\* new is ls with piece x after it: one more line, or the last one longer.
Grown(ls, en, x, new) ==
    \/ /\ Len(new) = Len(ls) + 1
       /\ \A i \in 1..Len(ls) : new[i] = ls[i]
       /\ new[Len(ls) + 1] = <<x>>
    \/ /\ ~en
       /\ Len(new) = Len(ls) /\ Len(ls) \in 1..Len(ls)
       /\ \A i \in 1..Len(ls) : i # Len(ls) => new[i] = ls[i]
       /\ Len(new[Len(ls)]) # 1
       /\ Last(new[Len(ls)]) = x

\* An append leaves lines of that form.
LEMMA AppendedForm ==
  ASSUME NEW ls \in Lines, NEW en \in BOOLEAN, NEW x \in Piece,
         NEW new, new = Appended([lines |-> ls, ended |-> en], x)
  PROVE  new \in Lines /\ Grown(ls, en, x, new)
<1>1. ls \in Seq(Line) /\ Len(ls) \in Nat
  BY DEF Lines
<1>2. CASE en \/ ls = <<>>
  <2> DEFINE line == <<x>>
  <2>1. new = Append(ls, line)
    BY <1>2 DEF Appended
  <2>2. line \in Line
    BY DEF Line
  <2> HIDE DEF line
  <2>3. /\ Append(ls, line) \in Seq(Line)
        /\ Len(Append(ls, line)) = Len(ls) + 1
        /\ \A i \in 1..Len(ls) : Append(ls, line)[i] = ls[i]
        /\ Append(ls, line)[Len(ls) + 1] = line
    BY <1>1, <2>2, AppendProperties
  <2>4. /\ new \in Lines
        /\ Len(new) = Len(ls) + 1
        /\ \A i \in 1..Len(ls) : new[i] = ls[i]
        /\ new[Len(ls) + 1] = <<x>>
    BY <2>1, <2>3, Zenon DEF line, Lines
  <2> QED
    BY <2>4 DEF Grown
<1>3. CASE ~en /\ ls # <<>>
  <2> DEFINE n == Len(ls)
             longer == Append(ls[n], x)
  <2>1. n \in 1..n
    BY <1>1, <1>3, EmptySeq DEF Lines
  <2>2. ls[n] \in Line
    BY <2>1, ElementOfSeq DEF Lines
  <2>3. /\ longer \in Line
        /\ Len(longer) = Len(ls[n]) + 1
        /\ longer[Len(ls[n]) + 1] = x
    BY <2>2, AppendProperties DEF Line
  <2>4. Len(ls[n]) \in Nat \ {0}
    BY <2>2, EmptySeq DEF Line
  <2>5. new = [ls EXCEPT ![n] = longer]
    BY <1>3 DEF Appended
  <2> HIDE DEF longer, n
  <2>6. /\ new \in Lines
        /\ Len(new) = n
        /\ \A j \in 1..n : new[j] = IF j = n THEN longer ELSE ls[j]
    <3>1. longer \in Line /\ n \in 1..Len(ls)
      BY <2>1, <2>3 DEF n
    <3>2. /\ [ls EXCEPT ![n] = longer] \in Seq(Line)
          /\ Len([ls EXCEPT ![n] = longer]) = Len(ls)
          /\ \A j \in 1..Len(ls) :
                [ls EXCEPT ![n] = longer][j] = IF j = n THEN longer ELSE ls[j]
      BY <1>1, <3>1, ExceptSeq
    <3> QED
      BY <2>5, <3>2, Zenon DEF Lines, n
  <2>7. Last(new[n]) = x /\ Len(new[n]) # 1
    BY <2>1, <2>3, <2>4, <2>6 DEF Last
  <2> QED
    BY <1>3, <2>1, <2>6, <2>7 DEF Grown, n
<1> QED
  BY <1>2, <1>3

\* An append, cut short or not, leaves every safe entry safe, and makes its own one
\* safe if it is whole and has its newline.
LEMMA AppendedIsSafe ==
  ASSUME NEW ls \in Lines, NEW new \in Lines, NEW en, NEW x, NEW e,
         Grown(ls, en, x, new)
  PROVE  /\ Safe(e, ls, en) => Safe(e, new, TRUE) /\ Safe(e, new, FALSE)
         /\ x = Whole(e) => Safe(e, new, TRUE)
<1>1. Len(ls) \in Nat /\ Last(<<x>>) = x
  BY LenProperties DEF Lines, Last
<1>2. CASE /\ Len(new) = Len(ls) + 1
           /\ \A i \in 1..Len(ls) : new[i] = ls[i]
           /\ new[Len(ls) + 1] = <<x>>
  BY <1>1, <1>2 DEF Safe
<1>3. CASE /\ ~en
           /\ Len(new) = Len(ls) /\ Len(ls) \in 1..Len(ls)
           /\ \A i \in 1..Len(ls) : i # Len(ls) => new[i] = ls[i]
           /\ Len(new[Len(ls)]) # 1
           /\ Last(new[Len(ls)]) = x
  BY <1>1, <1>3 DEF Safe
<1> QED
  BY <1>2, <1>3 DEF Grown

\* It puts no other entry on a line, and its own one on a new line.
LEMMA AppendedLines ==
  ASSUME NEW ls \in Lines, NEW new \in Lines, NEW en, NEW x, NEW e,
         Grown(ls, en, x, new)
  PROVE  /\ On(e, new) \subseteq On(e, ls) \cup {Len(ls) + 1}
         /\ x # Whole(e) => On(e, new) \subseteq On(e, ls)
<1> DEFINE w == Whole(e)
<1>1. /\ Len(ls) \in Nat
      /\ \A y : <<w>> = <<y>> => w = y
      /\ \A line : line = <<w>> => Len(line) = 1
  BY LenProperties DEF Lines
<1> HIDE DEF w
<1>2. CASE /\ Len(new) = Len(ls) + 1
           /\ \A i \in 1..Len(ls) : new[i] = ls[i]
           /\ new[Len(ls) + 1] = <<x>>
  BY <1>1, <1>2 DEF On, w
<1>3. CASE /\ ~en
           /\ Len(new) = Len(ls) /\ Len(ls) \in 1..Len(ls)
           /\ \A i \in 1..Len(ls) : i # Len(ls) => new[i] = ls[i]
           /\ Len(new[Len(ls)]) # 1
           /\ Last(new[Len(ls)]) = x
  <2>1. new[Len(ls)] # <<w>>
    BY <1>1, <1>3, Zenon
  <2> QED
    BY <1>1, <1>3, <2>1 DEF On, w
<1> QED
  BY <1>2, <1>3 DEF Grown

-------------------------------------------------------------------------------
(* Each step of a call, and the reset *)

\* The new timestamp is on no line yet and comes after all that is recorded.
LEMMA StampKeeps ==
  ASSUME LogInv, NEW p \in Process, Stamp(p)
  PROVE  LogInv'
<1> USE DEF LogInv, Stamp, Goto, file, locals, history, Recording
<1>Type. TypeInv'
  <2>1. stamps + 1 \in Entry /\ stamps' \in 0..MaxStamps
    BY ConstantsAssumption DEF TypeInv, Entry
  <2>2. recorded' \subseteq 1..stamps'
    BY ConstantsAssumption DEF TypeInv
  <2>3. earlier' \in [Entry -> SUBSET Nat]
    BY ConstantsAssumption, <2>1 DEF TypeInv
  <2> QED
    BY ConstantsAssumption, <2>1, <2>2, <2>3 DEF TypeInv, Place, Kind
<1>Lock. LockInv'
  BY ConstantsAssumption DEF TypeInv, LockInv
<1>Kept. KeptInv'
  BY ConstantsAssumption DEF TypeInv, LockInv, KeptInv
<1>Stamp. StampInv'
  BY ConstantsAssumption DEF TypeInv, LockInv, StampInv
<1>Once. OnceInv'
  BY ConstantsAssumption DEF TypeInv, StampInv, OnceInv
<1>Order. OrderInv'
  BY ConstantsAssumption DEF TypeInv, OrderInv, OnceInv, StampInv
<1>Read. ReadInv'
  BY ConstantsAssumption DEF TypeInv, LockInv, KeptInv, OnceInv, ReadInv
<1> QED
  BY <1>Type, <1>Lock, <1>Kept, <1>Stamp, <1>Once, <1>Order, <1>Read

\* The lock goes to a writer only when no process has it.
LEMMA AcquireAppendKeeps ==
  ASSUME LogInv, NEW p \in Process, Acquire(p, "stamped", "append")
  PROVE  LogInv'
<1> USE DEF LogInv, Acquire, Goto, file, locals, history, Recording
<1>Type. TypeInv'
  BY ConstantsAssumption DEF TypeInv, Place, Kind
<1>Lock. LockInv'
  BY ConstantsAssumption DEF TypeInv, LockInv
<1>Kept. KeptInv'
  BY ConstantsAssumption DEF TypeInv, LockInv, KeptInv
<1>Stamp. StampInv'
  BY ConstantsAssumption DEF TypeInv, LockInv, StampInv
<1>Once. OnceInv'
  BY ConstantsAssumption DEF TypeInv, StampInv, OnceInv
<1>Order. OrderInv'
  BY ConstantsAssumption DEF TypeInv, OrderInv, OnceInv, StampInv
<1>Read. ReadInv'
  BY ConstantsAssumption DEF TypeInv, LockInv, KeptInv, OnceInv, ReadInv
<1> QED
  BY <1>Type, <1>Lock, <1>Kept, <1>Stamp, <1>Once, <1>Order, <1>Read

\* And so it does to a reader.
LEMMA AcquireReadKeeps ==
  ASSUME LogInv, NEW p \in Process, Acquire(p, "found", "read")
  PROVE  LogInv'
<1> USE DEF LogInv, Acquire, Goto, file, locals, history, Recording
<1>Type. TypeInv'
  BY ConstantsAssumption DEF TypeInv, Place, Kind
<1>Lock. LockInv'
  BY ConstantsAssumption DEF TypeInv, LockInv
<1>Kept. KeptInv'
  BY ConstantsAssumption DEF TypeInv, LockInv, KeptInv
<1>Stamp. StampInv'
  BY ConstantsAssumption DEF TypeInv, LockInv, StampInv
<1>Once. OnceInv'
  BY ConstantsAssumption DEF TypeInv, StampInv, OnceInv
<1>Order. OrderInv'
  BY ConstantsAssumption DEF TypeInv, OrderInv, OnceInv, StampInv
<1>Read. ReadInv'
  BY ConstantsAssumption DEF TypeInv, LockInv, KeptInv, OnceInv, ReadInv
<1> QED
  BY <1>Type, <1>Lock, <1>Kept, <1>Stamp, <1>Once, <1>Order, <1>Read

\* What a writer finds when it opens the file is the file.
LEMMA OpenAppendKeeps ==
  ASSUME LogInv, NEW p \in Process, OpenAppend(p)
  PROVE  LogInv'
<1> USE DEF LogInv, OpenAppend, Goto, file, locals, history, Recording
<1>Type. TypeInv'
  BY ConstantsAssumption DEF TypeInv, Place, Contents
<1>Lock. LockInv'
  BY ConstantsAssumption DEF TypeInv, LockInv
<1>Kept. KeptInv'
  BY ConstantsAssumption DEF TypeInv, LockInv, KeptInv
<1>Stamp. StampInv'
  BY ConstantsAssumption DEF TypeInv, LockInv, StampInv
<1>Once. OnceInv'
  BY ConstantsAssumption DEF TypeInv, StampInv, OnceInv
<1>Order. OrderInv'
  BY ConstantsAssumption DEF TypeInv, OrderInv, OnceInv, StampInv
<1>Read. ReadInv'
  BY ConstantsAssumption DEF TypeInv, LockInv, KeptInv, OnceInv, ReadInv
<1> QED
  BY <1>Type, <1>Lock, <1>Kept, <1>Stamp, <1>Once, <1>Order, <1>Read

\* An entry is recorded once it is safe.
LEMMA RecordedKeeps ==
  ASSUME LogInv, NEW p \in Process, Recorded(p)
  PROVE  LogInv'
<1> USE DEF LogInv, Recorded, Free, Goto, file, locals, history, Recording
<1>Type. TypeInv'
  BY ConstantsAssumption DEF TypeInv, StampInv, Place, Kind
<1>Lock. LockInv'
  BY ConstantsAssumption DEF TypeInv, LockInv
<1>Kept. KeptInv'
  BY ConstantsAssumption DEF TypeInv, LockInv, KeptInv
<1>Stamp. StampInv'
  BY ConstantsAssumption DEF TypeInv, LockInv, StampInv
<1>Once. OnceInv'
  BY ConstantsAssumption DEF TypeInv, StampInv, OnceInv
<1>Order. OrderInv'
  BY ConstantsAssumption DEF TypeInv, OrderInv, OnceInv, StampInv
<1>Read. ReadInv'
  BY ConstantsAssumption DEF TypeInv, LockInv, KeptInv, OnceInv, ReadInv
<1> QED
  BY <1>Type, <1>Lock, <1>Kept, <1>Stamp, <1>Once, <1>Order, <1>Read

\* A process that dies has recorded nothing and answers nothing, and its lock is free.
LEMMA CrashKeeps ==
  ASSUME LogInv, NEW p \in Process, Crash(p)
  PROVE  LogInv'
<1> USE DEF LogInv, Crash, Free, Goto, file, locals, history, Recording
<1>1. <<>> \in Lines
  BY EmptySeq DEF Lines
<1>Type. TypeInv'
  BY ConstantsAssumption, <1>1 DEF TypeInv, Place
<1>Lock. LockInv'
  BY ConstantsAssumption DEF TypeInv, LockInv
<1>Kept. KeptInv'
  BY ConstantsAssumption DEF TypeInv, LockInv, KeptInv
<1>Stamp. StampInv'
  BY ConstantsAssumption DEF TypeInv, LockInv, StampInv
<1>Once. OnceInv'
  BY ConstantsAssumption DEF TypeInv, StampInv, OnceInv
<1>Order. OrderInv'
  BY ConstantsAssumption DEF TypeInv, OrderInv, OnceInv, StampInv
<1>Read. ReadInv'
  BY ConstantsAssumption DEF TypeInv, LockInv, KeptInv, OnceInv, ReadInv
<1> QED
  BY <1>Type, <1>Lock, <1>Kept, <1>Stamp, <1>Once, <1>Order, <1>Read

\* A call that times out has written nothing and answers nothing.
LEMMA TimeoutKeeps ==
  ASSUME LogInv, NEW p \in Process, Timeout(p)
  PROVE  LogInv'
<1> USE DEF LogInv, Timeout, Goto, file, locals, history, Recording
<1>1. Thrown("Timeout") \in Answers
  BY EmptySeq DEF Thrown, Answers, Kind
<1>2. Thrown("Timeout").kind # "entries" /\ \A S : Complete(S, Thrown("Timeout"))
  BY DEF Thrown, Complete
<1>Type. TypeInv'
  BY ConstantsAssumption, <1>1 DEF TypeInv, Place
<1>Lock. LockInv'
  BY ConstantsAssumption DEF TypeInv, LockInv
<1>Kept. KeptInv'
  BY ConstantsAssumption DEF TypeInv, LockInv, KeptInv
<1>Stamp. StampInv'
  BY ConstantsAssumption DEF TypeInv, LockInv, StampInv
<1>Once. OnceInv'
  BY ConstantsAssumption DEF TypeInv, StampInv, OnceInv
<1>Order. OrderInv'
  BY ConstantsAssumption DEF TypeInv, OrderInv, OnceInv, StampInv
<1>Read. ReadInv'
  BY <1>2 DEF TypeInv, ReadInv
<1> QED
  BY <1>Type, <1>Lock, <1>Kept, <1>Stamp, <1>Once, <1>Order, <1>Read

\* Where there is no file nothing is recorded, so an empty answer is complete.
LEMMA LookForFileKeeps ==
  ASSUME LogInv, NEW p \in Process, LookForFile(p)
  PROVE  LogInv'
<1> USE DEF LogInv, LookForFile, Goto, file, locals, history, Recording
<1>1. Answered(<<>>) \in Answers /\ NoAnswer \in Answers
  BY EmptySeq DEF Answered, NoAnswer, Thrown, Answers, Kind
<1>2. NoAnswer.kind # "entries" /\ \A S : Complete(S, NoAnswer)
  BY DEF NoAnswer, Thrown, Complete
<1>Type. TypeInv'
  BY ConstantsAssumption, <1>1 DEF TypeInv, Place
<1>Lock. LockInv'
  BY ConstantsAssumption DEF TypeInv, LockInv
<1>Kept. KeptInv'
  BY ConstantsAssumption DEF TypeInv, LockInv, KeptInv
<1>Stamp. StampInv'
  BY ConstantsAssumption DEF TypeInv, LockInv, StampInv
<1>Once. OnceInv'
  BY ConstantsAssumption DEF TypeInv, StampInv, OnceInv
<1>Order. OrderInv'
  BY ConstantsAssumption DEF TypeInv, OrderInv, OnceInv, StampInv
<1>Read. ReadInv'
  <2>1. CASE fileExists
    BY <1>2, <2>1 DEF TypeInv, ReadInv
  <2>2. CASE ~fileExists
    <3>1. recorded = {}
      BY <2>2 DEF LockInv, KeptInv, Safe
    <3>2. Complete({}, Answered(<<>>))
      BY DEF Complete, Answered, ToSet, IsInjective
    <3>3. /\ pc'[p] = "idle" /\ seen'[p] = {} /\ answer'[p] = Answered(<<>>)
          /\ \A q \in Process : q # p =>
                pc'[q] = pc[q] /\ answer'[q] = answer[q] /\ seen'[q] = seen[q]
          /\ UNCHANGED <<copy, recorded>>
      BY <2>2, <3>1 DEF TypeInv
    <3> QED
      BY <3>2, <3>3 DEF ReadInv
  <2> QED
    BY <2>1, <2>2
<1> QED
  BY <1>Type, <1>Lock, <1>Kept, <1>Stamp, <1>Once, <1>Order, <1>Read

\* The copy a reader takes has all that was recorded when it was called.
LEMMA ReadLinesKeeps ==
  ASSUME LogInv, NEW p \in Process, ReadLines(p)
  PROVE  LogInv'
<1> USE DEF LogInv
<1>1. UNCHANGED <<fileExists, lines, ended, mine, base, stamps, recorded, earlier, seen>>
  BY DEF ReadLines, file, history
<1>2. pc[p] = "read" /\ lock = p /\ lock' = NoProcess
  BY DEF TypeInv, LockInv, ReadLines, Free
<1> DEFINE refusal == Thrown("FileNotFound")
<1>4. refusal \in Answers
  BY EmptySeq DEF Thrown, Kind, Answers
<1>5. refusal.kind # "entries" /\ \A S : Complete(S, refusal)
  BY DEF Thrown, Complete
<1>3. \/ /\ copy' = [copy EXCEPT ![p] = lines]
         /\ pc' = [pc EXCEPT ![p] = "parse"]
         /\ answer' = answer
      \/ /\ copy' = copy
         /\ pc' = [pc EXCEPT ![p] = "idle"]
         /\ answer' = [answer EXCEPT ![p] = refusal]
  BY DEF ReadLines, Goto, refusal
<1> HIDE DEF refusal
<1>6. pc'[p] \in {"parse", "idle"} /\ \A q \in Process : q # p => pc'[q] = pc[q]
  BY <1>3 DEF TypeInv
<1>Type. TypeInv'
  BY <1>1, <1>3, <1>4 DEF TypeInv, Place
<1>Lock. LockInv'
  BY <1>1, <1>2, <1>6 DEF LockInv
<1>Kept. KeptInv'
  BY <1>1, <1>2, <1>6 DEF KeptInv
<1>Stamp. StampInv'
  BY <1>1, <1>6 DEF StampInv, Recording
<1>Once. OnceInv'
  BY <1>1, <1>6 DEF OnceInv
<1>Order. OrderInv'
  BY <1>1 DEF OrderInv
<1>Read. ReadInv'
  <2>1. CASE copy' = [copy EXCEPT ![p] = lines] /\ pc' = [pc EXCEPT ![p] = "parse"] /\ answer' = answer
    <3>1. \A e \in seen[p] : Holds(e, lines)
      BY <1>2 DEF KeptInv, ReadInv, Safe, Holds
    <3>2. NoTwice(lines)
      BY DEF OnceInv
    <3>3. copy'[p] = lines /\ \A q \in Process : q # p => copy'[q] = copy[q]
      BY <2>1 DEF TypeInv
    <3> QED
      BY <1>1, <1>2, <1>6, <2>1, <3>1, <3>2, <3>3 DEF ReadInv
  <2>2. CASE copy' = copy /\ pc' = [pc EXCEPT ![p] = "idle"] /\ answer' = [answer EXCEPT ![p] = refusal]
    BY <1>1, <1>5, <1>6, <2>2 DEF TypeInv, ReadInv
  <2> QED
    BY <1>3, <2>1, <2>2
<1> QED
  BY <1>Type, <1>Lock, <1>Kept, <1>Stamp, <1>Once, <1>Order, <1>Read

\* A user who deletes the directory takes the record of what was logged with it.
LEMMA ResetKeeps ==
  ASSUME LogInv, Reset
  PROVE  LogInv'
<1> USE DEF LogInv, Reset, locals, Recording
<1>0. \A p \in Process : pc[p] \notin {"append", "write", "written", "read"}
  BY ConstantsAssumption DEF LockInv
<1>1. Len(<<>>) = 0 /\ \A e : On(e, <<>>) = {}
  BY DEF On
<1>Type. TypeInv'
  BY ConstantsAssumption, EmptySeq DEF TypeInv, Lines, Entry
<1>Lock. LockInv'
  BY ConstantsAssumption, <1>0 DEF TypeInv, LockInv
<1>Kept. KeptInv'
  BY ConstantsAssumption, <1>0 DEF TypeInv, LockInv, KeptInv
<1>Stamp. StampInv'
  BY ConstantsAssumption DEF TypeInv, StampInv
<1>Once. OnceInv'
  BY <1>1 DEF TypeInv, OnceInv, NoTwice
<1>Order. OrderInv'
  BY DEF OrderInv
<1>Read. ReadInv'
  BY DEF TypeInv, ReadInv, Complete
<1> QED
  BY <1>Type, <1>Lock, <1>Kept, <1>Stamp, <1>Once, <1>Order, <1>Read

\* The entries of the lines, if all of them parse, are what the copy holds.
LEMMA ParseKeeps ==
  ASSUME LogInv, NEW p \in Process, Parse(p)
  PROVE  LogInv'
<1> USE DEF LogInv
<1>1. UNCHANGED <<fileExists, lines, ended, lock, mine, base, stamps, recorded, earlier, seen>>
  BY DEF Parse, file, history
<1>2. /\ pc[p] = "parse"
      /\ answer' = [answer EXCEPT ![p] = ParsedLines(copy[p])]
      /\ copy' = [copy EXCEPT ![p] = <<>>]
      /\ pc' = [pc EXCEPT ![p] = "idle"]
  BY DEF Parse, Goto
<1>3. pc'[p] = "idle" /\ \A q \in Process : q # p => pc'[q] = pc[q]
  BY <1>2 DEF TypeInv
<1>4. ParsedLines(copy[p]) \in Answers /\ Complete(seen[p], ParsedLines(copy[p]))
  <2> DEFINE ls == copy[p]
             es == [i \in 1..Len(ls) |-> ls[i][1].entry]
  <2>1. ls \in Lines /\ Len(ls) \in Nat
    BY DEF TypeInv, Lines
  <2>2. \A i \in 1..Len(ls) : ls[i] \in Seq(Piece)
    BY <2>1, ElementOfSeq DEF Lines, Line
  <2>3. (\A e \in seen[p] : Holds(e, ls)) /\ NoTwice(ls)
    BY <1>2 DEF ReadInv
  <2> HIDE DEF ls
  <2>4. CASE \A i \in 1..Len(ls) : Parses(ls[i])
    <3>1. ParsedLines(ls) = [kind |-> "entries", entries |-> es]
      BY <2>4 DEF ParsedLines, Answered
    <3>2. \A i \in 1..Len(ls) : ls[i][1] \in Piece /\ Last(ls[i]) = ls[i][1] /\ ls[i] = <<ls[i][1]>>
      BY <2>2, <2>4 DEF Parses, Last
    <3>3. \A i \in 1..Len(ls) : es[i] \in Nat /\ ls[i][1] = Whole(es[i])
      BY <2>4, <3>2 DEF Parses, Whole, Piece
    <3>4. es \in Seq(Nat) /\ DOMAIN es = 1..Len(ls)
      BY <2>1, <3>3
    <3> HIDE DEF es
    <3>5. \A e \in seen[p] : \E i \in 1..Len(ls) : es[i] = e
      <4>1. \A a, b : Whole(a) = Whole(b) => a = b
        BY DEF Whole
      <4> QED
        BY <2>3, <3>2, <3>3, <4>1 DEF Holds
    <3>6. \A i \in 1..Len(ls) : i \in On(es[i], ls)
      BY <3>2, <3>3 DEF On
    <3>7. IsInjective(es)
      BY <2>3, <3>3, <3>4, <3>6 DEF IsInjective, NoTwice
    <3>8. seen[p] \subseteq ToSet(es)
      BY <3>4, <3>5 DEF ToSet
    <3> QED
      BY <3>1, <3>4, <3>7, <3>8 DEF ls, Kind, Answers, Complete
  <2>5. CASE ~\A i \in 1..Len(ls) : Parses(ls[i])
    BY <2>5, EmptySeq DEF ParsedLines, Thrown, Kind, ls, Answers, Complete
  <2> QED
    BY <2>4, <2>5
<1> HIDE DEF LogInv
<1>Type. TypeInv'
  BY <1>1, <1>2, <1>4, EmptySeq DEF LogInv, TypeInv, Place, Lines
<1>Lock. LockInv'
  BY <1>1, <1>3 DEF LogInv, LockInv
<1>Kept. KeptInv'
  BY <1>1, <1>3 DEF LogInv, KeptInv
<1>Stamp. StampInv'
  BY <1>1, <1>3 DEF LogInv, StampInv, Recording
<1>Once. OnceInv'
  BY <1>1, <1>3 DEF LogInv, OnceInv
<1>Order. OrderInv'
  BY <1>1 DEF LogInv, OrderInv
<1>Read. ReadInv'
  <2>1. \A q \in Process : q # p => copy'[q] = copy[q] /\ answer'[q] = answer[q]
    BY <1>2 DEF LogInv, TypeInv
  <2>2. answer'[p] = ParsedLines(copy[p])
    BY <1>2 DEF LogInv, TypeInv
  <2> QED
    BY <1>1, <1>3, <1>4, <2>1, <2>2 DEF LogInv, ReadInv
<1> QED
  BY <1>Type, <1>Lock, <1>Kept, <1>Stamp, <1>Once, <1>Order, <1>Read DEF LogInv

\* What p's piece does to the lines, whole or not.
LEMMA PieceKeeps ==
  ASSUME LogInv, NEW p \in Process, pc[p] = "write", NEW w \in BOOLEAN,
         NEW new, new = Appended(base[p], [entry |-> mine[p], whole |-> w])
  PROVE  /\ new \in Lines
         /\ \A e : Safe(e, lines, ended) => Safe(e, new, TRUE) /\ Safe(e, new, FALSE)
         /\ w => Safe(mine[p], new, TRUE)
         /\ NoTwice(new)
         /\ \A e \in Nat : e > stamps => On(e, new) = {}
         /\ \A q \in Process : q # p /\ pc[q] = "stamped" => On(mine[q], new) = {}
         /\ \A e, f \in Entry : e \in earlier[f] =>
               \A i \in On(e, new), j \in On(f, new) : i < j
<1> USE DEF LogInv
<1> DEFINE me == mine[p]
           x  == [entry |-> me, whole |-> w]
           n  == Len(lines)
<1>1. lines \in Lines /\ ended \in BOOLEAN /\ x \in Piece /\ n \in Nat
  BY LenProperties DEF TypeInv, Piece, Lines
<1>2. base[p] = [lines |-> lines, ended |-> ended]
  BY DEF LockInv
<1>3. new \in Lines /\ Grown(lines, ended, x, new)
  BY <1>1, <1>2, AppendedForm
<1> HIDE DEF x
<1>4. /\ \A e : Safe(e, lines, ended) => Safe(e, new, TRUE) /\ Safe(e, new, FALSE)
      /\ \A e : x = Whole(e) => Safe(e, new, TRUE)
      /\ \A e : On(e, new) \subseteq On(e, lines) \cup {n + 1}
      /\ \A e : x # Whole(e) => On(e, new) \subseteq On(e, lines)
  <2>1. \A e : Safe(e, lines, ended) => Safe(e, new, TRUE) /\ Safe(e, new, FALSE)
    BY <1>1, <1>3, AppendedIsSafe
  <2>2. \A e : x = Whole(e) => Safe(e, new, TRUE)
    BY <1>1, <1>3, AppendedIsSafe
  <2>3. \A e : On(e, new) \subseteq On(e, lines) \cup {n + 1}
    BY <1>1, <1>3, AppendedLines
  <2>4. \A e : x # Whole(e) => On(e, new) \subseteq On(e, lines)
    BY <1>1, <1>3, AppendedLines
  <2> QED
    BY <2>1, <2>2, <2>3, <2>4
<1>5. /\ \A e : x = Whole(e) => e = me
      /\ w => x = Whole(me)
  BY DEF Whole, x
<1>6. \A e : e # me => On(e, new) \subseteq On(e, lines)
  BY <1>4, <1>5
<1>7. On(me, lines) = {} /\ On(me, new) \subseteq {n + 1}
  BY <1>4 DEF OnceInv
<1>8. me \in (1..stamps) \ recorded /\ stamps \in Nat
  BY DEF StampInv, Recording, TypeInv
<1>9. NoTwice(new)
  BY <1>6, <1>7 DEF OnceInv, NoTwice
<1>10. \A e \in Nat : e > stamps => On(e, new) = {}
  BY <1>6, <1>8 DEF OnceInv
<1>11. ASSUME NEW q \in Process, q # p, pc[q] = "stamped"
       PROVE  On(mine[q], new) = {}
  <2>1. mine[q] # me /\ On(mine[q], lines) = {}
    BY <1>11 DEF StampInv, Recording, OnceInv
  <2> QED
    BY <1>6, <2>1
<1>12. ASSUME NEW e \in Entry, NEW f \in Entry, e \in earlier[f],
              NEW i \in On(e, new), NEW j \in On(f, new)
       PROVE  i < j
  <2>1. e # me /\ i \in On(e, lines)
    BY <1>6, <1>8, <1>12 DEF StampInv
  <2>2. CASE f = me
    BY <1>1, <1>7, <2>1, <2>2 DEF On
  <2>3. CASE f # me
    BY <1>6, <1>12, <2>1, <2>3 DEF OrderInv
  <2> QED
    BY <2>2, <2>3
<1> QED
  BY <1>3, <1>4, <1>5, <1>9, <1>10, <1>11, <1>12

\* A whole write makes the entry safe.
LEMMA WriteKeeps ==
  ASSUME LogInv, NEW p \in Process, Write(p)
  PROVE  LogInv'
<1> USE DEF LogInv
<1>1. /\ UNCHANGED <<fileExists, lock, mine, base, copy, answer, stamps, recorded, earlier, seen>>
      /\ ended' = TRUE /\ pc[p] = "write" /\ pc' = [pc EXCEPT ![p] = "written"]
      /\ lines' = Appended(base[p], [entry |-> mine[p], whole |-> TRUE])
  BY DEF Write, Written, Goto, locals, history
<1>2. pc'[p] = "written" /\ \A q \in Process : q # p => pc'[q] = pc[q] /\ pc[q] \notin {"append", "write", "written"}
  BY <1>1 DEF TypeInv, LockInv
<1>3. /\ lines' \in Lines
      /\ \A e : Safe(e, lines, ended) => Safe(e, lines', TRUE)
      /\ Safe(mine[p], lines', TRUE)
      /\ NoTwice(lines')
      /\ \A e \in Nat : e > stamps => On(e, lines') = {}
      /\ \A q \in Process : q # p /\ pc[q] = "stamped" => On(mine[q], lines') = {}
      /\ \A e, f \in Entry : e \in earlier[f] =>
            \A i \in On(e, lines'), j \in On(f, lines') : i < j
  BY <1>1, PieceKeeps
<1>Type. TypeInv'
  BY <1>1, <1>3 DEF TypeInv, Place
<1>Lock. LockInv'
  BY <1>1, <1>2 DEF LockInv
<1>Kept. KeptInv'
  BY <1>1, <1>2, <1>3 DEF KeptInv
<1>Stamp. StampInv'
  BY <1>1, <1>2 DEF StampInv, Recording
<1>Once. OnceInv'
  BY <1>1, <1>2, <1>3 DEF OnceInv
<1>Order. OrderInv'
  BY <1>1, <1>3 DEF OrderInv
<1>Read. ReadInv'
  BY <1>1, <1>2 DEF ReadInv
<1> QED
  BY <1>Type, <1>Lock, <1>Kept, <1>Stamp, <1>Once, <1>Order, <1>Read

\* A write that fails keeps what the file had.
LEMMA WriteFailsKeeps ==
  ASSUME LogInv, NEW p \in Process, WriteFails(p)
  PROVE  LogInv'
<1> USE DEF LogInv
<1>1. /\ UNCHANGED <<fileExists, mine, base, copy, answer, stamps, recorded, earlier, seen>>
      /\ pc[p] = "write" /\ pc' = [pc EXCEPT ![p] = "idle"]
      /\ lock = p /\ lock' = NoProcess
  BY DEF WriteFails, Free, Goto, locals, history, LockInv
<1>2. pc'[p] = "idle" /\ \A q \in Process : q # p =>
          pc'[q] = pc[q] /\ pc[q] \notin {"append", "write", "written", "read"}
  BY <1>1 DEF TypeInv, LockInv
<1>3. /\ lines' \in Lines /\ ended' \in BOOLEAN
      /\ \A e : Safe(e, lines, ended) => Safe(e, lines', ended')
      /\ NoTwice(lines')
      /\ \A e \in Nat : e > stamps => On(e, lines') = {}
      /\ \A q \in Process : q # p /\ pc[q] = "stamped" => On(mine[q], lines') = {}
      /\ \A e, f \in Entry : e \in earlier[f] =>
            \A i \in On(e, lines'), j \in On(f, lines') : i < j
  <2>1. CASE UNCHANGED <<lines, ended>>
    BY <2>1 DEF TypeInv, OnceInv, OrderInv
  <2>2. ASSUME NEW w \in BOOLEAN, ended' = FALSE,
               lines' = Appended(base[p], [entry |-> mine[p], whole |-> w])
        PROVE  <1>3!:
    BY <1>1, <2>2, PieceKeeps
  <2> QED
    BY <2>1, <2>2 DEF WriteFails
<1>Type. TypeInv'
  BY <1>1, <1>3, ConstantsAssumption DEF TypeInv, Place
<1>Lock. LockInv'
  BY <1>1, <1>2 DEF LockInv
<1>Kept. KeptInv'
  BY <1>1, <1>2, <1>3 DEF KeptInv
<1>Stamp. StampInv'
  BY <1>1, <1>2 DEF StampInv, Recording
<1>Once. OnceInv'
  BY <1>1, <1>2, <1>3 DEF OnceInv
<1>Order. OrderInv'
  BY <1>1, <1>3 DEF OrderInv
<1>Read. ReadInv'
  BY <1>1, <1>2 DEF ReadInv
<1> QED
  BY <1>Type, <1>Lock, <1>Kept, <1>Stamp, <1>Once, <1>Order, <1>Read

-------------------------------------------------------------------------------

\* Initially the log is empty and nothing is recorded.
LEMMA LogInit == Init => LogInv
<1> SUFFICES ASSUME Init PROVE LogInv
  OBVIOUS
<1> USE ConstantsAssumption DEF Init
<1>1. <<>> \in Lines /\ Len(<<>>) = 0 /\ \A e : On(e, <<>>) = {}
  BY EmptySeq DEF Lines, On
<1>2. NoBase \in Contents /\ NoAnswer \in Answers
  BY <1>1, EmptySeq DEF NoBase, Contents, NoAnswer, Thrown, Answers, Kind
<1>3. \A S : Complete(S, NoAnswer)
  BY DEF NoAnswer, Thrown, Complete
<1>Type. TypeInv
  <2>1. stamps \in 0..MaxStamps /\ recorded \subseteq 1..stamps
    OBVIOUS
  <2>2. pc \in [Process -> Place] /\ mine \in [Process -> Nat]
    BY DEF Place
  <2>3. base \in [Process -> Contents] /\ answer \in [Process -> Answers]
    BY <1>2
  <2>4. lines \in Lines /\ copy \in [Process -> Lines]
    BY <1>1
  <2> QED
    BY <2>1, <2>2, <2>3, <2>4 DEF TypeInv
<1>Rest. LockInv /\ KeptInv /\ StampInv /\ OrderInv
  BY DEF LockInv, KeptInv, StampInv, OrderInv, Recording, Entry
<1>Once. OnceInv
  BY <1>1 DEF OnceInv, NoTwice
<1>Read. ReadInv
  BY <1>3 DEF ReadInv
<1> QED
  BY <1>Type, <1>Rest, <1>Once, <1>Read DEF LogInv

\* Every step of the system keeps it.
LEMMA LogNext == LogInv /\ [Next]_vars => LogInv'
<1> SUFFICES ASSUME LogInv, [Next]_vars PROVE LogInv'
  OBVIOUS
<1>1. ASSUME NEW p \in Process, RecordStep(p) PROVE LogInv'
  BY <1>1, StampKeeps, AcquireAppendKeeps, OpenAppendKeeps, WriteKeeps, WriteFailsKeeps,
     RecordedKeeps DEF RecordStep
<1>2. ASSUME NEW p \in Process, ReadStep(p) PROVE LogInv'
  BY <1>2, LookForFileKeeps, AcquireReadKeeps, ReadLinesKeeps, ParseKeeps DEF ReadStep
<1>3. CASE UNCHANGED vars
  BY <1>3 DEF vars, file, locals, history, LogInv, TypeInv, LockInv, KeptInv, StampInv,
     Recording, OnceInv, OrderInv, ReadInv
<1> QED
  BY <1>1, <1>2, <1>3, TimeoutKeeps, CrashKeeps, ResetKeeps DEF Next

\* The invariant holds throughout.
LEMMA LogInvHolds == Spec => []LogInv
  BY LogInit, LogNext, PTL DEF Spec

\* An entry whose Record returned ends a line of the log ever after, whatever other
\* processes append and however their appends fail (Record, AppendAllText).
THEOREM RecordedIsKeptHolds == Spec => []RecordedIsKept
<1>1. LogInv => RecordedIsKept
  BY DEF LogInv, KeptInv, Safe, RecordedIsKept, Whole
<1> QED
  BY <1>1, LogInvHolds, PTL

\* Of two calls of Record that do not overlap, the one made first is logged first,
\* although the timestamp is taken before the lock.
THEOREM NonOverlappingInOrderHolds == Spec => []NonOverlappingInOrder
<1>1. LogInv => NonOverlappingInOrder
  BY DEF LogInv, OrderInv, On, LinesOf, NonOverlappingInOrder, Whole
<1> QED
  BY <1>1, LogInvHolds, PTL

\* ReadAll, when it answers, misses nothing that was recorded before it was called and
\* repeats nothing, although it looks for the file before it takes the lock.
THEOREM AnswerIsCompleteHolds == Spec => []AnswerIsComplete
<1>1. LogInv => AnswerIsComplete
  BY DEF LogInv, ReadInv, Complete, AnswerIsComplete
<1> QED
  BY <1>1, LogInvHolds, PTL
================================================================================
