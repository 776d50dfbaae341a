---------------------------- MODULE PracticeRunner ----------------------------
(* practice.py in several terminals at once: start makes a folder for an attempt and   *)
(* writes a sheet and a timer log into it; random counts the folders of every case to  *)
(* suggest one.  A command is at its next call; Ctrl-C may come at any of them.         *)
EXTENDS Integers, Sequences, SequencesExt, FiniteSets, FiniteSetsExt

CONSTANTS
    Terminals,
    Cases,       \* the ids of the cases that are or come to be in prompts/; an id is the sequence
                 \* of its characters
    Added,       \* the numbers of those that are added while the commands are in use
    Matching,    \* Matching[p]: the numbers of the cases whose id starts with p
    Families,    \* the listings of ids, of a family or of all, that random may choose from
    CaseFiles,   \* texts of a case, each a sequence of "## The prompt", "## " and "" (any
                 \* other heading of the second level, and any other line)
    MaxCommands, \* bound: commands start and random
    MaxDate      \* bound: the days are 0..MaxDate

RunnerAssumption ==
    /\ Cases # <<>> /\ Cases \in Seq(Range(Cases))
    /\ \A c \in Range(Cases) : c # <<>> /\ c \in Seq(Range(c))
    /\ \A p \in DOMAIN Matching : Matching[p] \subseteq DOMAIN Cases
    /\ Added \subseteq DOMAIN Cases
    /\ Families \subseteq Seq(Range(Cases))
    /\ CaseFiles \subseteq Seq({"## The prompt", "## ", ""})
    /\ {MaxCommands, MaxDate} \subseteq Nat

VARIABLES
    prompts,   \* prompts/: the numbers of the cases whose file is there
    attempts,  \* attempts/: the folders by date and name, with their sheet and log, and which
               \* attempt [date, case, n] each was made for (history)
    today,
    at,        \* at[t]: the call the command of terminal t is at, "prompt" if none runs
    run,       \* run[t]: number of its command, among those of all terminals
    dir,       \* dir[t]: the attempt [date, case, n] whose folder it made, or will try to make
    listed,    \* listed[t]: the cases random counts
    counts,    \* counts[t]: the counts random has read: a first sequence, then a second
    made       \* history: made[c] folders were made for case c

runnerVars == <<prompts, attempts, today, at, run, dir, listed, counts, made>>

NoAttempt   == [date |-> 0, case |-> Cases[1], n |-> 0]
Empty(a, r) == [of |-> a, by |-> r, sheet |-> 0, log |-> 0]

RunnerInit ==
    /\ prompts = DOMAIN Cases \ Added
    /\ attempts = [f \in {} |-> Empty(NoAttempt, 0)]
    /\ today = 0
    /\ at = [t \in Terminals |-> "prompt"]
    /\ run = [t \in Terminals |-> 0]
    /\ dir = [t \in Terminals |-> NoAttempt]
    /\ listed = [t \in Terminals |-> <<>>]
    /\ counts = [t \in Terminals |-> <<>>]
    /\ made = [c \in Range(Cases) |-> 0]

\* A line that extract_section reads, after what it found in those before.
Read(s, line, ln) ==
    IF s.broken THEN s
    ELSE IF line = "## The prompt" THEN [s EXCEPT !.inside = TRUE]
    ELSE IF s.inside /\ line = "## " THEN [s EXCEPT !.broken = TRUE]
    ELSE IF s.inside THEN [s EXCEPT !.out = @ \cup {ln}]
    ELSE s

\* extract_section of the prompt: the numbers of its lines.
extract_section(text) ==
    LET after[ln \in 0..Len(text)] ==
            IF ln = 0 THEN [out |-> {}, inside |-> FALSE, broken |-> FALSE]
                      ELSE Read(after[ln - 1], text[ln], ln)
    IN  after[Len(text)].out

\* A number as an f-string writes it.
decimal(n) ==
    LET digit == <<"0", "1", "2", "3", "4", "5", "6", "7", "8", "9">>
        width == Cardinality({w \in 0..n : 10 ^ w <= n})
    IN  [j \in 1..width |-> digit[((n \div 10 ^ (width - j)) % 10) + 1]]

\* The names new_attempt_dir tries, without the date, which is as long on every day.
Name(id, n) == IF n = 1 THEN id ELSE id \o <<"_">> \o decimal(n)

Folder(a) == [date |-> a.date, name |-> Name(a.case, a.n)]

Commands == Max({0} \cup {run[t] : t \in Terminals})

Goto(t, call) == at' = [at EXCEPT ![t] = call]

\* find_case: one case, or the command ends and says why.  Two files may carry one id.
find_case(prefix) ==
    LET matches == Matching[prefix] \cap prompts
    IN  IF Cardinality(matches) = 1 THEN matches ELSE {}

\* cmd_start, and the first lines of new_attempt_dir.  n = 1 is the name without a number.
Start(t) ==
    /\ at[t] = "prompt" /\ Commands < MaxCommands
    /\ \E prefix \in DOMAIN Matching : \E c \in find_case(prefix) :
          dir' = [dir EXCEPT ![t] = [date |-> today, case |-> Cases[c], n |-> 1]]
    /\ run' = [run EXCEPT ![t] = Commands + 1]
    /\ Goto(t, "exists")
    /\ UNCHANGED <<prompts, attempts, today, listed, counts, made>>

\* while d.exists(): the next number.
Probe(t) ==
    /\ at[t] = "exists"
    /\ IF Folder(dir[t]) \in DOMAIN attempts
       THEN dir' = [dir EXCEPT ![t].n = @ + 1] /\ UNCHANGED at
       ELSE Goto(t, "mkdir") /\ UNCHANGED dir
    /\ UNCHANGED <<prompts, attempts, today, run, listed, counts, made>>

\* The folders with that of an attempt made by a command.
With(a, r) ==
    [f \in DOMAIN attempts \cup {Folder(a)} |-> IF f = Folder(a) THEN Empty(a, r) ELSE attempts[f]]

\* Mutant of MakeDir: mkdir(exist_ok=True).
MakeDirAnyway(t) ==
    /\ at[t] = "mkdir"
    /\ attempts' = IF Folder(dir[t]) \in DOMAIN attempts THEN attempts ELSE With(dir[t], run[t])
    /\ made' = [made EXCEPT ![dir[t].case] = @ + 1]
    /\ Goto(t, "write_text")
    /\ UNCHANGED <<prompts, today, run, dir, listed, counts>>

\* d.mkdir(): FileExistsError, which ends the command, if another made it meanwhile.
MakeDir(t) ==
    /\ at[t] = "mkdir"
    /\ IF Folder(dir[t]) \in DOMAIN attempts
       THEN Goto(t, "prompt") /\ UNCHANGED <<attempts, made>>
       ELSE /\ attempts' = With(dir[t], run[t])
            /\ made' = [made EXCEPT ![dir[t].case] = @ + 1]
            /\ Goto(t, "write_text")
    /\ UNCHANGED <<prompts, today, run, dir, listed, counts>>

\* build_sheet and write_text; with --no-timer that is all.
WriteSheet(t) ==
    /\ at[t] = "write_text"
    /\ attempts' = [attempts EXCEPT ![Folder(dir[t])].sheet = run[t]]
    /\ Goto(t, "input") \/ Goto(t, "prompt")
    /\ UNCHANGED <<prompts, today, run, dir, listed, counts, made>>

\* Enter starts the clock; run_timer (PhaseTimer) writes its log when it is over or stopped.
Timed(t) ==
    /\ at[t] \in {"input", "run_timer"}
    /\ IF at[t] = "input" THEN Goto(t, "run_timer") /\ UNCHANGED attempts
       ELSE attempts' = [attempts EXCEPT ![Folder(dir[t])].log = run[t]] /\ Goto(t, "prompt")
    /\ UNCHANGED <<prompts, today, run, dir, listed, counts, made>>

\* The folders whose name, after the date, starts with an id.
attempt_count(id) == Cardinality({f \in DOMAIN attempts : IsPrefix(id, f.name)})

\* cmd_random with or without --family; with one that no case has it ends at once.
Random(t) ==
    /\ at[t] = "prompt" /\ Commands < MaxCommands
    /\ run' = [run EXCEPT ![t] = Commands + 1]
    /\ \E family \in Families \ {<<>>} :
          /\ Range(family) \subseteq {Cases[c] : c \in prompts}
          /\ listed' = [listed EXCEPT ![t] = family]
    /\ Goto(t, "attempt_count")
    /\ UNCHANGED <<prompts, attempts, today, dir, counts, made>>

\* cmd_random counts every case for its min, and every case again for its pool.
CountNext(t) ==
    /\ at[t] = "attempt_count" /\ Len(counts[t]) < 2 * Len(listed[t])
    /\ LET c == (listed[t] \o listed[t])[Len(counts[t]) + 1]
       IN  counts' = [counts EXCEPT ![t] = Append(@, attempt_count(c))]
    /\ UNCHANGED <<prompts, attempts, today, at, run, dir, listed, made>>

First(t)  == SubSeq(counts[t], 1, Len(listed[t]))
Second(t) == SubSeq(counts[t], Len(listed[t]) + 1, 2 * Len(listed[t]))
fewest(t) == Min(Range(First(t)))
pool(t)   == {c \in DOMAIN listed[t] : Second(t)[c] = fewest(t)}

\* The end of a command that may have counted.
Forget(t) ==
    /\ listed' = [listed EXCEPT ![t] = <<>>]
    /\ counts' = [counts EXCEPT ![t] = <<>>]
    /\ Goto(t, "prompt")
    /\ UNCHANGED <<prompts, attempts, today, run, dir, made>>

\* random.choice(pool), which fails on an empty pool, and the end of the command.
Suggest(t) == at[t] = "attempt_count" /\ Len(counts[t]) = 2 * Len(listed[t]) /\ Forget(t)

\* KeyboardInterrupt ends a command; run_timer catches the first (Timed), not a second.
CtrlC(t) == at[t] # "prompt" /\ Forget(t)

Midnight ==
    /\ today < MaxDate
    /\ today' = today + 1
    /\ UNCHANGED <<prompts, attempts, at, run, dir, listed, counts, made>>

\* The user adds a file, as prompts/README.md invites to.
AddCase ==
    /\ \E c \in Added \ prompts : prompts' = prompts \cup {c}
    /\ UNCHANGED <<attempts, today, at, run, dir, listed, counts, made>>

RunnerNext ==
    \/ \E t \in Terminals :
          \/ Start(t) \/ Probe(t) \/ MakeDir(t) \/ WriteSheet(t) \/ Timed(t)
          \/ Random(t) \/ CountNext(t) \/ Suggest(t) \/ CtrlC(t)
    \/ Midnight \/ AddCase

-------------------------------------------------------------------------------

\* Nothing is written into the folder of another attempt, though its name was found free
\* before it was made and may be a name another case comes to by its numbers; and the
\* numbers of a day and case have no gaps, so the search for a free one sees all of them
\* (new_attempt_dir, cmd_start).
FoldersAreOnesOwn ==
    \A f \in DOMAIN attempts :
        LET it == attempts[f]
        IN  /\ {it.sheet, it.log} \subseteq {0, it.by}
            /\ it.log # 0 => it.sheet # 0
            /\ it.of.n > 1 => Folder([it.of EXCEPT !.n = @ - 1]) \in DOMAIN attempts

\* No other case was attempted whose id begins this one or is begun by it.
Alone(id) ==
    \A other \in Range(Cases) \ {id} :
        IsPrefix(id, other) \/ IsPrefix(other, id) => made[other] = 0

\* Every attempt counts for its case, and for no other case unless one id begins the other:
\* then attempts of one, or its later attempts of a day, may count for both (attempt_count).
AttemptsAreCounted ==
    \A id \in Range(Cases) :
        /\ made[id] <= attempt_count(id)
        /\ Alone(id) => attempt_count(id) = made[id]

\* A case is suggested that had been attempted no more often, when last counted, than any
\* case of the family is now.  If attempts were started between the two counts there may be
\* none to suggest: then each has been attempted more often than the fewest (cmd_random).
SuggestionIsLeastAttempted ==
    \A t \in Terminals :
        (at[t] = "attempt_count" /\ Len(counts[t]) = 2 * Len(listed[t])) =>
            /\ \A c \in Range(listed[t]) : fewest(t) <= attempt_count(c)
            /\ pool(t) = {} => \A c \in Range(listed[t]) : attempt_count(c) > fewest(t)

\* The prompt that is printed and put on the sheet has no line from below another heading,
\* where the hidden notes are, and all lines of its own section if there is one such
\* (extract_section, parse_case).  No command changes a case file.
NotesStayHidden ==
    \A text \in CaseFiles :
        LET Heading(ln) == text[ln] \in {"## The prompt", "## "}
            Prompts     == {ln \in DOMAIN text : text[ln] = "## The prompt"}
            Under(ln)   == {h \in 1..ln : Heading(h) /\ \A k \in h + 1..ln : ~Heading(k)}
            Own         == {ln \in DOMAIN text : ~Heading(ln) /\ Under(ln) \cap Prompts # {}}
        IN  /\ extract_section(text) \subseteq Own
            /\ Cardinality(Prompts) = 1 => extract_section(text) = Own

\* Attempts of several terminals, some cut short, are kept apart, each is counted for its
\* case, and the counts lead to a case counted least.
AttemptsAreKept ==
    /\ FoldersAreOnesOwn
    /\ AttemptsAreCounted
    /\ SuggestionIsLeastAttempted
    /\ RunnerInit => NotesStayHidden

===============================================================================
