------------------------------ MODULE PacketParser ------------------------------
(* The two framing parsers of lecture 019, side by side on one serial line: a       *)
(* packet is HEADER, LEN, LEN data bytes and a checksum, and the line brings it     *)
(* among noise, corrupt packets and stray headers, in chunks of any size.           *)
EXTENDS Integers, SequencesExt, FiniteSetsExt

CONSTANTS
    Radix,    \* number of values of a byte, 256 in the code
    HEADER,   \* 0xAA
    MaxBytes  \* bound: length of the stream

Byte == 0..Radix - 1

ASSUME ConstantsAssumption == Radix \in Nat /\ HEADER \in Byte /\ MaxBytes \in Nat

Payload == BoundedSeq(Byte, Radix - 1)

VARIABLES
    stream,  \* every byte that was sent
    fed,     \* how many of them the parsers were given
    sm,      \* the StateMachineParser
    rs,      \* the ResyncingParser
    handed,  \* history: payloads each parser returned from get_all_packets
    sent,    \* history: payloads of the intact packets
    bads,    \* history: packets sent with a wrong checksum
    clean,   \* history: outside the packets no HEADER was sent
    tame     \* history: nor inside the corrupt ones

parsers == <<sm, rs, handed>>
line    == <<stream, sent, bads, clean, tame>>
vars    == <<stream, fed, sm, rs, handed, sent, bads, clean, tame>>

checksum(length, data) ==
    LET sum[i \in 0..Len(data)] == IF i = 0 THEN 0 ELSE sum[i - 1] + data[i]
    IN  (length + sum[Len(data)]) % Radix

make_packet(data) == <<HEADER, Len(data)>> \o data \o <<checksum(Len(data), data)>>

-------------------------------------------------------------------------------
(* StateMachineParser *)

NewStateMachine ==
    [state |-> "WAIT_HEADER", length |-> 0, data |-> <<>>, completed |-> <<>>, dropped |-> 0]

\* LEN = 0 goes straight to the checksum.
StepLength(p, byte) ==
    [p EXCEPT !.length = byte, !.data = <<>>,
              !.state = IF byte = 0 THEN "READ_CHECKSUM" ELSE "READ_DATA"]

\* Mutant of StepData: a HEADER among the data starts a packet.
StepDataRestarts(p, byte) ==
    IF byte = HEADER THEN [p EXCEPT !.state = "READ_LENGTH"]
    ELSE [p EXCEPT !.data = Append(@, byte),
                   !.state = IF Len(p.data) + 1 = p.length THEN "READ_CHECKSUM" ELSE @]

StepData(p, byte) ==
    [p EXCEPT !.data = Append(@, byte),
              !.state = IF Len(p.data) + 1 = p.length THEN "READ_CHECKSUM" ELSE @]

StepChecksum(p, byte) ==
    IF byte = checksum(p.length, p.data)
      THEN [p EXCEPT !.completed = Append(@, p.data), !.state = "WAIT_HEADER"]
      ELSE [p EXCEPT !.dropped = @ + 1, !.state = "WAIT_HEADER"]

Step(p, byte) ==
    CASE p.state = "WAIT_HEADER"   -> IF byte = HEADER THEN [p EXCEPT !.state = "READ_LENGTH"]
                                                       ELSE p
      [] p.state = "READ_LENGTH"   -> StepLength(p, byte)
      [] p.state = "READ_DATA"     -> StepData(p, byte)
      [] p.state = "READ_CHECKSUM" -> StepChecksum(p, byte)

\* feed(chunk), byte by byte
Stepped(p, chunk) ==
    LET after[i \in 0..Len(chunk)] == IF i = 0 THEN p ELSE Step(after[i - 1], chunk[i])
    IN  after[Len(chunk)]

-------------------------------------------------------------------------------
(* ResyncingParser *)

NewResyncing == [buf |-> <<>>, completed |-> <<>>, dropped |-> 0]

\* In buffer b, a frame that starts at q: its size, its data, is its checksum
\* right?
Total(b, q)  == b[q + 1] + 3
DataOf(b, q) == SubSeq(b, q + 2, q + 1 + b[q + 1])

Valid(b, q) == b[q + Total(b, q) - 1] = checksum(b[q + 1], DataOf(b, q))

\* LEN is there, and so are the bytes it announces.
Complete(b, q) == q < Len(b) /\ q + Total(b, q) - 1 <= Len(b)

\* Mutant of AfterFalseHeader: the whole corrupt packet is skipped.
AfterWholePacket(b, q) == q + Total(b, q)

\* Only the false header is dropped.
AfterFalseHeader(b, q) == q + 1

\* Where a packet may start from position p on.
Candidates(b, p) == {q \in p..Len(b) : b[q] = HEADER}

\* The loop of _parse from each position of the buffer: what it completes and
\* drops, and the bytes it keeps.
From(b) ==
    LET from[p \in 1..(Len(b) + 1)] ==
          IF Candidates(b, p) = {} THEN [buf |-> <<>>, completed |-> <<>>, dropped |-> 0]
          ELSE LET q == Min(Candidates(b, p)) IN
               IF ~Complete(b, q)
                 THEN [buf |-> SubSeq(b, q, Len(b)), completed |-> <<>>, dropped |-> 0]
               ELSE IF Valid(b, q)
                 THEN LET r == from[q + Total(b, q)]
                      IN [r EXCEPT !.completed = <<DataOf(b, q)>> \o @]
               ELSE LET r == from[AfterFalseHeader(b, q)] IN [r EXCEPT !.dropped = @ + 1]
    IN from

Parsed(b) == From(b)[1]

\* feed(chunk)
Resynced(p, chunk) ==
    LET r == Parsed(p.buf \o chunk)
    IN [buf |-> r.buf, completed |-> p.completed \o r.completed,
        dropped |-> p.dropped + r.dropped]

-------------------------------------------------------------------------------

Init ==
    /\ stream = <<>> /\ fed = 0
    /\ sm = NewStateMachine /\ rs = NewResyncing
    /\ handed = [sm |-> <<>>, rs |-> <<>>]
    /\ sent = <<>> /\ bads = 0 /\ clean = TRUE /\ tame = TRUE

Sends(bytes) ==
    /\ Len(stream) + Len(bytes) <= MaxBytes
    /\ stream' = stream \o bytes
    /\ UNCHANGED <<fed, parsers>>

SendPacket(data) ==
    /\ Sends(make_packet(data))
    /\ sent' = Append(sent, data)
    /\ UNCHANGED <<bads, clean, tame>>

\* A packet whose last byte is not what it should be.
SendCorrupt(data, chk) ==
    /\ chk # checksum(Len(data), data)
    /\ Sends(<<HEADER, Len(data)>> \o data \o <<chk>>)
    /\ bads' = bads + 1
    /\ tame' = (tame /\ HEADER \notin {Len(data), chk} /\ ~Contains(data, HEADER))
    /\ UNCHANGED <<sent, clean>>

\* A byte outside a packet.
SendNoise(byte) ==
    /\ Sends(<<byte>>)
    /\ clean' = (clean /\ byte # HEADER)
    /\ UNCHANGED <<sent, bads, tame>>

\* Both parsers are given the next n bytes.
Feed(n) ==
    /\ n <= Len(stream) - fed
    /\ LET chunk == SubSeq(stream, fed + 1, fed + n) IN
       /\ sm' = Stepped(sm, chunk)
       /\ rs' = Resynced(rs, chunk)
    /\ fed' = fed + n
    /\ UNCHANGED <<handed, line>>

get_all_packets ==
    /\ handed' = [sm |-> handed.sm \o sm.completed, rs |-> handed.rs \o rs.completed]
    /\ sm' = [sm EXCEPT !.completed = <<>>]
    /\ rs' = [rs EXCEPT !.completed = <<>>]
    /\ UNCHANGED <<fed, line>>

Next ==
    \/ \E data \in Payload : SendPacket(data)
    \/ \E data \in Payload, chk \in Byte : SendCorrupt(data, chk)
    \/ \E byte \in Byte : SendNoise(byte)
    \/ \E n \in 1..MaxBytes : Feed(n)
    \/ get_all_packets

Spec == Init /\ [][Next]_vars

-------------------------------------------------------------------------------

\* All the payloads a parser has returned or holds.
Got(p) == IF p = "sm" THEN handed.sm \o sm.completed ELSE handed.rs \o rs.completed

Exact(p, dropped) ==
    /\ IsPrefix(Got(p), sent)
    /\ fed = Len(stream) => Got(p) = sent /\ dropped = bads

\* On a line where only checksums go wrong, StateMachineParser returns the payloads
\* that were sent, in order, each once, however the stream was cut into chunks, and
\* counts the corrupt packets.  ResyncingParser does too, as long as no corrupt packet
\* holds a HEADER to resume from.
ParsersAreExact ==
    /\ clean => Exact("sm", sm.dropped)
    /\ clean /\ tame => Exact("rs", rs.dropped)

\* Frames of b that hold a packet, and the bytes they take.
Frames(b)   == {q \in 1..Len(b) : b[q] = HEADER /\ Complete(b, q) /\ Valid(b, q)}
Bytes(b, T) == UNION {q..(q + Total(b, q) - 1) : q \in T}

\* The i-th number of T.
Ith(T, i) == CHOOSE q \in T : Cardinality({p \in T : p <= q}) = i

\* A real packet hidden inside a corrupt one is not lost: however the stream was cut,
\* the payloads of ResyncingParser come from frames that do not overlap, and every
\* header it went past was in such a frame or at the start of a corrupt packet, which
\* it counted.  It keeps only a packet that is not all there yet.
NothingIsPassedOver ==
    LET b    == SubSeq(stream, 1, fed)
        past == fed - Len(rs.buf)
    IN \E T \in SUBSET Frames(b) :
        /\ \A p, q \in T : p < q => p + Total(b, p) <= q
        /\ Bytes(b, T) \subseteq 1..past
        /\ Got("rs") = [i \in 1..Cardinality(T) |-> DataOf(b, Ith(T, i))]
        /\ LET falseHeaders == {q \in 1..past : b[q] = HEADER} \ Bytes(b, T) IN
           /\ \A q \in falseHeaders : Complete(b, q) /\ ~Valid(b, q)
           /\ rs.dropped = Cardinality(falseHeaders)
        /\ rs.buf # <<>> => b[past + 1] = HEADER /\ ~Complete(b, past + 1)

===============================================================================
