-------------------------- MODULE PacketParserProofs --------------------------
(* The two parsers return what a line brings them, for any byte values, any HEADER *)
(* and streams of any length, however they are cut into chunks.                     *)
EXTENDS PacketParser, FiniteSetTheorems, SequenceTheorems, TLAPS

\* Induction, on a set: the prover does not instantiate a predicate.
LEMMA NatSetInduction ==
    ASSUME NEW S, 0 \in S, \A m \in Nat : m \in S => m + 1 \in S
    PROVE  Nat \subseteq S
<1> DEFINE T == Nat \ S
           R == OpToRel(<, Nat)
<1>1. SUFFICES ASSUME T # {} PROVE FALSE
  OBVIOUS
<1>2. IsWellFoundedOn(R, Nat)
  BY NatLessThanWellFounded
<1>3. PICK x \in T : \A y \in T : ~(<<y, x>> \in R)
  BY <1>1, <1>2, WFMin
<1>4. \A a, b \in Nat : <<a, b>> \in R <=> a < b
  BY DEF OpToRel
<1>5. x \in Nat /\ x # 0 /\ x - 1 \in Nat /\ x - 1 < x
  OBVIOUS
<1>6. x - 1 \in S
  BY <1>3, <1>4, <1>5
<1> QED BY <1>5, <1>6

\* A set of numbers has a least.
LEMMA MinIs ==
    ASSUME NEW S \in SUBSET Nat, S # {}
    PROVE  Min(S) \in S /\ \A x \in S : Min(S) <= x
<1> DEFINE R == OpToRel(<, Nat)
<1>1. IsWellFoundedOn(R, Nat)
  BY NatLessThanWellFounded
<1>2. PICK x \in S : \A y \in S : ~(<<y, x>> \in R)
  BY <1>1, WFMin
<1>3. \A a, b \in Nat : <<a, b>> \in R <=> a < b
  BY DEF OpToRel
<1>4. ASSUME NEW y \in S PROVE x <= y
  <2>1. x \in Nat /\ y \in Nat
    OBVIOUS
  <2>2. ~(y < x)
    BY <1>2, <1>3, <2>1
  <2> QED BY <2>1, <2>2
<1> QED BY <1>4 DEF Min

LEMMA BytesAreNat ==
    ASSUME NEW c \in Seq(Byte), NEW i \in 1..Len(c)
    PROVE  c[i] \in Byte /\ c[i] \in Nat
<1>1. c[i] \in Byte
  OBVIOUS
<1> QED BY <1>1 DEF Byte

LEMMA ByteIs == Radix \in Nat /\ Radix > 0 /\ HEADER \in Byte /\ Byte \subseteq Nat /\ MaxBytes \in Nat
  BY ConstantsAssumption DEF Byte

-------------------------------------------------------------------------------
(* The checksum *)

Sums(data, s, n) == s = [i \in 0..n |-> IF i = 0 THEN 0 ELSE s[i - 1] + data[i]]

LEMMA SumsExist ==
    ASSUME NEW data \in Seq(Byte)
    PROVE  \E s : Sums(data, s, Len(data)) /\ \A i \in 0..Len(data) : s[i] \in Nat
<1> DEFINE S == {n \in Nat : n <= Len(data) =>
                    \E s : Sums(data, s, n) /\ \A i \in 0..n : s[i] \in Nat}
<1>1. 0 \in S
  <2> DEFINE s == [i \in 0..0 |-> 0]
  <2>1. Sums(data, s, 0) /\ \A i \in 0..0 : s[i] \in Nat
    BY DEF Sums
  <2> HIDE DEF s
  <2> QED BY <2>1
<1>2. ASSUME NEW n \in Nat, n \in S PROVE n + 1 \in S
  <2> SUFFICES ASSUME n + 1 <= Len(data)
               PROVE  \E s : Sums(data, s, n + 1) /\ \A i \in 0..n + 1 : s[i] \in Nat
    OBVIOUS
  <2>1. PICK s : Sums(data, s, n) /\ \A i \in 0..n : s[i] \in Nat
    BY <1>2
  <2> DEFINE u == [i \in 0..n + 1 |-> IF i = n + 1 THEN s[n] + data[n + 1] ELSE s[i]]
  <2>2. data[n + 1] \in Nat
    BY BytesAreNat
  <2>3. \A i \in 0..n + 1 : u[i] \in Nat
    BY <2>1, <2>2
  <2>4. ASSUME NEW i \in 0..n + 1 PROVE u[i] = IF i = 0 THEN 0 ELSE u[i - 1] + data[i]
    <3>1. CASE i = n + 1
      BY <3>1
    <3>2. CASE i # n + 1
      <4>1. s[i] = IF i = 0 THEN 0 ELSE s[i - 1] + data[i]
        BY <2>1, <3>2 DEF Sums
      <4>2. u[i] = s[i] /\ (i # 0 => u[i - 1] = s[i - 1])
        BY <3>2
      <4> QED BY <4>1, <4>2
    <3> QED BY <3>1, <3>2
  <2>5. Sums(data, u, n + 1)
    BY <2>4 DEF Sums
  <2> HIDE DEF u
  <2> QED BY <2>3, <2>5
<1> HIDE DEF S
<1>3. Nat \subseteq S
  BY <1>1, <1>2, NatSetInduction
<1>4. Len(data) \in Nat
  OBVIOUS
<1> QED BY <1>3, <1>4 DEF S

LEMMA ChecksumType ==
    ASSUME NEW length \in Nat, NEW data \in Seq(Byte)
    PROVE  checksum(length, data) \in Byte
<1> DEFINE s == CHOOSE s : Sums(data, s, Len(data))
<1>1. Sums(data, s, Len(data))
  BY SumsExist
<1>2. \A i \in 0..Len(data) : s[i] \in Nat
  <2> DEFINE S == {n \in Nat : n <= Len(data) => s[n] \in Nat}
  <2> HIDE DEF s
  <2>1. 0 \in S
    BY <1>1 DEF Sums
  <2>2. ASSUME NEW n \in Nat, n \in S PROVE n + 1 \in S
    <3> SUFFICES ASSUME n + 1 <= Len(data) PROVE s[n + 1] \in Nat
      OBVIOUS
    <3>1. s[n + 1] = s[n] + data[n + 1]
      BY <1>1 DEF Sums
    <3>2. s[n] \in Nat
      BY <2>2
    <3>3. data[n + 1] \in Nat
      BY BytesAreNat
    <3> QED BY <3>1, <3>2, <3>3
  <2> HIDE DEF S
  <2>3. Nat \subseteq S
    BY <2>1, <2>2, NatSetInduction
  <2> QED BY <2>3 DEF S
<1>3. checksum(length, data) = (length + s[Len(data)]) % Radix
  BY DEF checksum, Sums
<1>4. s[Len(data)] \in Nat
  <2> HIDE DEF s
  <2> QED BY <1>2
<1> HIDE DEF s
<1>5. length + s[Len(data)] \in Nat /\ Radix \in Nat /\ Radix > 0
  BY <1>4, ByteIs
<1>6. (length + s[Len(data)]) % Radix \in 0..Radix - 1
  BY <1>5
<1> QED BY <1>3, <1>6 DEF Byte

\* What holds of the empty sequence, and of a longer one if of the shorter, holds of all.
LEMMA SeqInduction ==
    ASSUME NEW X, NEW G, <<>> \in G,
           \A e \in Seq(X), x \in X : e \in G => Append(e, x) \in G
    PROVE  Seq(X) \subseteq G
<1> DEFINE S == {n \in Nat : \A d \in Seq(X) : Len(d) = n => d \in G}
<1>1. 0 \in S
  BY EmptySeq
<1>2. ASSUME NEW n \in Nat, n \in S PROVE n + 1 \in S
  <2> SUFFICES ASSUME NEW d \in Seq(X), Len(d) = n + 1 PROVE d \in G
    OBVIOUS
  <2> DEFINE e == SubSeq(d, 1, n)
  <2>1. e \in Seq(X) /\ Len(e) = n /\ d[n + 1] \in X
    OBVIOUS
  <2>2. d = Append(e, d[n + 1])
    OBVIOUS
  <2>3. e \in G
    BY <1>2, <2>1
  <2> HIDE DEF e
  <2>4. Append(e, d[n + 1]) \in G
    BY <2>1, <2>3
  <2> QED BY <2>2, <2>4
<1> HIDE DEF S
<1>3. Nat \subseteq S
  BY <1>1, <1>2, NatSetInduction
<1> QED BY <1>3 DEF S

-------------------------------------------------------------------------------
(* StateMachineParser: its steps *)

SmRecords ==
    [state : {"WAIT_HEADER", "READ_LENGTH", "READ_DATA", "READ_CHECKSUM"}, length : Byte,
     data : Seq(Byte), completed : Seq(Seq(Byte)), dropped : Nat]

\* The parser, when h was taken from it before.
Held(p, h) == [p EXCEPT !.completed = h \o p.completed]

LEMMA StepType ==
    ASSUME NEW p \in SmRecords, NEW byte \in Byte
    PROVE  Step(p, byte) \in SmRecords
<1>1. CASE p.state = "WAIT_HEADER"
  BY <1>1 DEF Step, SmRecords
<1>2. CASE p.state = "READ_LENGTH"
  BY <1>2, EmptySeq DEF Step, StepLength, SmRecords
<1>3. CASE p.state = "READ_DATA"
  <2>1. Append(p.data, byte) \in Seq(Byte)
    BY DEF SmRecords
  <2> QED BY <1>3, <2>1 DEF Step, StepData, SmRecords
<1>4. CASE p.state = "READ_CHECKSUM"
  <2>1. Append(p.completed, p.data) \in Seq(Seq(Byte)) /\ p.dropped + 1 \in Nat
    BY DEF SmRecords
  <2> QED BY <1>4, <2>1 DEF Step, StepChecksum, SmRecords
<1> QED BY <1>1, <1>2, <1>3, <1>4 DEF SmRecords

\* A step completes one payload, or none.
LEMMA StepCompletes ==
    ASSUME NEW p \in SmRecords, NEW byte \in Byte
    PROVE  Step(p, byte).completed \in {p.completed, Append(p.completed, p.data)}
<1>1. CASE p.state = "WAIT_HEADER"
  BY <1>1 DEF Step, SmRecords
<1>2. CASE p.state = "READ_LENGTH"
  BY <1>2 DEF Step, StepLength, SmRecords
<1>3. CASE p.state = "READ_DATA"
  BY <1>3 DEF Step, StepData, SmRecords
<1>4. CASE p.state = "READ_CHECKSUM"
  BY <1>4 DEF Step, StepChecksum, SmRecords
<1> QED BY <1>1, <1>2, <1>3, <1>4 DEF SmRecords

LEMMA StepHeld ==
    ASSUME NEW p \in SmRecords, NEW byte \in Byte, NEW h \in Seq(Seq(Byte))
    PROVE  Step(Held(p, h), byte) = Held(Step(p, byte), h)
<1>1. CASE p.state = "WAIT_HEADER"
  BY <1>1 DEF Step, SmRecords, Held
<1>2. CASE p.state = "READ_LENGTH"
  BY <1>2 DEF Step, StepLength, SmRecords, Held
<1>3. CASE p.state = "READ_DATA"
  BY <1>3 DEF Step, StepData, SmRecords, Held
<1>4. CASE p.state = "READ_CHECKSUM"
  <2>1. h \o Append(p.completed, p.data) = Append(h \o p.completed, p.data)
    BY SMTT(30), ZenonT(30) DEF SmRecords
  <2> QED BY <1>4, <2>1 DEF Step, StepChecksum, SmRecords, Held
<1> QED BY <1>1, <1>2, <1>3, <1>4 DEF SmRecords

-------------------------------------------------------------------------------
(* StateMachineParser: chunks *)

Afters(p, c, h, n) == h = [i \in 0..n |-> IF i = 0 THEN p ELSE Step(h[i - 1], c[i])]

LEMMA AftersExist ==
    ASSUME NEW p, NEW c \in Seq(Byte)
    PROVE  \E h : Afters(p, c, h, Len(c))
<1> DEFINE S == {n \in Nat : \E h : Afters(p, c, h, n)}
<1>1. 0 \in S
  <2> DEFINE h == [i \in 0..0 |-> p]
  <2>1. Afters(p, c, h, 0)
    BY DEF Afters
  <2> HIDE DEF h
  <2> QED BY <2>1
<1>2. ASSUME NEW n \in Nat, n \in S PROVE n + 1 \in S
  <2>1. PICK h : Afters(p, c, h, n)
    BY <1>2
  <2> DEFINE u == [i \in 0..n + 1 |-> IF i = n + 1 THEN Step(h[n], c[n + 1]) ELSE h[i]]
  <2>2. ASSUME NEW i \in 0..n + 1 PROVE u[i] = IF i = 0 THEN p ELSE Step(u[i - 1], c[i])
    <3>1. CASE i = n + 1
      BY <3>1
    <3>2. CASE i # n + 1
      <4>1. h[i] = IF i = 0 THEN p ELSE Step(h[i - 1], c[i])
        BY <2>1, <3>2 DEF Afters
      <4>2. u[i] = h[i] /\ (i # 0 => u[i - 1] = h[i - 1])
        BY <3>2
      <4> QED BY <4>1, <4>2
    <3> QED BY <3>1, <3>2
  <2>3. Afters(p, c, u, n + 1)
    BY <2>2 DEF Afters
  <2> HIDE DEF u
  <2> QED BY <2>3
<1> HIDE DEF S
<1>3. Nat \subseteq S
  BY <1>1, <1>2, NatSetInduction
<1> QED BY <1>3 DEF S

LEMMA SteppedIs ==
    ASSUME NEW p, NEW c \in Seq(Byte)
    PROVE  \E h : Afters(p, c, h, Len(c)) /\ Stepped(p, c) = h[Len(c)]
<1> DEFINE h == CHOOSE h : Afters(p, c, h, Len(c))
<1>1. Afters(p, c, h, Len(c))
  BY AftersExist
<1>2. Stepped(p, c) = h[Len(c)]
  BY DEF Stepped, Afters
<1> QED BY <1>1, <1>2

\* Feeding one byte more is one step more.
LEMMA SteppedAppend ==
    ASSUME NEW p, NEW c \in Seq(Byte), NEW x \in Byte
    PROVE  Stepped(p, Append(c, x)) = Step(Stepped(p, c), x)
<1> DEFINE d == Append(c, x)
<1>1. d \in Seq(Byte) /\ Len(d) = Len(c) + 1 /\ Len(c) \in Nat /\ d[Len(c) + 1] = x
      /\ \A i \in 1..Len(c) : d[i] = c[i]
  OBVIOUS
<1> HIDE DEF d
<1>2. PICK h : Afters(p, c, h, Len(c)) /\ Stepped(p, c) = h[Len(c)]
  BY SteppedIs
<1>3. PICK u : Afters(p, d, u, Len(c) + 1) /\ Stepped(p, d) = u[Len(c) + 1]
  BY <1>1, SteppedIs
<1> DEFINE S == {n \in Nat : n <= Len(c) => u[n] = h[n]}
<1>4. 0 \in S
  BY <1>1, <1>2, <1>3 DEF Afters
<1>5. ASSUME NEW n \in Nat, n \in S PROVE n + 1 \in S
  <2> SUFFICES ASSUME n + 1 <= Len(c) PROVE u[n + 1] = h[n + 1]
    OBVIOUS
  <2>1. u[n + 1] = Step(u[n], d[n + 1])
    BY <1>1, <1>3 DEF Afters
  <2>2. h[n + 1] = Step(h[n], c[n + 1])
    BY <1>1, <1>2 DEF Afters
  <2> QED BY <1>1, <1>5, <2>1, <2>2
<1>6. u[Len(c)] = h[Len(c)]
  <2> HIDE DEF S
  <2>1. Nat \subseteq S
    BY <1>4, <1>5, NatSetInduction
  <2> QED BY <1>1, <2>1 DEF S
<1>7. u[Len(c) + 1] = Step(u[Len(c)], d[Len(c) + 1])
  BY <1>1, <1>3 DEF Afters
<1> QED BY <1>1, <1>2, <1>3, <1>6, <1>7 DEF d

LEMMA SteppedNone == ASSUME NEW p PROVE Stepped(p, <<>>) = p
<1>1. <<>> \in Seq(Byte) /\ Len(<<>>) = 0
  OBVIOUS
<1>2. PICK h : Afters(p, <<>>, h, 0) /\ Stepped(p, <<>>) = h[0]
  BY <1>1, SteppedIs
<1> QED BY <1>2 DEF Afters

\* Feeding a chunk after a chunk is feeding both as one.
LEMMA SteppedConcat ==
    ASSUME NEW p, NEW c \in Seq(Byte), NEW d \in Seq(Byte)
    PROVE  Stepped(p, c \o d) = Stepped(Stepped(p, c), d)
<1> DEFINE G == {e \in Seq(Byte) : Stepped(p, c \o e) = Stepped(Stepped(p, c), e)}
<1>1. <<>> \in G
  BY SteppedNone
<1>2. ASSUME NEW e \in Seq(Byte), NEW x \in Byte, e \in G PROVE Append(e, x) \in G
  <2>1. /\ c \o Append(e, x) = Append(c \o e, x)
        /\ c \o e \in Seq(Byte) /\ Append(e, x) \in Seq(Byte)
    OBVIOUS
  <2>2. Stepped(p, Append(c \o e, x)) = Step(Stepped(p, c \o e), x)
    BY <2>1, SteppedAppend
  <2>3. Stepped(Stepped(p, c), Append(e, x)) = Step(Stepped(Stepped(p, c), e), x)
    BY SteppedAppend
  <2> QED BY <1>2, <2>1, <2>2, <2>3
<1> HIDE DEF G
<1>3. Seq(Byte) \subseteq G
  BY <1>1, <1>2, SeqInduction
<1> QED BY <1>3 DEF G

LEMMA SteppedType ==
    ASSUME NEW p \in SmRecords, NEW c \in Seq(Byte)
    PROVE  Stepped(p, c) \in SmRecords
<1> DEFINE G == {e \in Seq(Byte) : Stepped(p, e) \in SmRecords}
<1>1. <<>> \in G
  BY SteppedNone
<1>2. ASSUME NEW e \in Seq(Byte), NEW x \in Byte, e \in G PROVE Append(e, x) \in G
  <2>1. Append(e, x) \in Seq(Byte) /\ Stepped(p, Append(e, x)) = Step(Stepped(p, e), x)
    BY SteppedAppend
  <2> QED BY <1>2, <2>1, StepType
<1> HIDE DEF G
<1>3. Seq(Byte) \subseteq G
  BY <1>1, <1>2, SeqInduction
<1> QED BY <1>3 DEF G

\* What is completed stays the beginning of what will be.
LEMMA SteppedGrows ==
    ASSUME NEW p \in SmRecords, NEW c \in Seq(Byte)
    PROVE  IsPrefix(p.completed, Stepped(p, c).completed)
<1> DEFINE G == {e \in Seq(Byte) : IsPrefix(p.completed, Stepped(p, e).completed)}
<1>0. p.completed \in Seq(Seq(Byte))
  BY DEF SmRecords
<1>1. <<>> \in G
  BY <1>0, SteppedNone DEF IsPrefix
<1>2. ASSUME NEW e \in Seq(Byte), NEW x \in Byte, e \in G PROVE Append(e, x) \in G
  <2> DEFINE q == Stepped(p, e)
  <2>1. Append(e, x) \in Seq(Byte) /\ Stepped(p, Append(e, x)) = Step(q, x)
    BY SteppedAppend
  <2>2. q \in SmRecords /\ q.completed \in Seq(Seq(Byte)) /\ q.data \in Seq(Byte)
    BY SteppedType DEF SmRecords
  <2>3. Step(q, x).completed \in {q.completed, Append(q.completed, q.data)}
    BY <2>2, StepCompletes
  <2>4. IsPrefix(p.completed, q.completed)
    BY <1>2
  <2> HIDE DEF q
  <2>5. IsPrefix(p.completed, Append(q.completed, q.data))
    BY <1>0, <2>2, <2>4 DEF IsPrefix
  <2> QED BY <2>1, <2>3, <2>4, <2>5
<1> HIDE DEF G
<1>3. Seq(Byte) \subseteq G
  BY <1>1, <1>2, SeqInduction
<1> QED BY <1>3 DEF G

\* Taking packets out does not change what the next bytes do.
LEMMA SteppedHeld ==
    ASSUME NEW p \in SmRecords, NEW c \in Seq(Byte), NEW h \in Seq(Seq(Byte))
    PROVE  Stepped(Held(p, h), c) = Held(Stepped(p, c), h)
<1> DEFINE G == {e \in Seq(Byte) : Stepped(Held(p, h), e) = Held(Stepped(p, e), h)}
<1>1. <<>> \in G
  BY SteppedNone
<1>2. ASSUME NEW e \in Seq(Byte), NEW x \in Byte, e \in G PROVE Append(e, x) \in G
  <2>1. /\ Append(e, x) \in Seq(Byte)
        /\ Stepped(p, Append(e, x)) = Step(Stepped(p, e), x)
        /\ Stepped(Held(p, h), Append(e, x)) = Step(Stepped(Held(p, h), e), x)
    BY SteppedAppend
  <2>2. Stepped(p, e) \in SmRecords
    BY SteppedType
  <2>3. Step(Held(Stepped(p, e), h), x) = Held(Step(Stepped(p, e), x), h)
    BY <2>2, StepHeld
  <2> QED BY <1>2, <2>1, <2>3
<1> HIDE DEF G
<1>3. Seq(Byte) \subseteq G
  BY <1>1, <1>2, SeqInduction
<1> QED BY <1>3 DEF G

\* A parser that waits for a packet and is given its header, a length and data of no more
\* than this length.
LEMMA DataStepped ==
    ASSUME NEW p \in SmRecords, p.state = "WAIT_HEADER", NEW length \in Byte,
           NEW data \in Seq(Byte), Len(data) <= length
    PROVE  Stepped(p, <<HEADER, length>> \o data) =
               [p EXCEPT !.state = IF Len(data) = length THEN "READ_CHECKSUM" ELSE "READ_DATA",
                         !.length = length, !.data = data]
<1> DEFINE Reading(e) ==
               [p EXCEPT !.state = IF Len(e) = length THEN "READ_CHECKSUM" ELSE "READ_DATA",
                         !.length = length, !.data = e]
           G == {e \in Seq(Byte) : Len(e) <= length =>
                    Stepped(p, <<HEADER, length>> \o e) = Reading(e)}
<1>0. HEADER \in Byte /\ length \in Nat
  BY ByteIs
<1>1. <<>> \in G
  <2>1. /\ Stepped(p, <<HEADER>>) = Step(p, HEADER)
        /\ Stepped(p, <<HEADER, length>>) = Step(Step(p, HEADER), length)
    <3>1. <<HEADER>> = Append(<<>>, HEADER) /\ <<HEADER, length>> = Append(<<HEADER>>, length)
          /\ <<>> \in Seq(Byte) /\ <<HEADER>> \in Seq(Byte)
      BY <1>0
    <3>2. Stepped(p, Append(<<>>, HEADER)) = Step(Stepped(p, <<>>), HEADER)
      BY <1>0, <3>1, SteppedAppend
    <3>3. Stepped(p, Append(<<HEADER>>, length)) = Step(Stepped(p, <<HEADER>>), length)
      BY <3>1, SteppedAppend
    <3> QED BY <3>1, <3>2, <3>3, SteppedNone
  <2>2. Step(p, HEADER) = [p EXCEPT !.state = "READ_LENGTH"]
    BY DEF Step
  <2>3. Step(Step(p, HEADER), length) = Reading(<<>>)
    BY <1>0, <2>2 DEF Step, StepLength, SmRecords
  <2>4. <<HEADER, length>> \o <<>> = <<HEADER, length>> /\ <<>> \in Seq(Byte)
    BY <1>0
  <2> HIDE DEF Reading
  <2> QED BY <2>1, <2>3, <2>4
<1>2. ASSUME NEW e \in Seq(Byte), NEW x \in Byte, e \in G PROVE Append(e, x) \in G
  <2>1. /\ Append(e, x) \in Seq(Byte) /\ Len(Append(e, x)) = Len(e) + 1 /\ Len(e) \in Nat
        /\ <<HEADER, length>> \o Append(e, x) = Append(<<HEADER, length>> \o e, x)
        /\ <<HEADER, length>> \o e \in Seq(Byte)
    BY <1>0
  <2> SUFFICES ASSUME Len(e) + 1 <= length
               PROVE  Stepped(p, <<HEADER, length>> \o Append(e, x)) = Reading(Append(e, x))
    BY <2>1
  <2>2. Stepped(p, <<HEADER, length>> \o Append(e, x)) = Step(Reading(e), x)
    <3>1. Stepped(p, <<HEADER, length>> \o e) = Reading(e)
      BY <1>0, <1>2, <2>1
    <3> DEFINE c == <<HEADER, length>> \o e
    <3>2. Stepped(p, Append(c, x)) = Step(Stepped(p, c), x)
      <4> HIDE DEF c
      <4>1. c \in Seq(Byte)
        BY <2>1 DEF c
      <4> QED BY <4>1, SteppedAppend
    <3> QED BY <2>1, <3>1, <3>2
  <2>3. Step(Reading(e), x) = Reading(Append(e, x))
    <3>1. Len(e) # length
      BY <1>0, <2>1
    <3> QED BY <2>1, <3>1 DEF Step, StepData, SmRecords
  <2> QED BY <2>2, <2>3
<1> HIDE DEF G
<1>3. Seq(Byte) \subseteq G
  BY <1>1, <1>2, SeqInduction
<1> QED BY <1>3 DEF G

-------------------------------------------------------------------------------
(* ResyncingParser: its loop *)

RsRecords == [buf : Seq(Byte), completed : Seq(Seq(Byte)), dropped : Nat]

Nothing == [buf |-> <<>>, completed |-> <<>>, dropped |-> 0]

\* q is the first header of b from p on; there is none.
First(b, p, q) == q \in p..Len(b) /\ b[q] = HEADER /\ \A j \in p..q - 1 : b[j] # HEADER
NoHeader(b, p) == \A j \in p..Len(b) : b[j] # HEADER

\* The bytes from q on are kept; D is completed before r; a header is dropped before r.
Kept(b, q)         == [buf |-> SubSeq(b, q, Len(b)), completed |-> <<>>, dropped |-> 0]
WithPacket(r, D)   == [r EXCEPT !.completed = <<D>> \o @]
WithoutHeader(r)   == [r EXCEPT !.dropped = @ + 1]

\* r, then x on what r kept.
Joined(r, x) ==
    [buf |-> x.buf, completed |-> r.completed \o x.completed, dropped |-> r.dropped + x.dropped]

LEMMA JoinedNone ==
    ASSUME NEW r \in RsRecords, r.completed = <<>>, r.dropped = 0, NEW x \in RsRecords
    PROVE  Joined(r, x) = x
  BY DEF Joined, RsRecords

LEMMA ConcatAssoc ==
    ASSUME NEW X, NEW a \in Seq(X), NEW b \in Seq(X), NEW c \in Seq(X)
    PROVE  a \o b \in Seq(X) /\ (a \o b) \o c = a \o (b \o c)
  OBVIOUS

LEMMA WithPacketIs ==
    ASSUME NEW r \in RsRecords, NEW x \in RsRecords, NEW D \in Seq(Byte)
    PROVE  /\ WithPacket(r, D) \in RsRecords /\ WithPacket(r, D).buf = r.buf
           /\ Joined(WithPacket(r, D), x) = WithPacket(Joined(r, x), D)
<1> DEFINE v == <<D>>
           w == v \o r.completed
<1>1. v \in Seq(Seq(Byte)) /\ r.completed \in Seq(Seq(Byte)) /\ x.completed \in Seq(Seq(Byte))
  BY DEF RsRecords
<1>2. w \in Seq(Seq(Byte)) /\ w \o x.completed = v \o (r.completed \o x.completed)
  <2> DEFINE X == Seq(Byte)
             c == r.completed
             e == x.completed
  <2>1. v \in Seq(X) /\ c \in Seq(X) /\ e \in Seq(X)
    BY <1>1
  <2> HIDE DEF v, X, c, e
  <2>2. v \o c \in Seq(X) /\ (v \o c) \o e = v \o (c \o e)
    BY <2>1, ConcatAssoc
  <2> QED BY <2>2 DEF X, c, e
<1> DEFINE y == r.completed \o x.completed
           z == v \o y
<1>3. w \o x.completed = z
  BY <1>2
<1>4. WithPacket(r, D) = [r EXCEPT !.completed = w]
  BY DEF WithPacket
<1>5. Joined(r, x) = [buf |-> x.buf, completed |-> y, dropped |-> r.dropped + x.dropped]
  BY DEF Joined
<1>6. WithPacket(Joined(r, x), D) = [Joined(r, x) EXCEPT !.completed = v \o Joined(r, x).completed]
  BY DEF WithPacket
<1>7. w \in Seq(Seq(Byte))
  BY <1>2
<1> HIDE DEF v, w, y
<1> DEFINE n == r.dropped + x.dropped
<1>8. WithPacket(Joined(r, x), D) = [buf |-> x.buf, completed |-> z, dropped |-> n]
  <2>1. Joined(r, x).completed = y
    BY <1>5
  <2>2. WithPacket(Joined(r, x), D) = [Joined(r, x) EXCEPT !.completed = z]
    BY <1>6, <2>1
  <2>3. Joined(r, x) = [buf |-> x.buf, completed |-> y, dropped |-> n]
    BY <1>5
  <2> HIDE DEF z, n
  <2> QED BY <2>2, <2>3
<1> HIDE DEF z
<1>9. WithPacket(r, D) = [buf |-> r.buf, completed |-> w, dropped |-> r.dropped]
  BY <1>4 DEF RsRecords
<1>10. WithPacket(r, D) \in RsRecords /\ WithPacket(r, D).buf = r.buf
  BY <1>7, <1>9 DEF RsRecords
<1>11. Joined(WithPacket(r, D), x) = [buf |-> x.buf, completed |-> z, dropped |-> n]
  <2>1. WithPacket(r, D).completed = w /\ WithPacket(r, D).dropped = r.dropped
    BY <1>9
  <2>2. Joined(WithPacket(r, D), x) =
            [buf |-> x.buf, completed |-> WithPacket(r, D).completed \o x.completed,
             dropped |-> WithPacket(r, D).dropped + x.dropped]
    BY DEF Joined
  <2>3. WithPacket(r, D).completed \o x.completed = z
    BY <1>3, <2>1
  <2> QED BY <2>1, <2>2, <2>3
<1> QED BY <1>8, <1>10, <1>11

LEMMA WithoutHeaderIs ==
    ASSUME NEW r \in RsRecords, NEW x \in RsRecords
    PROVE  /\ WithoutHeader(r) \in RsRecords /\ WithoutHeader(r).buf = r.buf
           /\ Joined(WithoutHeader(r), x) = WithoutHeader(Joined(r, x))
<1> DEFINE y == r.completed \o x.completed
<1>1. Joined(r, x) = [buf |-> x.buf, completed |-> y, dropped |-> r.dropped + x.dropped]
  BY DEF Joined
<1>2. WithoutHeader(r) = [buf |-> r.buf, completed |-> r.completed, dropped |-> r.dropped + 1]
  <2> DEFINE n == r.dropped + 1
  <2>1. WithoutHeader(r) = [r EXCEPT !.dropped = n]
    BY DEF WithoutHeader
  <2> HIDE DEF n
  <2>2. WithoutHeader(r) = [buf |-> r.buf, completed |-> r.completed, dropped |-> n]
    BY <2>1 DEF RsRecords
  <2> QED BY <2>2 DEF n
<1>3. Joined(WithoutHeader(r), x) = [buf |-> x.buf, completed |-> y, dropped |-> (r.dropped + 1) + x.dropped]
  BY <1>2 DEF Joined
<1>4. WithoutHeader(r) \in RsRecords /\ WithoutHeader(r).buf = r.buf
  BY <1>2 DEF RsRecords
<1> HIDE DEF y
<1>5. WithoutHeader(Joined(r, x)) = [buf |-> x.buf, completed |-> y, dropped |-> (r.dropped + x.dropped) + 1]
  BY <1>1 DEF WithoutHeader
<1>6. (r.dropped + 1) + x.dropped = (r.dropped + x.dropped) + 1
  BY DEF RsRecords
<1> QED BY <1>3, <1>4, <1>5, <1>6

\* A turn of the loop that finds its header at q, when f is what the later turns do.
Turn(b, f, q) ==
    IF ~Complete(b, q) THEN Kept(b, q)
    ELSE IF Valid(b, q) THEN WithPacket(f[q + Total(b, q)], DataOf(b, q))
    ELSE WithoutHeader(f[q + 1])

\* From the end of a sequence to its start: what holds at p if it holds after p.
LEMMA DownInduction ==
    ASSUME NEW L \in Nat, NEW S,
           \A p \in 1..L + 1 : (\A r \in p + 1..L + 1 : r \in S) => p \in S
    PROVE  1..L + 1 \subseteq S
<1> DEFINE T == {n \in Nat : \A p \in 1..L + 1 : p > L + 1 - n => p \in S}
<1>1. 0 \in T
  OBVIOUS
<1>2. ASSUME NEW n \in Nat, n \in T PROVE n + 1 \in T
  <2> SUFFICES ASSUME NEW p \in 1..L + 1, p > L + 1 - (n + 1) PROVE p \in S
    OBVIOUS
  <2>1. \A r \in p + 1..L + 1 : r \in S
    BY <1>2
  <2> QED BY <2>1
<1> HIDE DEF T
<1>3. Nat \subseteq T
  BY <1>1, <1>2, NatSetInduction
<1>4. L + 1 \in T
  BY <1>3
<1> QED BY <1>4 DEF T

LEMMA FirstOrNone ==
    ASSUME NEW b \in Seq(Byte), NEW p \in 1..Len(b) + 1
    PROVE  NoHeader(b, p) \/ \E q \in p..Len(b) : First(b, p, q)
<1>1. CASE Candidates(b, p) = {}
  BY <1>1 DEF Candidates, NoHeader
<1>2. CASE Candidates(b, p) # {}
  <2> DEFINE q == Min(Candidates(b, p))
  <2>1. q \in Candidates(b, p) /\ \A x \in Candidates(b, p) : q <= x
    <3>1. Candidates(b, p) \in SUBSET Nat
      BY DEF Candidates
    <3> QED BY <1>2, <3>1, MinIs
  <2> HIDE DEF q
  <2>2. First(b, p, q)
    BY <2>1 DEF Candidates, First
  <2> QED BY <2>1, <2>2 DEF Candidates
<1> QED BY <1>1, <1>2

LEMMA FirstIsMin ==
    ASSUME NEW b \in Seq(Byte), NEW p \in 1..Len(b) + 1, NEW q, First(b, p, q)
    PROVE  Candidates(b, p) # {} /\ Min(Candidates(b, p)) = q
<1>1. Candidates(b, p) \in SUBSET Nat /\ q \in Candidates(b, p)
  BY DEF Candidates, First
<1>2. \A x \in Candidates(b, p) : q <= x
  BY DEF Candidates, First
<1>3. Min(Candidates(b, p)) \in Candidates(b, p) /\ Min(Candidates(b, p)) <= q
  BY <1>1, MinIs
<1>4. Min(Candidates(b, p)) \in Nat /\ q \in Nat /\ q <= Min(Candidates(b, p))
  BY <1>1, <1>2, <1>3
<1> QED BY <1>1, <1>3, <1>4

\* The frame at a header that is not the end of b.
LEMMA FrameIs ==
    ASSUME NEW b \in Seq(Byte), NEW q \in 1..Len(b), Complete(b, q)
    PROVE  /\ Total(b, q) \in Nat /\ Total(b, q) = b[q + 1] + 3 /\ b[q + 1] \in Nat
           /\ q + 1 \in 1..Len(b) /\ q + Total(b, q) \in q + 3..Len(b) + 1
           /\ DataOf(b, q) \in Seq(Byte) /\ Len(DataOf(b, q)) = b[q + 1]
           /\ \A i \in 1..b[q + 1] : DataOf(b, q)[i] = b[q + 1 + i]
<1>1. q + 1 \in 1..Len(b)
  BY DEF Complete
<1>2. b[q + 1] \in Nat
  BY <1>1, BytesAreNat
<1>3. Total(b, q) = b[q + 1] + 3 /\ q + Total(b, q) - 1 <= Len(b)
  BY DEF Total, Complete
<1> DEFINE n == b[q + 1]
<1>4. n \in Nat /\ q + 1 + n < Len(b)
  BY <1>1, <1>2, <1>3
<1>5. DataOf(b, q) = SubSeq(b, q + 2, q + 1 + n)
  BY DEF DataOf
<1> HIDE DEF n
<1>6. /\ SubSeq(b, q + 2, q + 1 + n) \in Seq(Byte) /\ Len(SubSeq(b, q + 2, q + 1 + n)) = n
      /\ \A i \in 1..n : SubSeq(b, q + 2, q + 1 + n)[i] = b[q + 1 + i]
  BY <1>4
<1>7. Total(b, q) \in Nat /\ Total(b, q) = n + 3 /\ q + Total(b, q) \in q + 3..Len(b) + 1
  <2>1. Total(b, q) = n + 3
    BY <1>3 DEF n
  <2> QED BY <1>4, <2>1
<1>8. /\ DataOf(b, q) \in Seq(Byte) /\ Len(DataOf(b, q)) = n
      /\ \A i \in 1..n : DataOf(b, q)[i] = b[q + 1 + i]
  BY <1>5, <1>6
<1> QED BY <1>1, <1>2, <1>7, <1>8 DEF n

\* A frame is the same one in a sequence that has the same bytes, s places further on.
LEMMA FrameSame ==
    ASSUME NEW b \in Seq(Byte), NEW d \in Seq(Byte), NEW s \in Nat, NEW q \in 1..Len(b),
           Complete(b, q), Len(b) + s <= Len(d), \A i \in q..Len(b) : d[i + s] = b[i]
    PROVE  /\ q + s \in 1..Len(d) /\ Complete(d, q + s) /\ Total(d, q + s) = Total(b, q)
           /\ DataOf(d, q + s) = DataOf(b, q) /\ (Valid(d, q + s) <=> Valid(b, q))
<1> DEFINE n == b[q + 1]
           t == q + s
<1>1. /\ Total(b, q) = n + 3 /\ n \in Nat /\ q + 1 \in 1..Len(b) /\ q + n + 3 <= Len(b) + 1
      /\ DataOf(b, q) \in Seq(Byte) /\ Len(DataOf(b, q)) = n
      /\ \A i \in 1..n : DataOf(b, q)[i] = b[q + 1 + i]
  BY SMTT(30), ZenonT(30), FrameIs
<1> HIDE DEF n
<1>2. t \in 1..Len(d) /\ t + 1 \in 1..Len(d) /\ t < Len(d)
  BY SMTT(30), ZenonT(30), <1>1
<1>3. d[t + 1] = n
  <2>1. d[(q + 1) + s] = b[q + 1]
    BY SMTT(30), ZenonT(30), <1>1
  <2>2. (q + 1) + s = t + 1
    OBVIOUS
  <2> QED BY <2>1, <2>2 DEF n
<1>4. Total(d, t) = n + 3
  BY <1>3 DEF Total
<1>5. Complete(d, t)
  BY <1>1, <1>2, <1>4 DEF Complete
<1>6. /\ DataOf(d, t) \in Seq(Byte) /\ Len(DataOf(d, t)) = n
      /\ \A i \in 1..n : DataOf(d, t)[i] = d[t + 1 + i]
  BY <1>2, <1>3, <1>5, FrameIs
<1>7. DataOf(d, t) = DataOf(b, q)
  <2>1. ASSUME NEW i \in 1..n PROVE DataOf(d, t)[i] = DataOf(b, q)[i]
    <3>1. q + 1 + i \in q..Len(b) /\ (q + 1 + i) + s = t + 1 + i
      <4>1. q \in Nat /\ i \in Nat /\ s \in Nat /\ Len(b) \in Nat /\ i <= n
        BY <1>1
      <4>2. q + n + 3 <= Len(b) + 1 /\ n \in Nat
        BY <1>1
      <4> QED BY <4>1, <4>2
    <3>2. d[(q + 1 + i) + s] = b[q + 1 + i]
      BY <3>1
    <3> QED BY <1>1, <1>6, <3>1, <3>2
  <2> HIDE DEF t
  <2> DEFINE x == DataOf(d, t)
             y == DataOf(b, q)
  <2>2. x \in Seq(Byte) /\ y \in Seq(Byte) /\ Len(x) = n /\ Len(y) = n
    BY <1>1, <1>6
  <2>3. \A i \in 1..n : x[i] = y[i]
    BY <2>1
  <2> HIDE DEF x, y
  <2>4. x = y
    BY <2>2, <2>3, SeqEqual
  <2> QED BY <2>4 DEF x, y
<1>8. d[t + (n + 3) - 1] = b[q + (n + 3) - 1]
  <2>1. q + n + 2 \in q..Len(b) /\ (q + n + 2) + s = t + (n + 3) - 1 /\ q + n + 2 = q + (n + 3) - 1
    BY <1>1
  <2>2. d[(q + n + 2) + s] = b[q + n + 2]
    BY <2>1
  <2> QED BY <2>1, <2>2
<1>9. Valid(d, t) <=> Valid(b, q)
  <2>1. Valid(d, t) <=> d[t + (n + 3) - 1] = checksum(n, DataOf(d, t))
    BY <1>3, <1>4 DEF Valid
  <2>2. Valid(b, q) <=> b[q + (n + 3) - 1] = checksum(n, DataOf(b, q))
    BY <1>1 DEF Valid, n
  <2> QED BY <1>7, <1>8, <2>1, <2>2
<1> QED BY <1>1, <1>2, <1>4, <1>5, <1>7, <1>9

\* A turn only uses what later turns do.
LEMMA TurnSame ==
    ASSUME NEW b \in Seq(Byte), NEW q \in 1..Len(b), NEW f, NEW g,
           \A x \in q + 1..Len(b) + 1 : f[x] = g[x]
    PROVE  Turn(b, f, q) = Turn(b, g, q)
<1>1. CASE ~Complete(b, q)
  BY <1>1 DEF Turn
<1>2. CASE Complete(b, q)
  <2>1. q + Total(b, q) \in q + 1..Len(b) + 1 /\ q + 1 \in q + 1..Len(b) + 1
    BY <1>2, FrameIs
  <2>2. f[q + Total(b, q)] = g[q + Total(b, q)] /\ f[q + 1] = g[q + 1]
    BY <2>1
  <2> QED BY <2>2 DEF Turn
<1> QED BY <1>1, <1>2

\* f is the loop, from position m on.
Loop(b, f, m) ==
    f = [p \in m..Len(b) + 1 |-> IF Candidates(b, p) = {} THEN Nothing
                                 ELSE Turn(b, f, Min(Candidates(b, p)))]

LEMMA LoopsExist ==
    ASSUME NEW b \in Seq(Byte)
    PROVE  \E f : Loop(b, f, 1)
<1> DEFINE L == Len(b)
           S == {m \in 1..L + 1 : \E f : Loop(b, f, m)}
<1>0. L \in Nat
  OBVIOUS
<1>1. ASSUME NEW p \in 1..L + 1, \A r \in p + 1..L + 1 : r \in S PROVE p \in S
  <2>1. PICK f : p < L + 1 => Loop(b, f, p + 1)
    BY <1>1
  <2> DEFINE last == IF Candidates(b, p) = {} THEN Nothing ELSE Turn(b, f, Min(Candidates(b, p)))
             u == [x \in p..L + 1 |-> IF x = p THEN last ELSE f[x]]
  <2>2. ASSUME NEW x \in p..L + 1
        PROVE  u[x] = IF Candidates(b, x) = {} THEN Nothing ELSE Turn(b, u, Min(Candidates(b, x)))
    <3>1. u[x] = IF Candidates(b, x) = {} THEN Nothing ELSE Turn(b, f, Min(Candidates(b, x)))
      <4>1. CASE x = p
        BY <4>1
      <4>2. CASE x # p
        <5>1. p < L + 1 /\ x \in p + 1..L + 1
          BY <4>2
        <5>2. f[x] = IF Candidates(b, x) = {} THEN Nothing ELSE Turn(b, f, Min(Candidates(b, x)))
          BY <2>1, <5>1 DEF Loop
        <5>3. u[x] = f[x]
          BY <4>2
        <5> QED BY <5>2, <5>3
      <4> QED BY <4>1, <4>2
    <3>2. ASSUME Candidates(b, x) # {}
          PROVE  Turn(b, f, Min(Candidates(b, x))) = Turn(b, u, Min(Candidates(b, x)))
      <4> DEFINE q == Min(Candidates(b, x))
      <4>1. q \in Candidates(b, x)
        <5>1. Candidates(b, x) \in SUBSET Nat
          BY DEF Candidates
        <5> QED BY <3>2, <5>1, MinIs
      <4> HIDE DEF q
      <4>2. q \in 1..L /\ q >= p
        BY <4>1 DEF Candidates
      <4>3. ASSUME NEW y \in q + 1..L + 1 PROVE f[y] = u[y]
        <5>1. y \in p..L + 1 /\ y # p
          BY <4>2
        <5> QED BY <5>1
      <4> HIDE DEF u
      <4>4. Turn(b, f, q) = Turn(b, u, q)
        BY <4>2, <4>3, TurnSame
      <4> QED BY <4>4 DEF q
    <3> HIDE DEF u, last
    <3> QED BY <3>1, <3>2
  <2>3. Loop(b, u, p)
    BY <2>2 DEF Loop
  <2> HIDE DEF u
  <2> QED BY <2>3
<1> HIDE DEF S
<1>2. 1..L + 1 \subseteq S
  <2> HIDE DEF L
  <2> QED BY <1>0, <1>1, DownInduction
<1>3. 1 \in S
  BY <1>0, <1>2
<1> QED BY <1>3 DEF S

\* The loop skips to the first header, and takes its turn there.
LEMMA FromIs ==
    ASSUME NEW b \in Seq(Byte), NEW p \in 1..Len(b) + 1
    PROVE  /\ NoHeader(b, p) => From(b)[p] = Nothing
           /\ \A q : First(b, p, q) => From(b)[p] = Turn(b, From(b), q)
<1> DEFINE f == CHOOSE f : Loop(b, f, 1)
<1>1. Loop(b, f, 1)
  BY LoopsExist
<1>2. From(b) = f
  BY DEF From, Loop, Turn, Kept, WithPacket, WithoutHeader, Nothing, AfterFalseHeader
<1> HIDE DEF f
<1>3. f[p] = IF Candidates(b, p) = {} THEN Nothing ELSE Turn(b, f, Min(Candidates(b, p)))
  BY <1>1 DEF Loop
<1>4. NoHeader(b, p) => Candidates(b, p) = {}
  BY DEF NoHeader, Candidates
<1>5. ASSUME NEW q, First(b, p, q) PROVE f[p] = Turn(b, f, q)
  BY <1>3, <1>5, FirstIsMin
<1> QED BY <1>2, <1>3, <1>4, <1>5

\* What a turn does with a header at q.
LEMMA TurnIs ==
    ASSUME NEW b \in Seq(Byte), NEW p \in 1..Len(b) + 1, NEW q \in p..Len(b), First(b, p, q)
    PROVE  /\ ~Complete(b, q) => From(b)[p] = Kept(b, q)
           /\ Complete(b, q) => q + Total(b, q) \in q + 1..Len(b) + 1
           /\ Complete(b, q) /\ Valid(b, q) =>
                  From(b)[p] = WithPacket(From(b)[q + Total(b, q)], DataOf(b, q))
           /\ Complete(b, q) /\ ~Valid(b, q) => From(b)[p] = WithoutHeader(From(b)[q + 1])
<1>1. From(b)[p] = Turn(b, From(b), q)
  BY FromIs
<1>2. Complete(b, q) => q + Total(b, q) \in q + 1..Len(b) + 1
  BY FrameIs
<1> QED BY <1>1, <1>2 DEF Turn

LEMMA KeptType ==
    ASSUME NEW b \in Seq(Byte), NEW q \in 1..Len(b) + 1
    PROVE  /\ Kept(b, q) \in RsRecords /\ Kept(b, q).completed = <<>> /\ Kept(b, q).dropped = 0
           /\ Kept(b, q).buf = SubSeq(b, q, Len(b)) /\ Len(Kept(b, q).buf) = Len(b) + 1 - q
<1> DEFINE e == SubSeq(b, q, Len(b))
<1>1. e \in Seq(Byte) /\ Len(e) = Len(b) + 1 - q
  OBVIOUS
<1> HIDE DEF e
<1>2. Kept(b, q) = [buf |-> e, completed |-> <<>>, dropped |-> 0]
  BY DEF Kept, e
<1> QED BY <1>1, <1>2 DEF RsRecords, e

\* Keeping nothing is keeping what comes after the end.
LEMMA NothingIsKept == ASSUME NEW b \in Seq(Byte) PROVE Nothing = Kept(b, Len(b) + 1)
<1>1. SubSeq(b, Len(b) + 1, Len(b)) = <<>>
  OBVIOUS
<1> QED BY <1>1 DEF Nothing, Kept

LEMMA FromType ==
    ASSUME NEW b \in Seq(Byte), NEW p \in 1..Len(b) + 1
    PROVE  From(b)[p] \in RsRecords
<1> DEFINE L == Len(b)
           S == {m \in 1..L + 1 : From(b)[m] \in RsRecords}
<1>0. L \in Nat
  OBVIOUS
<1>1. ASSUME NEW m \in 1..L + 1, \A r \in m + 1..L + 1 : r \in S PROVE m \in S
  <2>1. ASSUME NoHeader(b, m) PROVE From(b)[m] \in RsRecords
    <3>1. From(b)[m] = Kept(b, L + 1) /\ L + 1 \in 1..L + 1
      BY <1>0, <2>1, FromIs, NothingIsKept
    <3> QED BY <3>1, KeptType
  <2>2. ASSUME NEW q \in m..L, First(b, m, q) PROVE From(b)[m] \in RsRecords
    <3>0. q \in 1..L
      OBVIOUS
    <3>1. CASE ~Complete(b, q)
      BY <2>2, <3>0, <3>1, TurnIs, KeptType
    <3>2. CASE Complete(b, q) /\ Valid(b, q)
      <4> DEFINE r == From(b)[q + Total(b, q)]
      <4>1. q + Total(b, q) \in q + 1..L + 1
        BY <2>2, <3>2, TurnIs
      <4>2. From(b)[m] = WithPacket(r, DataOf(b, q))
        BY <2>2, <3>2, TurnIs
      <4>3. r \in RsRecords
        BY <1>1, <4>1
      <4>4. DataOf(b, q) \in Seq(Byte)
        BY <3>0, <3>2, FrameIs
      <4> HIDE DEF r
      <4> QED BY <4>2, <4>3, <4>4, WithPacketIs
    <3>3. CASE Complete(b, q) /\ ~Valid(b, q)
      <4> DEFINE r == From(b)[q + 1]
      <4>1. From(b)[m] = WithoutHeader(r)
        BY <2>2, <3>3, TurnIs
      <4>2. q + 1 \in m + 1..L + 1
        OBVIOUS
      <4>3. r \in RsRecords
        BY <1>1, <4>2
      <4> HIDE DEF r
      <4> QED BY <4>1, <4>3, WithoutHeaderIs
    <3> QED BY <3>1, <3>2, <3>3
  <2>3. From(b)[m] \in RsRecords
    BY <2>1, <2>2, FirstOrNone
  <2> QED BY <2>3
<1> HIDE DEF S
<1>2. 1..L + 1 \subseteq S
  <2> HIDE DEF L
  <2> QED BY <1>0, <1>1, DownInduction
<1> QED BY <1>2 DEF S

\* Bytes that are no headers are skipped.
LEMMA Skip ==
    ASSUME NEW b \in Seq(Byte), NEW p \in 1..Len(b) + 1, NEW m \in p..Len(b) + 1,
           \A j \in p..m - 1 : b[j] # HEADER
    PROVE  From(b)[p] = From(b)[m]
<1>1. CASE NoHeader(b, m)
  <2>1. NoHeader(b, p)
    BY <1>1 DEF NoHeader
  <2> QED BY <1>1, <2>1, FromIs
<1>2. ASSUME NEW q \in m..Len(b), First(b, m, q) PROVE From(b)[p] = From(b)[m]
  <2>1. First(b, p, q)
    BY <1>2 DEF First
  <2>2. From(b)[p] = Turn(b, From(b), q)
    BY <2>1, FromIs
  <2>3. From(b)[m] = Turn(b, From(b), q)
    BY <1>2, FromIs
  <2> QED BY <2>2, <2>3
<1> QED BY <1>1, <1>2, FirstOrNone

\* Where the bytes start that the loop from p keeps.
Rest(b, p) == Len(b) + 1 - Len(From(b)[p].buf)

\* The loop on the start of what came, and then from the bytes it kept, is the loop on all
\* of it.
LEMMA ParseConcat ==
    ASSUME NEW b \in Seq(Byte), NEW c \in Seq(Byte), NEW p \in 1..Len(b) + 1
    PROVE  /\ Rest(b, p) \in p..Len(b) + 1
           /\ From(b)[p].buf = SubSeq(b, Rest(b, p), Len(b))
           /\ From(b \o c)[p] = Joined(From(b)[p], From(b \o c)[Rest(b, p)])
<1> DEFINE L == Len(b)
           d == b \o c
           Good(m) == /\ Rest(b, m) \in m..Len(b) + 1
                      /\ From(b)[m].buf = SubSeq(b, Rest(b, m), Len(b))
                      /\ From(d)[m] = Joined(From(b)[m], From(d)[Rest(b, m)])
           S == {m \in 1..L + 1 : Good(m)}
<1>0. /\ L \in Nat /\ d \in Seq(Byte) /\ Len(d) \in Nat /\ Len(d) >= L
      /\ \A i \in 1..L : d[i] = b[i]
  OBVIOUS
<1> HIDE DEF d
<1>T. \A m \in 1..L + 1 : From(b)[m] \in RsRecords /\ From(d)[m] \in RsRecords
  BY <1>0, FromType
<1>1. ASSUME NEW m \in 1..L + 1, \A r \in m + 1..L + 1 : r \in S PROVE m \in S
  <2>0. /\ m \in 1..Len(d) + 1
        /\ \A y \in m..Len(d) + 1 : (\A j \in m..y - 1 : d[j] # HEADER) => From(d)[m] = From(d)[y]
    <3>1. m \in 1..Len(d) + 1
      BY <1>0
    <3>2. ASSUME NEW y \in m..Len(d) + 1, \A j \in m..y - 1 : d[j] # HEADER
          PROVE  From(d)[m] = From(d)[y]
      BY <1>0, <3>1, <3>2, Skip
    <3> QED BY <3>1, <3>2
  <2>k. ASSUME NEW q \in m..L + 1, \A j \in m..q - 1 : b[j] # HEADER, From(b)[m] = Kept(b, q)
        PROVE  Good(m)
    <3>1. q \in 1..Len(b) + 1 /\ q \in m..Len(d) + 1
      BY <1>0
    <3>2. /\ Kept(b, q) \in RsRecords /\ Kept(b, q).completed = <<>> /\ Kept(b, q).dropped = 0
          /\ Kept(b, q).buf = SubSeq(b, q, Len(b)) /\ Len(Kept(b, q).buf) = Len(b) + 1 - q
      BY <3>1, KeptType
    <3>3. Rest(b, m) = q
      <4>1. Rest(b, m) = Len(b) + 1 - (Len(b) + 1 - q)
        BY <2>k, <3>2 DEF Rest
      <4> QED BY <1>0, <4>1
    <3>4. \A j \in m..q - 1 : d[j] # HEADER
      BY <1>0, <2>k
    <3>5. From(d)[m] = From(d)[q]
      BY <2>0, <3>1, <3>4
    <3>6. Joined(Kept(b, q), From(d)[q]) = From(d)[q]
      BY <1>T, <3>1, <3>2, JoinedNone
    <3> QED BY <2>k, <3>2, <3>3, <3>5, <3>6
  <2>1. CASE NoHeader(b, m)
    <3>1. From(b)[m] = Kept(b, L + 1)
      BY <2>1, FromIs, NothingIsKept
    <3>2. L + 1 \in m..L + 1 /\ \A j \in m..(L + 1) - 1 : b[j] # HEADER
      BY <1>0, <2>1 DEF NoHeader
    <3> QED BY <2>k, <3>1, <3>2
  <2>2. ASSUME NEW q \in m..L, First(b, m, q) PROVE Good(m)
    <3>0. q \in 1..L /\ q \in 1..Len(d) /\ q \in m..Len(d) /\ q \in m..L + 1
      BY <1>0
    <3>h. b[q] = HEADER /\ d[q] = HEADER /\ \A j \in m..q - 1 : b[j] # HEADER /\ d[j] # HEADER
      <4>1. b[q] = HEADER /\ \A j \in m..q - 1 : b[j] # HEADER
        BY <2>2 DEF First
      <4>2. \A j \in m..q : d[j] = b[j]
        BY <1>0, <3>0
      <4> QED BY <3>0, <4>1, <4>2
    <3>f. First(d, m, q)
      BY <3>0, <3>h DEF First
    <3>1. CASE ~Complete(b, q)
      <4>1. From(b)[m] = Kept(b, q)
        BY <2>2, <3>1, TurnIs
      <4> QED BY <2>k, <3>0, <3>h, <4>1
    <3>2. CASE Complete(b, q)
      <4>1. /\ Complete(d, q) /\ Total(d, q) = Total(b, q) /\ DataOf(d, q) = DataOf(b, q)
            /\ (Valid(d, q) <=> Valid(b, q))
        <5>1. 0 \in Nat /\ q \in 1..Len(b) /\ Len(b) + 0 <= Len(d) /\ q + 0 = q
              /\ \A i \in q..Len(b) : d[i + 0] = b[i]
          BY <1>0
        <5>2. /\ Complete(d, q + 0) /\ Total(d, q + 0) = Total(b, q)
              /\ DataOf(d, q + 0) = DataOf(b, q) /\ (Valid(d, q + 0) <=> Valid(b, q))
          BY <1>0, <3>2, <5>1, FrameSame
        <5> QED BY <5>1, <5>2
      <4>t. ASSUME NEW n \in q + 1..L + 1
            PROVE  /\ From(d)[n] = Joined(From(b)[n], From(d)[Rest(b, n)])
                   /\ From(b)[n] \in RsRecords /\ From(d)[Rest(b, n)] \in RsRecords
                   /\ Rest(b, n) \in m..L + 1
                   /\ From(b)[n].buf = SubSeq(b, Rest(b, n), L)
        <5>1. n \in m + 1..L + 1 /\ n \in 1..L + 1
          OBVIOUS
        <5>2. Good(n)
          BY <1>1, <5>1
        <5>3. Rest(b, n) \in 1..L + 1 /\ Rest(b, n) \in m..L + 1
          BY <5>1, <5>2
        <5> QED BY <1>T, <5>1, <5>2, <5>3
      <4>g. ASSUME NEW n \in q + 1..L + 1, From(b)[m].buf = From(b)[n].buf,
                   From(d)[m] = Joined(From(b)[m], From(d)[Rest(b, n)])
            PROVE  Good(m)
        <5>1. Rest(b, m) = Rest(b, n)
          BY <4>g DEF Rest
        <5> QED BY <4>g, <4>t, <5>1
      <4>2. CASE Valid(b, q)
        <5> DEFINE n == q + Total(b, q)
                   D == DataOf(b, q)
        <5>1. n \in q + 1..L + 1 /\ D \in Seq(Byte)
          BY <2>2, <3>0, <3>2, TurnIs, FrameIs
        <5>2. From(b)[m] = WithPacket(From(b)[n], D)
          BY <2>2, <3>2, <4>2, TurnIs
        <5>3. From(d)[m] = WithPacket(From(d)[n], D)
          <6>1. From(d)[m] = WithPacket(From(d)[q + Total(d, q)], DataOf(d, q))
            BY <1>0, <2>0, <3>0, <3>f, <4>1, <4>2, TurnIs
          <6> QED BY <4>1, <6>1
        <5> HIDE DEF n, D
        <5>4. From(b)[m].buf = From(b)[n].buf
          BY <4>t, <5>1, <5>2, WithPacketIs
        <5>5. Joined(WithPacket(From(b)[n], D), From(d)[Rest(b, n)])
                  = WithPacket(Joined(From(b)[n], From(d)[Rest(b, n)]), D)
          BY <4>t, <5>1, WithPacketIs
        <5> QED BY <4>g, <4>t, <5>1, <5>2, <5>3, <5>4, <5>5
      <4>3. CASE ~Valid(b, q)
        <5> DEFINE n == q + 1
        <5>1. n \in q + 1..L + 1
          BY <3>0
        <5>2. From(b)[m] = WithoutHeader(From(b)[n])
          BY <2>2, <3>2, <4>3, TurnIs
        <5>3. From(d)[m] = WithoutHeader(From(d)[n])
          BY <1>0, <2>0, <3>0, <3>f, <4>1, <4>3, TurnIs
        <5> HIDE DEF n
        <5>4. From(b)[m].buf = From(b)[n].buf
          BY <4>t, <5>1, <5>2, WithoutHeaderIs
        <5>5. Joined(WithoutHeader(From(b)[n]), From(d)[Rest(b, n)])
                  = WithoutHeader(Joined(From(b)[n], From(d)[Rest(b, n)]))
          BY <4>t, <5>1, WithoutHeaderIs
        <5> QED BY <4>g, <4>t, <5>1, <5>2, <5>3, <5>4, <5>5
      <4> QED BY <4>2, <4>3
    <3> QED BY <3>1, <3>2
  <2>3. Good(m)
    BY <2>1, <2>2, FirstOrNone
  <2> QED BY <2>3
<1> HIDE DEF S
<1>2. 1..L + 1 \subseteq S
  <2> HIDE DEF L
  <2> QED BY <1>0, <1>1, DownInduction
<1>3. Good(p)
  BY <1>2 DEF S
<1> QED BY <1>3 DEF d

\* The loop from a position of a buffer's end is the loop from there in the whole buffer.
LEMMA ParseShift ==
    ASSUME NEW b \in Seq(Byte), NEW s \in Nat, s <= Len(b),
           NEW p \in 1..(Len(b) - s) + 1
    PROVE  From(SubSeq(b, s + 1, Len(b)))[p] = From(b)[p + s]
<1> DEFINE d == SubSeq(b, s + 1, Len(b))
           L == Len(d)
           S == {m \in 1..L + 1 : From(d)[m] = From(b)[m + s]}
<1>0. /\ d \in Seq(Byte) /\ L = Len(b) - s /\ L \in Nat /\ Len(b) \in Nat
      /\ \A i \in 1..L : b[i + s] = d[i]
  OBVIOUS
<1> HIDE DEF d
<1>1. ASSUME NEW m \in 1..L + 1, \A r \in m + 1..L + 1 : r \in S PROVE m \in S
  <2>0. m + s \in 1..Len(b) + 1
    BY <1>0
  <2>1. ASSUME NoHeader(d, m) PROVE From(d)[m] = From(b)[m + s]
    <3>1. NoHeader(b, m + s)
      <4>1. ASSUME NEW j \in m + s..Len(b) PROVE b[j] # HEADER
        <5>1. j - s \in m..L /\ (j - s) + s = j /\ j - s \in 1..L
          BY <1>0
        <5>2. d[j - s] # HEADER /\ b[(j - s) + s] = d[j - s]
          BY <1>0, <2>1, <5>1 DEF NoHeader
        <5> QED BY <5>1, <5>2
      <4> QED BY <4>1 DEF NoHeader
    <3>2. From(d)[m] = Nothing
      BY <1>0, <2>1, FromIs
    <3>3. From(b)[m + s] = Nothing
      BY <2>0, <3>1, FromIs
    <3> QED BY <3>2, <3>3
  <2>2. ASSUME NEW q \in m..L, First(d, m, q) PROVE From(d)[m] = From(b)[m + s]
    <3> DEFINE t == q + s
    <3>0. /\ q \in 1..L /\ t \in m + s..Len(b) /\ t \in 1..Len(b)
          /\ Len(d) + s <= Len(b) /\ \A i \in q..Len(d) : b[i + s] = d[i]
      BY <1>0
    <3>1. First(b, m + s, t)
      <4>1. b[t] = HEADER
        BY <1>0, <2>2, <3>0 DEF First
      <4>2. ASSUME NEW j \in m + s..t - 1 PROVE b[j] # HEADER
        <5>1. j - s \in m..q - 1 /\ (j - s) + s = j /\ j - s \in 1..L
          BY <1>0
        <5>2. d[j - s] # HEADER /\ b[(j - s) + s] = d[j - s]
          BY <1>0, <2>2, <5>1 DEF First
        <5> QED BY <5>1, <5>2
      <4> QED BY <3>0, <4>1, <4>2 DEF First
    <3>2. CASE Complete(d, q)
      <4>1. /\ Complete(b, t) /\ Total(b, t) = Total(d, q) /\ DataOf(b, t) = DataOf(d, q)
            /\ (Valid(b, t) <=> Valid(d, q))
        BY <1>0, <3>0, <3>2, FrameSame
      <4>2. Total(d, q) \in Nat /\ q + Total(d, q) \in q + 1..L + 1
        BY SMTT(30), ZenonT(30), <1>0, <3>0, <3>2, FrameIs
      <4>3. ASSUME NEW n \in q + 1..L + 1 PROVE From(d)[n] = From(b)[n + s]
        <5>1. n \in m + 1..L + 1
          OBVIOUS
        <5> QED BY <1>1, <5>1
      <4>4. CASE Valid(d, q)
        <5>1. From(d)[m] = WithPacket(From(d)[q + Total(d, q)], DataOf(d, q))
          BY <1>0, <2>2, <3>2, <4>4, TurnIs
        <5>2. From(b)[m + s] = WithPacket(From(b)[t + Total(b, t)], DataOf(b, t))
          BY <2>0, <3>0, <3>1, <4>1, <4>4, TurnIs
        <5>3. (q + Total(d, q)) + s = t + Total(b, t)
          BY <1>0, <4>1, <4>2
        <5>4. From(d)[q + Total(d, q)] = From(b)[(q + Total(d, q)) + s]
          BY <4>2, <4>3
        <5> QED BY <4>1, <5>1, <5>2, <5>3, <5>4
      <4>5. CASE ~Valid(d, q)
        <5>1. From(d)[m] = WithoutHeader(From(d)[q + 1])
          BY <1>0, <2>2, <3>2, <4>5, TurnIs
        <5>2. From(b)[m + s] = WithoutHeader(From(b)[t + 1])
          BY <2>0, <3>0, <3>1, <4>1, <4>5, TurnIs
        <5>3. (q + 1) + s = t + 1 /\ q + 1 \in q + 1..L + 1
          BY <1>0, <3>0
        <5>4. From(d)[q + 1] = From(b)[(q + 1) + s]
          BY <4>3, <5>3
        <5> QED BY <5>1, <5>2, <5>3, <5>4
      <4> QED BY <4>4, <4>5
    <3>3. CASE ~Complete(d, q)
      <4>1. ~Complete(b, t)
        <5> SUFFICES ASSUME Complete(b, t) PROVE FALSE
          OBVIOUS
        <5>1. t < Len(b) /\ t + Total(b, t) - 1 <= Len(b)
          BY DEF Complete
        <5>2. q + 1 \in 1..L /\ (q + 1) + s = t + 1
          BY <1>0, <3>0, <5>1
        <5>3. b[t + 1] = d[q + 1]
          <6>1. b[(q + 1) + s] = d[q + 1]
            BY <1>0, <5>2
          <6> QED BY <5>2, <6>1
        <5>4. Total(b, t) = Total(d, q)
          BY <5>3 DEF Total
        <5>5. Total(d, q) \in Nat
          <6>1. d[q + 1] \in Nat
            BY <1>0, <5>2, BytesAreNat
          <6> QED BY <6>1 DEF Total
        <5>6. q < Len(d) /\ q + Total(d, q) - 1 <= Len(d)
          BY <1>0, <3>0, <5>1, <5>2, <5>4, <5>5
        <5> QED BY <3>3, <5>6 DEF Complete
      <4>2. SubSeq(b, t, Len(b)) = SubSeq(d, q, Len(d))
        <5> DEFINE e == SubSeq(b, t, Len(b))
                   f == SubSeq(d, q, Len(d))
        <5>1. /\ e \in Seq(Byte) /\ Len(e) = Len(b) + 1 - t
              /\ \A i \in 1..Len(b) + 1 - t : e[i] = b[t + i - 1]
          BY <3>0
        <5>2. /\ f \in Seq(Byte) /\ Len(f) = Len(d) + 1 - q
              /\ \A i \in 1..Len(d) + 1 - q : f[i] = d[q + i - 1]
          BY <1>0, <3>0
        <5>3. Len(d) + 1 - q = Len(b) + 1 - t
          BY <1>0, <3>0
        <5>4. ASSUME NEW i \in 1..Len(d) + 1 - q PROVE e[i] = f[i]
          <6>1. q + i - 1 \in q..Len(d) /\ (q + i - 1) + s = t + i - 1
            BY <1>0, <3>0
          <6>2. b[(q + i - 1) + s] = d[q + i - 1]
            BY <3>0, <6>1
          <6>3. e[i] = b[t + i - 1]
            BY <5>1, <5>3
          <6>4. f[i] = d[q + i - 1]
            BY <5>2
          <6> QED BY <6>1, <6>2, <6>3, <6>4
        <5> HIDE DEF e, f
        <5>5. Len(e) = Len(f) /\ \A i \in 1..Len(e) : e[i] = f[i]
          BY <5>1, <5>2, <5>3, <5>4
        <5>6. e = f
          BY <5>1, <5>2, <5>5, SeqEqual
        <5> QED BY <5>6 DEF e, f
      <4>3. From(d)[m] = Kept(d, q)
        BY <1>0, <2>2, <3>3, TurnIs
      <4>4. From(b)[m + s] = Kept(b, t)
        BY <2>0, <3>0, <3>1, <4>1, TurnIs
      <4> QED BY <4>2, <4>3, <4>4 DEF Kept
    <3> QED BY <3>2, <3>3
  <2>3. From(d)[m] = From(b)[m + s]
    BY <1>0, <2>1, <2>2, FirstOrNone
  <2> QED BY <2>3
<1> HIDE DEF S
<1>2. 1..L + 1 \subseteq S
  <2> HIDE DEF L
  <2> QED BY <1>0, <1>1, DownInduction
<1>3. p \in S
  BY <1>0, <1>2
<1> QED BY <1>3 DEF S, d

\* Cutting the stream into chunks makes no difference.
LEMMA ParsedConcat ==
    ASSUME NEW b \in Seq(Byte), NEW c \in Seq(Byte)
    PROVE  /\ Parsed(b) \in RsRecords
           /\ Parsed(b \o c) = Joined(Parsed(b), Parsed(Parsed(b).buf \o c))
<1> DEFINE d == b \o c
           k == Rest(b, 1)
<1>1. 1 \in 1..Len(b) + 1 /\ d \in Seq(Byte) /\ Len(d) = Len(b) + Len(c)
  OBVIOUS
<1>2. /\ k \in 1..Len(b) + 1 /\ From(b)[1].buf = SubSeq(b, k, Len(b))
      /\ From(d)[1] = Joined(From(b)[1], From(d)[k])
  BY <1>1, ParseConcat
<1> HIDE DEF k
<1>3. SubSeq(d, k, Len(d)) = SubSeq(b, k, Len(b)) \o c
  BY SMTT(30), ZenonT(30), <1>2
<1> DEFINE s == k - 1
<1>4. s \in Nat /\ s <= Len(d) /\ 1 \in 1..(Len(d) - s) + 1 /\ s + 1 = k /\ 1 + s = k
  BY <1>1, <1>2
<1> HIDE DEF d, s
<1>5. From(SubSeq(d, s + 1, Len(d)))[1] = From(d)[1 + s]
  BY <1>1, <1>4, ParseShift
<1>6. Parsed(SubSeq(b, k, Len(b)) \o c) = From(d)[k]
  BY <1>3, <1>4, <1>5 DEF Parsed
<1>7. From(b)[1] \in RsRecords
  BY <1>1, FromType
<1> QED BY <1>2, <1>6, <1>7 DEF Parsed, d

-------------------------------------------------------------------------------
(* What the line sends *)

Frame(data, chk) == <<HEADER, Len(data)>> \o data \o <<chk>>

LEMMA PayloadIs ==
    ASSUME NEW data \in Payload
    PROVE  data \in Seq(Byte) /\ Len(data) \in Byte /\ checksum(Len(data), data) \in Byte
<1>1. PICK m \in 0..Radix - 1 : data \in [1..m -> Byte]
  BY DEF Payload, BoundedSeq, SeqOf
<1>2. data \in Seq(Byte) /\ Len(data) = m
  BY <1>1, ByteIs
<1>3. Len(data) \in Byte /\ Len(data) \in Nat
  BY <1>2 DEF Byte
<1> QED BY <1>2, <1>3, ChecksumType

LEMMA SentFrame ==
    ASSUME NEW data \in Seq(Byte), Len(data) \in Byte, NEW chk \in Byte
    PROVE  /\ Frame(data, chk) \in Seq(Byte) /\ Len(Frame(data, chk)) = Len(data) + 3
           /\ Frame(data, chk)[1] = HEADER /\ Frame(data, chk)[2] = Len(data)
           /\ \A i \in 1..Len(data) : Frame(data, chk)[i + 2] = data[i]
           /\ Frame(data, chk)[Len(data) + 3] = chk
           /\ Frame(data, chk) = Append(<<HEADER, Len(data)>> \o data, chk)
<1> DEFINE n == Len(data)
           a == <<HEADER, n>>
           x == Frame(data, chk)
<1>1. HEADER \in Byte /\ n \in Byte /\ n \in Nat
  BY ByteIs
<1>2. a \in Seq(Byte) /\ Len(a) = 2 /\ a[1] = HEADER /\ a[2] = n
  BY <1>1
<1> DEFINE y == a \o data
<1>3. x = y \o <<chk>>
  BY DEF Frame
<1>4. y \in Seq(Byte) /\ Len(y) = n + 2 /\ y[1] = a[1] /\ y[2] = a[2]
      /\ \A i \in 1..n : y[i + 2] = data[i]
  <2>0. data \in Seq(Byte)
    OBVIOUS
  <2> HIDE DEF a
  <2>1. y \in Seq(Byte) /\ Len(y) = Len(a) + n
    BY <1>2, <2>0, ConcatProperties
  <2>2. \A i \in 1..Len(a) + n : y[i] = IF i <= Len(a) THEN a[i] ELSE data[i - Len(a)]
    BY <1>2, <2>0, ConcatProperties
  <2> HIDE DEF y, n
  <2>3. y[1] = a[1] /\ y[2] = a[2] /\ Len(y) = n + 2
    BY <1>1, <1>2, <2>1, <2>2
  <2>4. ASSUME NEW i \in 1..n PROVE y[i + 2] = data[i]
    <3>1. i + 2 \in 1..Len(a) + n /\ ~(i + 2 <= Len(a)) /\ (i + 2) - Len(a) = i
      BY <1>1, <1>2
    <3> QED BY <2>2, <3>1
  <2> QED BY <2>1, <2>3, <2>4
<1> HIDE DEF x, y, n
<1>5. x = Append(y, chk) /\ x \in Seq(Byte) /\ Len(x) = n + 3
  BY <1>1, <1>3, <1>4
<1>6. (\A i \in 1..n + 2 : x[i] = y[i]) /\ x[n + 3] = chk
  BY <1>1, <1>4, <1>5
<1>7. ASSUME NEW i \in 1..n PROVE x[i + 2] = data[i]
  <2>1. i + 2 \in 1..n + 2
    BY <1>1
  <2> QED BY <1>4, <1>6, <2>1
<1>8. x[1] = HEADER /\ x[2] = n
  <2>1. 1 \in 1..n + 2 /\ 2 \in 1..n + 2
    BY <1>1
  <2> QED BY <1>2, <1>4, <1>6, <2>1
<1> QED BY <1>5, <1>6, <1>7, <1>8 DEF x, y, n

\* StateMachineParser takes a frame as one packet, intact or corrupt.
LEMMA FrameStepped ==
    ASSUME NEW p \in SmRecords, p.state = "WAIT_HEADER",
           NEW data \in Seq(Byte), Len(data) \in Byte, NEW chk \in Byte
    PROVE  LET q == Stepped(p, Frame(data, chk)) IN
           /\ q.state = "WAIT_HEADER"
           /\ chk = checksum(Len(data), data) =>
                  q.completed = Append(p.completed, data) /\ q.dropped = p.dropped
           /\ chk # checksum(Len(data), data) =>
                  q.completed = p.completed /\ q.dropped = p.dropped + 1
<1> DEFINE n == Len(data)
           a == <<HEADER, n>> \o data
           r == Stepped(p, a)
<1>1. r = [p EXCEPT !.state = "READ_CHECKSUM", !.length = n, !.data = data]
  <2>1. Len(data) <= n
    OBVIOUS
  <2>2. r = [p EXCEPT !.state = IF Len(data) = n THEN "READ_CHECKSUM" ELSE "READ_DATA",
                      !.length = n, !.data = data]
    BY <2>1, DataStepped
  <2> QED BY <2>2
<1>2. a \in Seq(Byte)
  BY ByteIs
<1>3. Frame(data, chk) = Append(a, chk)
  BY SentFrame
<1> HIDE DEF a
<1>4. Stepped(p, Frame(data, chk)) = Step(r, chk)
  BY <1>2, <1>3, SteppedAppend
<1> HIDE DEF r
<1>5. /\ r.state = "READ_CHECKSUM" /\ r.length = n /\ r.data = data
      /\ r.completed = p.completed /\ r.dropped = p.dropped
  BY <1>1 DEF SmRecords
<1>6. r \in SmRecords
  BY <1>1 DEF SmRecords
<1>7. Step(r, chk) = StepChecksum(r, chk)
  BY <1>5 DEF Step
<1>8. CASE chk = checksum(n, data)
  BY <1>4, <1>5, <1>6, <1>7, <1>8 DEF StepChecksum, SmRecords
<1>9. CASE chk # checksum(n, data)
  BY <1>4, <1>5, <1>6, <1>7, <1>9 DEF StepChecksum, SmRecords
<1> QED BY <1>8, <1>9

LEMMA NoiseStepped ==
    ASSUME NEW p \in SmRecords, p.state = "WAIT_HEADER", NEW byte \in Byte, byte # HEADER
    PROVE  Stepped(p, <<byte>>) = p
<1>1. <<byte>> = Append(<<>>, byte) /\ <<>> \in Seq(Byte)
  OBVIOUS
<1>2. Stepped(p, <<byte>>) = Step(p, byte)
  BY SMTT(30), ZenonT(30), <1>1, SteppedAppend, SteppedNone
<1> QED BY <1>2 DEF Step

\* ResyncingParser completes an intact frame, keeping nothing.
LEMMA FrameParsed ==
    ASSUME NEW data \in Seq(Byte), Len(data) \in Byte, NEW chk \in Byte
    PROVE  /\ chk = checksum(Len(data), data) =>
                  Parsed(Frame(data, chk)) = [buf |-> <<>>, completed |-> <<data>>, dropped |-> 0]
           /\ chk # checksum(Len(data), data) /\ HEADER \notin {Len(data), chk} /\ ~Contains(data, HEADER) =>
                  Parsed(Frame(data, chk)) = [buf |-> <<>>, completed |-> <<>>, dropped |-> 1]
<1> DEFINE n == Len(data)
           x == Frame(data, chk)
<1>1. /\ x \in Seq(Byte) /\ Len(x) = n + 3 /\ x[1] = HEADER /\ x[2] = n /\ x[n + 3] = chk
      /\ \A i \in 1..n : x[i + 2] = data[i]
  BY SentFrame
<1>2. n \in Nat
  OBVIOUS
<1> HIDE DEF x
<1>3. Total(x, 1) = n + 3 /\ Complete(x, 1)
  <2>1. x[1 + 1] = n
    BY <1>1
  <2>2. Total(x, 1) = n + 3
    BY <2>1 DEF Total
  <2> QED BY <1>1, <1>2, <2>2 DEF Complete
<1>4. DataOf(x, 1) = data
  <2>1. /\ DataOf(x, 1) \in Seq(Byte) /\ Len(DataOf(x, 1)) = n
        /\ \A i \in 1..n : DataOf(x, 1)[i] = x[1 + 1 + i]
    <3>1. 1 \in 1..Len(x) /\ x[1 + 1] = n
      BY <1>1, <1>2
    <3> QED BY <1>1, <1>3, <3>1, FrameIs
  <2>2. ASSUME NEW i \in 1..n PROVE DataOf(x, 1)[i] = data[i]
    <3>1. 1 + 1 + i = i + 2
      OBVIOUS
    <3> QED BY <1>1, <2>1, <3>1
  <2> QED BY <2>1, <2>2, SeqEqual
<1>5. Valid(x, 1) <=> chk = checksum(n, data)
  <2>1. 1 + Total(x, 1) - 1 = n + 3 /\ x[1 + 1] = n
    BY <1>1, <1>2, <1>3
  <2> QED BY <1>1, <1>4, <2>1 DEF Valid
<1>6. First(x, 1, 1) /\ 1 \in 1..Len(x) + 1 /\ 1 \in 1..Len(x)
  BY <1>1, <1>2 DEF First
<1>7. ASSUME NEW p \in 2..n + 4, \A j \in p..n + 3 : x[j] # HEADER PROVE From(x)[p] = Nothing
  <2>1. p \in 1..Len(x) + 1 /\ NoHeader(x, p)
    BY <1>1, <1>2, <1>7 DEF NoHeader
  <2> QED BY <1>1, <2>1, FromIs
<1>8. CASE chk = checksum(n, data)
  <2>1. From(x)[1] = WithPacket(From(x)[1 + Total(x, 1)], data)
    BY <1>1, <1>3, <1>4, <1>5, <1>6, <1>8, TurnIs
  <2>2. 1 + Total(x, 1) = n + 4 /\ n + 4 \in 2..n + 4 /\ n + 4..n + 3 = {}
    BY <1>2, <1>3
  <2>3. From(x)[1] = WithPacket(Nothing, data)
    BY <1>7, <2>1, <2>2
  <2>4. <<data>> \o <<>> = <<data>>
    OBVIOUS
  <2>5. WithPacket(Nothing, data) = [buf |-> <<>>, completed |-> <<data>>, dropped |-> 0]
    <3> DEFINE v == <<data>>
    <3>1. WithPacket(Nothing, data) = [Nothing EXCEPT !.completed = v]
      BY <2>4 DEF WithPacket, Nothing
    <3> HIDE DEF v
    <3> QED BY <3>1 DEF Nothing, v
  <2> QED BY <1>8, <2>3, <2>5 DEF Parsed, x
<1>9. ASSUME chk # checksum(n, data), HEADER \notin {n, chk}, ~Contains(data, HEADER)
      PROVE  Parsed(x) = [buf |-> <<>>, completed |-> <<>>, dropped |-> 1]
  <2>1. From(x)[1] = WithoutHeader(From(x)[1 + 1])
    BY <1>1, <1>3, <1>5, <1>6, <1>9, TurnIs
  <2>2. ASSUME NEW j \in 2..n + 3 PROVE x[j] # HEADER
    <3>1. CASE j = 2
      BY <1>1, <1>9, <3>1
    <3>2. CASE j = n + 3
      BY <1>1, <1>9, <3>2
    <3>3. CASE j # 2 /\ j # n + 3
      <4>1. j - 2 \in 1..n /\ (j - 2) + 2 = j
        BY <1>2, <3>3
      <4>2. x[j] = data[j - 2]
        <5>1. x[(j - 2) + 2] = data[j - 2]
          BY <1>1, <4>1
        <5> QED BY <4>1, <5>1
      <4>3. data[j - 2] # HEADER
        BY <1>9, <4>1 DEF Contains
      <4> QED BY <4>2, <4>3
    <3> QED BY <3>1, <3>2, <3>3
  <2>3. 1 + 1 = 2 /\ 2 \in 2..n + 4
    BY <1>2
  <2>4. From(x)[2] = Nothing
    BY <1>7, <2>2, <2>3
  <2>5. From(x)[1] = WithoutHeader(Nothing)
    BY <2>1, <2>3, <2>4
  <2>6. WithoutHeader(Nothing) = [buf |-> <<>>, completed |-> <<>>, dropped |-> 1]
    BY DEF WithoutHeader, Nothing
  <2> QED BY <2>5, <2>6 DEF Parsed
<1> QED BY <1>8, <1>9 DEF x

LEMMA NoiseParsed ==
    ASSUME NEW byte \in Byte, byte # HEADER
    PROVE  Parsed(<<byte>>) = Nothing
<1> DEFINE x == <<byte>>
<1>1. x \in Seq(Byte) /\ Len(x) = 1 /\ x[1] = byte /\ 1 \in 1..Len(x) + 1
  OBVIOUS
<1> HIDE DEF x
<1>2. NoHeader(x, 1)
  BY <1>1 DEF NoHeader
<1>3. From(x)[1] = Nothing
  BY <1>1, <1>2, FromIs
<1> QED BY <1>3 DEF Parsed, x

-------------------------------------------------------------------------------
(* The inductive invariant: each parser, with what was taken from it, is where the *)
(* bytes it was fed bring a new one, and all the bytes sent would bring it to what  *)
(* was sent.                                                                        *)

Fed == SubSeq(stream, 1, fed)

LineInv ==
    /\ stream \in Seq(Byte) /\ fed \in 0..Len(stream)
    /\ sent \in Seq(Seq(Byte)) /\ bads \in Nat
    /\ handed \in [sm : Seq(Seq(Byte)), rs : Seq(Seq(Byte))]

SmInv ==
    /\ sm \in SmRecords
    /\ Held(sm, handed.sm) = Stepped(NewStateMachine, Fed)
    /\ clean => LET q == Stepped(NewStateMachine, stream) IN
                q.state = "WAIT_HEADER" /\ q.completed = sent /\ q.dropped = bads

RsInv ==
    /\ rs \in RsRecords
    /\ Parsed(Fed) = [buf |-> rs.buf, completed |-> handed.rs \o rs.completed, dropped |-> rs.dropped]
    /\ clean /\ tame => Parsed(stream) = [buf |-> <<>>, completed |-> sent, dropped |-> bads]

Inv == LineInv /\ SmInv /\ RsInv

LEMMA NewType == NewStateMachine \in SmRecords
<1>1. 0 \in Byte
  BY ByteIs DEF Byte
<1>2. <<>> \in Seq(Byte) /\ <<>> \in Seq(Seq(Byte))
  OBVIOUS
<1> QED BY <1>1, <1>2 DEF NewStateMachine, SmRecords

LEMMA ParsedNone == Parsed(<<>>) = Nothing
<1>1. <<>> \in Seq(Byte) /\ Len(<<>>) = 0 /\ 1 \in 1..0 + 1
  OBVIOUS
<1>2. NoHeader(<<>>, 1)
  BY <1>1 DEF NoHeader
<1>3. From(<<>>)[1] = Nothing
  BY <1>1, <1>2, FromIs
<1> QED BY <1>3 DEF Parsed

LEMMA InitInv == Init => Inv
<1> SUFFICES ASSUME Init PROVE Inv
  OBVIOUS
<1> USE DEF Init
<1>1. <<>> \in Seq(Byte) /\ <<>> \in Seq(Seq(Byte)) /\ <<>> \o <<>> = <<>> /\ Len(<<>>) = 0
      /\ SubSeq(<<>>, 1, 0) = <<>>
  OBVIOUS
<1>2. Fed = <<>>
  BY <1>1 DEF Fed
<1>3. LineInv
  BY <1>1 DEF LineInv
<1>4. SmInv
  <2>1. Held(sm, handed.sm) = NewStateMachine
    BY <1>1 DEF Held, NewStateMachine
  <2>2. Stepped(NewStateMachine, <<>>) = NewStateMachine
    BY SteppedNone
  <2> QED BY <1>2, <2>1, <2>2, NewType DEF SmInv, NewStateMachine
<1>5. RsInv
  BY <1>1, <1>2, ParsedNone DEF RsInv, RsRecords, NewResyncing, Nothing
<1> QED BY <1>3, <1>4, <1>5 DEF Inv

\* What is sent does not change what was fed.
LEMMA SendsKeeps ==
    ASSUME Inv, NEW bytes \in Seq(Byte), Sends(bytes)
    PROVE  /\ stream' = stream \o bytes /\ stream' \in Seq(Byte) /\ fed' \in 0..Len(stream')
           /\ Fed' = Fed /\ UNCHANGED <<fed, sm, rs, handed>>
<1>1. /\ stream' = stream \o bytes /\ UNCHANGED <<fed, sm, rs, handed>>
      /\ stream \in Seq(Byte) /\ fed \in 0..Len(stream)
  BY DEF Sends, parsers, Inv, LineInv
<1>2. stream \o bytes \in Seq(Byte) /\ Len(stream \o bytes) = Len(stream) + Len(bytes)
  BY <1>1
<1>3. SubSeq(stream \o bytes, 1, fed) = SubSeq(stream, 1, fed)
  BY <1>1
<1>4. fed \in 0..Len(stream \o bytes)
  BY <1>1, <1>2
<1> QED BY <1>1, <1>2, <1>3, <1>4 DEF Fed

\* A new StateMachineParser that is given one thing more.
LEMMA SmSends ==
    ASSUME Inv, NEW bytes \in Seq(Byte), Sends(bytes), clean
    PROVE  \E p \in SmRecords : /\ p.state = "WAIT_HEADER" /\ p.completed = sent /\ p.dropped = bads
                                /\ Stepped(NewStateMachine, stream') = Stepped(p, bytes)
<1> DEFINE p == Stepped(NewStateMachine, stream)
<1>1. stream \in Seq(Byte) /\ p.state = "WAIT_HEADER" /\ p.completed = sent /\ p.dropped = bads
  BY DEF Inv, SmInv, LineInv
<1>2. p \in SmRecords
  BY <1>1, NewType, SteppedType
<1>3. stream' = stream \o bytes
  BY SendsKeeps
<1>4. Stepped(NewStateMachine, stream \o bytes) = Stepped(p, bytes)
  BY <1>1, SteppedConcat
<1> HIDE DEF p
<1> QED BY <1>1, <1>2, <1>3, <1>4

\* A ResyncingParser, likewise.
LEMMA RsSends ==
    ASSUME Inv, NEW bytes \in Seq(Byte), Sends(bytes), clean, tame
    PROVE  Parsed(stream') = [buf |-> Parsed(bytes).buf, completed |-> sent \o Parsed(bytes).completed,
                              dropped |-> bads + Parsed(bytes).dropped]
<1>1. stream \in Seq(Byte) /\ Parsed(stream) = [buf |-> <<>>, completed |-> sent, dropped |-> bads]
  BY DEF Inv, RsInv, LineInv
<1>2. stream' = stream \o bytes
  BY SendsKeeps
<1>3. Parsed(stream \o bytes) = Joined(Parsed(stream), Parsed(Parsed(stream).buf \o bytes))
  BY <1>1, ParsedConcat
<1>4. Parsed(stream).buf \o bytes = bytes
  BY <1>1
<1> QED BY <1>1, <1>2, <1>3, <1>4 DEF Joined

LEMMA SendPacketInv ==
    ASSUME Inv, NEW data \in Payload, SendPacket(data)
    PROVE  Inv'
<1> DEFINE chk == checksum(Len(data), data)
           bytes == Frame(data, chk)
<1>1. data \in Seq(Byte) /\ Len(data) \in Byte /\ chk \in Byte
  BY PayloadIs
<1>2. Sends(bytes) /\ sent' = Append(sent, data) /\ UNCHANGED <<bads, clean, tame>>
  BY DEF SendPacket, make_packet, Frame
<1>3. bytes \in Seq(Byte)
  BY <1>1, SentFrame
<1>4. \A p \in SmRecords : p.state = "WAIT_HEADER" =>
          /\ Stepped(p, bytes).state = "WAIT_HEADER"
          /\ Stepped(p, bytes).completed = Append(p.completed, data)
          /\ Stepped(p, bytes).dropped = p.dropped
  BY <1>1, FrameStepped
<1>5. Parsed(bytes) = [buf |-> <<>>, completed |-> <<data>>, dropped |-> 0]
  BY <1>1, FrameParsed
<1> HIDE DEF bytes
<1>6. /\ stream' = stream \o bytes /\ stream' \in Seq(Byte) /\ fed' \in 0..Len(stream')
      /\ Fed' = Fed /\ UNCHANGED <<fed, sm, rs, handed>>
  BY <1>2, <1>3, SendsKeeps
<1>7. LineInv'
  <2>1. Append(sent, data) \in Seq(Seq(Byte))
    BY <1>1 DEF Inv, LineInv
  <2> QED BY <1>2, <1>6, <2>1 DEF Inv, LineInv
<1>8. SmInv'
  <2>1. ASSUME clean
        PROVE  /\ Stepped(NewStateMachine, stream').state = "WAIT_HEADER"
               /\ Stepped(NewStateMachine, stream').completed = Append(sent, data)
               /\ Stepped(NewStateMachine, stream').dropped = bads
    BY <1>2, <1>3, <1>4, <2>1, SmSends
  <2> QED BY <1>2, <1>6, <2>1 DEF Inv, SmInv
<1>9. RsInv'
  <2>1. ASSUME clean, tame
        PROVE  Parsed(stream') = [buf |-> <<>>, completed |-> Append(sent, data), dropped |-> bads]
    <3>1. Parsed(stream') = [buf |-> <<>>, completed |-> sent \o <<data>>, dropped |-> bads + 0]
      BY <1>2, <1>3, <1>5, <2>1, RsSends
    <3>2. sent \o <<data>> = Append(sent, data) /\ bads + 0 = bads
      BY <1>1 DEF Inv, LineInv
    <3> QED BY <3>1, <3>2
  <2> QED BY <1>2, <1>6, <2>1 DEF Inv, RsInv
<1> QED BY <1>7, <1>8, <1>9 DEF Inv

LEMMA SendCorruptInv ==
    ASSUME Inv, NEW data \in Payload, NEW chk \in Byte, SendCorrupt(data, chk)
    PROVE  Inv'
<1> DEFINE bytes == Frame(data, chk)
           quiet == HEADER \notin {Len(data), chk} /\ ~Contains(data, HEADER)
<1>1. data \in Seq(Byte) /\ Len(data) \in Byte /\ chk # checksum(Len(data), data)
  BY PayloadIs DEF SendCorrupt
<1>2. Sends(bytes) /\ bads' = bads + 1 /\ tame' = (tame /\ quiet) /\ UNCHANGED <<sent, clean>>
  BY DEF SendCorrupt, Frame
<1>3. bytes \in Seq(Byte)
  BY <1>1, SentFrame
<1>4. \A p \in SmRecords : p.state = "WAIT_HEADER" =>
          /\ Stepped(p, bytes).state = "WAIT_HEADER"
          /\ Stepped(p, bytes).completed = p.completed
          /\ Stepped(p, bytes).dropped = p.dropped + 1
  BY <1>1, FrameStepped
<1>5. quiet => Parsed(bytes) = [buf |-> <<>>, completed |-> <<>>, dropped |-> 1]
  BY <1>1, FrameParsed
<1> HIDE DEF bytes, quiet
<1>6. /\ stream' = stream \o bytes /\ stream' \in Seq(Byte) /\ fed' \in 0..Len(stream')
      /\ Fed' = Fed /\ UNCHANGED <<fed, sm, rs, handed>>
  BY <1>2, <1>3, SendsKeeps
<1>7. LineInv'
  BY <1>2, <1>6 DEF Inv, LineInv
<1>8. SmInv'
  <2>1. ASSUME clean
        PROVE  /\ Stepped(NewStateMachine, stream').state = "WAIT_HEADER"
               /\ Stepped(NewStateMachine, stream').completed = sent
               /\ Stepped(NewStateMachine, stream').dropped = bads + 1
    BY <1>2, <1>3, <1>4, <2>1, SmSends
  <2> QED BY <1>2, <1>6, <2>1 DEF Inv, SmInv
<1>9. RsInv'
  <2>1. ASSUME clean, tame, quiet
        PROVE  Parsed(stream') = [buf |-> <<>>, completed |-> sent, dropped |-> bads + 1]
    <3>0. Parsed(bytes).buf = <<>> /\ Parsed(bytes).completed = <<>> /\ Parsed(bytes).dropped = 1
      BY <1>5, <2>1
    <3>1. Parsed(stream') = [buf |-> <<>>, completed |-> sent \o <<>>, dropped |-> bads + 1]
      <4> DEFINE r == Parsed(bytes)
      <4>1. Parsed(stream') = [buf |-> r.buf, completed |-> sent \o r.completed, dropped |-> bads + r.dropped]
        BY <1>2, <1>3, <2>1, RsSends
      <4> HIDE DEF r
      <4>2. r.buf = <<>> /\ r.completed = <<>> /\ r.dropped = 1
        BY <3>0 DEF r
      <4> QED BY <4>1, <4>2
    <3>2. sent \o <<>> = sent
      BY DEF Inv, LineInv
    <3> QED BY <3>1, <3>2
  <2> QED BY <1>2, <1>6, <2>1 DEF Inv, RsInv
<1> QED BY <1>7, <1>8, <1>9 DEF Inv

LEMMA SendNoiseInv ==
    ASSUME Inv, NEW byte \in Byte, SendNoise(byte)
    PROVE  Inv'
<1> DEFINE bytes == <<byte>>
<1>1. bytes \in Seq(Byte)
  OBVIOUS
<1>2. Sends(bytes) /\ clean' = (clean /\ byte # HEADER) /\ UNCHANGED <<sent, bads, tame>>
  BY DEF SendNoise
<1>3. byte # HEADER => \A p \in SmRecords : p.state = "WAIT_HEADER" => Stepped(p, bytes) = p
  BY NoiseStepped
<1>4. byte # HEADER => Parsed(bytes) = Nothing
  BY NoiseParsed
<1> HIDE DEF bytes
<1>5. /\ stream' = stream \o bytes /\ stream' \in Seq(Byte) /\ fed' \in 0..Len(stream')
      /\ Fed' = Fed /\ UNCHANGED <<fed, sm, rs, handed>>
  BY <1>1, <1>2, SendsKeeps
<1>6. LineInv'
  BY <1>2, <1>5 DEF Inv, LineInv
<1>7. SmInv'
  <2>1. ASSUME clean, byte # HEADER
        PROVE  /\ Stepped(NewStateMachine, stream').state = "WAIT_HEADER"
               /\ Stepped(NewStateMachine, stream').completed = sent
               /\ Stepped(NewStateMachine, stream').dropped = bads
    BY <1>1, <1>2, <1>3, <2>1, SmSends
  <2> QED BY <1>2, <1>5, <2>1 DEF Inv, SmInv
<1>8. RsInv'
  <2>1. ASSUME clean, tame, byte # HEADER
        PROVE  Parsed(stream') = [buf |-> <<>>, completed |-> sent, dropped |-> bads]
    <3>0. Parsed(bytes).buf = <<>> /\ Parsed(bytes).completed = <<>> /\ Parsed(bytes).dropped = 0
      BY <1>4, <2>1 DEF Nothing
    <3>1. Parsed(stream') = [buf |-> <<>>, completed |-> sent \o <<>>, dropped |-> bads + 0]
      <4> DEFINE r == Parsed(bytes)
      <4>1. Parsed(stream') = [buf |-> r.buf, completed |-> sent \o r.completed, dropped |-> bads + r.dropped]
        BY <1>1, <1>2, <2>1, RsSends
      <4> HIDE DEF r
      <4>2. r.buf = <<>> /\ r.completed = <<>> /\ r.dropped = 0
        BY <3>0 DEF r
      <4> QED BY <4>1, <4>2
    <3>2. sent \o <<>> = sent /\ bads + 0 = bads
      BY DEF Inv, LineInv
    <3> QED BY <3>1, <3>2
  <2> QED BY <1>2, <1>5, <2>1 DEF Inv, RsInv
<1> QED BY <1>6, <1>7, <1>8 DEF Inv

LEMMA FeedInv ==
    ASSUME Inv, NEW n \in Nat, Feed(n)
    PROVE  Inv'
<1> DEFINE c == SubSeq(stream, fed + 1, fed + n)
<1>1. /\ sm' = Stepped(sm, c) /\ rs' = Resynced(rs, c) /\ fed' = fed + n /\ n <= Len(stream) - fed
      /\ UNCHANGED <<handed, stream, sent, bads, clean, tame>>
  BY DEF Feed, line
<1>2. /\ stream \in Seq(Byte) /\ fed \in 0..Len(stream) /\ sm \in SmRecords /\ rs \in RsRecords
      /\ handed \in [sm : Seq(Seq(Byte)), rs : Seq(Seq(Byte))]
      /\ handed.sm \in Seq(Seq(Byte)) /\ handed.rs \in Seq(Seq(Byte))
  BY DEF Inv, LineInv, SmInv, RsInv
<1>3. Fed \in Seq(Byte) /\ c \in Seq(Byte)
  BY <1>1, <1>2 DEF Fed
<1>4. Fed' = Fed \o c
  <2>1. SubSeq(stream, 1, fed + n) = SubSeq(stream, 1, fed) \o SubSeq(stream, fed + 1, fed + n)
    BY <1>1, <1>2
  <2> QED BY <1>1, <2>1 DEF Fed
<1> HIDE DEF c
<1>5. LineInv'
  <2>1. fed + n \in 0..Len(stream)
    BY <1>1, <1>2
  <2> QED BY <1>1, <2>1 DEF Inv, LineInv
<1>6. SmInv'
  <2>1. sm' \in SmRecords
    BY <1>1, <1>2, <1>3, SteppedType
  <2>2. Held(sm, handed.sm) = Stepped(NewStateMachine, Fed)
    BY DEF Inv, SmInv
  <2>3. Stepped(Held(sm, handed.sm), c) = Held(Stepped(sm, c), handed.sm)
    BY <1>2, <1>3, SteppedHeld
  <2>4. Stepped(NewStateMachine, Fed \o c) = Stepped(Stepped(NewStateMachine, Fed), c)
    BY <1>3, SteppedConcat
  <2>5. Held(sm', handed'.sm) = Stepped(NewStateMachine, Fed')
    BY <1>1, <1>4, <2>2, <2>3, <2>4
  <2> QED BY <1>1, <2>1, <2>5 DEF Inv, SmInv
<1>7. RsInv'
  <2> DEFINE r == Parsed(rs.buf \o c)
  <2>1. Parsed(Fed) = [buf |-> rs.buf, completed |-> handed.rs \o rs.completed, dropped |-> rs.dropped]
    BY DEF Inv, RsInv
  <2>2. Parsed(Fed \o c) = Joined(Parsed(Fed), Parsed(Parsed(Fed).buf \o c))
    BY <1>3, ParsedConcat
  <2>3. r \in RsRecords
    <3>1. rs.buf \o c \in Seq(Byte)
      BY <1>2, <1>3 DEF RsRecords
    <3> QED BY <3>1, ParsedConcat
  <2>4. rs' = [buf |-> r.buf, completed |-> rs.completed \o r.completed, dropped |-> rs.dropped + r.dropped]
    BY <1>1 DEF Resynced
  <2>5. Parsed(Fed') = Joined(Parsed(Fed), r)
    BY <1>4, <2>1, <2>2
  <2> HIDE DEF r
  <2>6. Parsed(Fed') = [buf |-> r.buf, completed |-> (handed.rs \o rs.completed) \o r.completed,
                        dropped |-> rs.dropped + r.dropped]
    BY <2>1, <2>5 DEF Joined
  <2>7. /\ rs.completed \in Seq(Seq(Byte)) /\ r.completed \in Seq(Seq(Byte)) /\ r.buf \in Seq(Byte)
        /\ rs.dropped + r.dropped \in Nat
    BY <1>2, <2>3 DEF RsRecords
  <2>8. /\ rs.completed \o r.completed \in Seq(Seq(Byte))
        /\ (handed.rs \o rs.completed) \o r.completed = handed.rs \o (rs.completed \o r.completed)
    <3> DEFINE X == Seq(Byte)
               u == handed.rs
               v == rs.completed
               w == r.completed
    <3>1. u \in Seq(X) /\ v \in Seq(X) /\ w \in Seq(X)
      BY <1>2, <2>7
    <3> HIDE DEF X, u, v, w
    <3>2. v \o w \in Seq(X) /\ (u \o v) \o w = u \o (v \o w)
      BY SMTT(30), ZenonT(30), <3>1, ConcatAssoc
    <3> QED BY <3>2 DEF X, u, v, w
  <2>9. rs' \in RsRecords
    BY <2>4, <2>7, <2>8 DEF RsRecords
  <2>10. Parsed(Fed') = [buf |-> rs'.buf, completed |-> handed'.rs \o rs'.completed, dropped |-> rs'.dropped]
    BY <1>1, <2>4, <2>6, <2>8
  <2> QED BY <1>1, <2>9, <2>10 DEF Inv, RsInv
<1> QED BY <1>5, <1>6, <1>7 DEF Inv

LEMMA GetInv ==
    ASSUME Inv, get_all_packets
    PROVE  Inv'
<1>1. /\ handed' = [sm |-> handed.sm \o sm.completed, rs |-> handed.rs \o rs.completed]
      /\ sm' = [sm EXCEPT !.completed = <<>>] /\ rs' = [rs EXCEPT !.completed = <<>>]
      /\ UNCHANGED <<fed, stream, sent, bads, clean, tame>>
  BY DEF get_all_packets, line
<1>2. /\ sm \in SmRecords /\ rs \in RsRecords /\ sm.completed \in Seq(Seq(Byte))
      /\ rs.completed \in Seq(Seq(Byte)) /\ handed.sm \in Seq(Seq(Byte)) /\ handed.rs \in Seq(Seq(Byte))
  BY DEF Inv, LineInv, SmInv, RsInv, SmRecords, RsRecords
<1> DEFINE a == handed.sm \o sm.completed
           b == handed.rs \o rs.completed
<1>3. a \in Seq(Seq(Byte)) /\ a \o <<>> = a
  BY <1>2
<1>4. b \in Seq(Seq(Byte)) /\ b \o <<>> = b
  BY <1>2
<1>5. Held(sm, handed.sm) = [sm EXCEPT !.completed = a]
  BY DEF Held
<1>6. <<>> \in Seq(Seq(Byte))
  OBVIOUS
<1>7. Fed' = Fed
  BY <1>1 DEF Fed
<1>b. Parsed(Fed) = [buf |-> rs.buf, completed |-> b, dropped |-> rs.dropped]
  BY DEF Inv, RsInv
<1>c. handed' = [sm |-> a, rs |-> b]
  BY <1>1
<1> HIDE DEF a, b
<1>8. LineInv'
  <2>1. handed' \in [sm : Seq(Seq(Byte)), rs : Seq(Seq(Byte))]
    BY <1>3, <1>4, <1>c
  <2> QED BY <1>1, <2>1 DEF Inv, LineInv
<1>9. SmInv'
  <2>1. sm' \in SmRecords
    BY <1>1, <1>2, <1>6 DEF SmRecords
  <2>2. Held(sm', handed'.sm) = [sm EXCEPT !.completed = a]
    <3>1. handed'.sm = a /\ sm'.completed = <<>>
      BY <1>1, <1>2, <1>c DEF SmRecords
    <3>2. handed'.sm \o sm'.completed = a
      BY <1>3, <3>1
    <3>3. Held(sm', handed'.sm) = [sm' EXCEPT !.completed = a]
      BY <3>2 DEF Held
    <3>4. [sm' EXCEPT !.completed = a] = [sm EXCEPT !.completed = a]
      BY <1>1, <1>2 DEF SmRecords
    <3> QED BY <3>3, <3>4
  <2> QED BY <1>1, <1>5, <1>7, <2>1, <2>2 DEF Inv, SmInv
<1>10. RsInv'
  <2>1. rs' \in RsRecords /\ rs'.buf = rs.buf /\ rs'.completed = <<>> /\ rs'.dropped = rs.dropped
    BY <1>1, <1>2, <1>6 DEF RsRecords
  <2>2. handed'.rs \o rs'.completed = b
    BY <1>4, <1>c, <2>1
  <2> QED BY <1>1, <1>7, <1>b, <2>1, <2>2 DEF Inv, RsInv
<1> QED BY <1>8, <1>9, <1>10 DEF Inv

LEMMA NextInv == Inv /\ [Next]_vars => Inv'
<1> SUFFICES ASSUME Inv, [Next]_vars PROVE Inv'
  OBVIOUS
<1>1. ASSUME NEW data \in Payload, SendPacket(data) PROVE Inv'
  BY <1>1, SendPacketInv
<1>2. ASSUME NEW data \in Payload, NEW chk \in Byte, SendCorrupt(data, chk) PROVE Inv'
  BY <1>2, SendCorruptInv
<1>3. ASSUME NEW byte \in Byte, SendNoise(byte) PROVE Inv'
  BY <1>3, SendNoiseInv
<1>4. ASSUME NEW n \in 1..MaxBytes, Feed(n) PROVE Inv'
  BY <1>4, ByteIs, FeedInv
<1>5. CASE get_all_packets
  BY <1>5, GetInv
<1>6. CASE UNCHANGED vars
  BY <1>6 DEF vars, Inv, LineInv, SmInv, RsInv, Fed
<1> QED BY <1>1, <1>2, <1>3, <1>4, <1>5, <1>6 DEF Next

LEMMA PrefixConcat ==
    ASSUME NEW X, NEW a \in Seq(X), NEW b \in Seq(X)
    PROVE  IsPrefix(a, a \o b)
<1> DEFINE d == a \o b
<1>1. d \in Seq(X) /\ Len(d) = Len(a) + Len(b) /\ SubSeq(d, 1, Len(a)) = a
  OBVIOUS
<1>2. SubSeq(a, 1, Len(a)) = a /\ Len(a) <= Len(d)
  BY <1>1
<1> HIDE DEF d
<1> QED BY <1>1, <1>2 DEF IsPrefix, d

LEMMA InvExact == Inv => ParsersAreExact
<1> SUFFICES ASSUME Inv PROVE ParsersAreExact
  OBVIOUS
<1> DEFINE rest == SubSeq(stream, fed + 1, Len(stream))
<1>1. stream \in Seq(Byte) /\ fed \in 0..Len(stream)
  BY DEF Inv, LineInv
<1>2. Fed \in Seq(Byte) /\ rest \in Seq(Byte) /\ stream = Fed \o rest
  <2>1. SubSeq(stream, 1, fed) \in Seq(Byte) /\ rest \in Seq(Byte)
    BY <1>1
  <2>2. stream = SubSeq(stream, 1, fed) \o SubSeq(stream, fed + 1, Len(stream))
    <3> DEFINE n == Len(stream) - fed
    <3>1. n \in Nat /\ fed + n = Len(stream)
      BY <1>1
    <3> HIDE DEF n
    <3>2. SubSeq(stream, 1, fed + n) = SubSeq(stream, 1, fed) \o SubSeq(stream, fed + 1, fed + n)
      BY <1>1, <3>1
    <3>3. SubSeq(stream, 1, Len(stream)) = stream
      BY <1>1
    <3> QED BY <3>1, <3>2, <3>3
  <2> QED BY <2>1, <2>2 DEF Fed
<1>3. fed = Len(stream) => Fed = stream
  BY <1>1 DEF Fed
<1> HIDE DEF rest
<1>4. ASSUME clean PROVE Exact("sm", sm.dropped)
  <2> DEFINE p == Stepped(NewStateMachine, Fed)
             q == Stepped(NewStateMachine, stream)
  <2>1. q.completed = sent /\ q.dropped = bads
    BY <1>4 DEF Inv, SmInv
  <2>2. p = Held(sm, handed.sm) /\ sm \in SmRecords
    BY DEF Inv, SmInv
  <2>3. p.completed = Got("sm") /\ p.dropped = sm.dropped
    BY <2>2 DEF Held, Got, SmRecords
  <2>4. p \in SmRecords
    BY <1>2, NewType, SteppedType
  <2>5. q = Stepped(p, rest)
    BY <1>2, SteppedConcat
  <2>6. fed = Len(stream) => p = q
    BY <1>3
  <2> HIDE DEF p, q
  <2>7. IsPrefix(p.completed, q.completed)
    BY <1>2, <2>4, <2>5, SteppedGrows
  <2> QED BY <2>1, <2>3, <2>6, <2>7 DEF Exact
<1>5. ASSUME clean, tame PROVE Exact("rs", rs.dropped)
  <2> DEFINE p == Parsed(Fed)
             q == Parsed(stream)
             x == Parsed(p.buf \o rest)
  <2>1. q.completed = sent /\ q.dropped = bads
    BY <1>5 DEF Inv, RsInv
  <2>2. p.completed = Got("rs") /\ p.dropped = rs.dropped
    <3>1. Got("rs") = handed.rs \o rs.completed
      BY DEF Got
    <3> DEFINE g == handed.rs \o rs.completed
    <3>2. p = [buf |-> rs.buf, completed |-> g, dropped |-> rs.dropped]
      BY DEF Inv, RsInv
    <3> HIDE DEF p, g
    <3>3. p.completed = g /\ p.dropped = rs.dropped
      BY <3>2
    <3> QED BY <3>1, <3>3 DEF g
  <2>3. p \in RsRecords /\ q = Joined(p, x)
    BY <1>2, ParsedConcat
  <2>4. x \in RsRecords
    <3>1. p.buf \o rest \in Seq(Byte)
      <4> HIDE DEF p
      <4> QED BY <1>2, <2>3 DEF RsRecords
    <3> QED BY <3>1, ParsedConcat
  <2>5. fed = Len(stream) => p = q
    BY <1>3
  <2> HIDE DEF p, q, x
  <2>6. IsPrefix(p.completed, q.completed)
    <3>1. q.completed = p.completed \o x.completed
      BY <2>3 DEF Joined
    <3>2. p.completed \in Seq(Seq(Byte)) /\ x.completed \in Seq(Seq(Byte))
      BY <2>3, <2>4 DEF RsRecords
    <3> QED BY <3>1, <3>2, PrefixConcat
  <2> QED BY <2>1, <2>2, <2>5, <2>6 DEF Exact
<1> QED BY <1>4, <1>5 DEF ParsersAreExact

\* On a line where only checksums go wrong, the payloads a parser has returned or holds
\* are the first of those sent, in order and each once, and all of them with all the
\* corrupt packets counted once it has every byte: StateMachineParser always,
\* ResyncingParser when no corrupt packet holds a HEADER.
THEOREM ParsersAreExactHolds == Spec => []ParsersAreExact
<1>1. Init => Inv
  BY InitInv
<1>2. Inv /\ [Next]_vars => Inv'
  BY NextInv
<1>3. Inv => ParsersAreExact
  BY InvExact
<1> QED BY <1>1, <1>2, <1>3, PTL DEF Spec

-------------------------------------------------------------------------------
(* ResyncingParser: where its packets come from, and the headers it goes past *)

\* The number of a set's members up to x.
UpTo(T, x) == Cardinality({y \in T : y <= x})

\* A number below a set's becomes its first, and the others move up.
LEMMA IthAdd ==
    ASSUME NEW L \in Nat, NEW T \in SUBSET (1..L), NEW q \in 1..L, \A x \in T : q < x
    PROVE  /\ IsFiniteSet(T) /\ Cardinality(T) \in Nat
           /\ Cardinality({q} \cup T) = Cardinality(T) + 1
           /\ Ith({q} \cup T, 1) = q
           /\ \A i \in Nat \ {0} : Ith({q} \cup T, i + 1) = Ith(T, i)
<1> DEFINE U == {q} \cup T
<1>1. IsFiniteSet(1..L)
  BY FS_Interval
<1>2. \A S \in SUBSET T : IsFiniteSet(S) /\ Cardinality(S) \in Nat
  <2> SUFFICES ASSUME NEW S \in SUBSET T PROVE IsFiniteSet(S) /\ Cardinality(S) \in Nat
    OBVIOUS
  <2>1. S \in SUBSET (1..L)
    OBVIOUS
  <2>2. IsFiniteSet(S)
    BY <1>1, <2>1, FS_Subset
  <2> QED BY <2>2, FS_CardinalityType
<1>0. q \in Nat /\ \A x \in T : x \in Nat /\ q < x
  OBVIOUS
<1>3. q \notin T
  BY <1>0
<1>4. ASSUME NEW S \in SUBSET T PROVE Cardinality({q} \cup S) = Cardinality(S) + 1
  <2>1. q \notin S /\ S \cup {q} = {q} \cup S
    BY <1>3
  <2> QED BY <1>2, <2>1, FS_AddElement
<1>5. Cardinality(U) = Cardinality(T) + 1
  BY <1>4
<1>6. UpTo(U, q) = 1
  <2>1. ASSUME NEW y \in U, y <= q PROVE y = q
    BY <1>0, <2>1
  <2>2. q \in U /\ q <= q
    BY <1>0
  <2> HIDE DEF U
  <2>3. {y \in U : y <= q} = {q}
    BY <2>1, <2>2
  <2> QED BY <2>3, FS_Singleton DEF UpTo
<1>7. ASSUME NEW x \in T PROVE UpTo(U, x) = UpTo(T, x) + 1 /\ UpTo(T, x) \in Nat \ {0}
  <2> DEFINE S == {y \in T : y <= x}
  <2>1. {y \in U : y <= x} = {q} \cup S
    OBVIOUS
  <2>2. x \in S
    OBVIOUS
  <2>3. IsFiniteSet(S) /\ Cardinality(S) \in Nat /\ Cardinality({q} \cup S) = Cardinality(S) + 1
    BY <1>2, <1>4
  <2>4. Cardinality(S) # 0
    BY <2>2, <2>3, FS_EmptySet
  <2> QED BY <2>1, <2>3, <2>4 DEF UpTo
<1>8. Ith(U, 1) = q
  <2>1. ASSUME NEW x PROVE x \in U /\ UpTo(U, x) = 1 <=> x = q
    <3>1. ASSUME x \in T PROVE UpTo(U, x) # 1
      <4> HIDE DEF U
      <4> QED BY <1>7, <3>1
    <3>2. x \in U <=> x = q \/ x \in T
      OBVIOUS
    <3> HIDE DEF U
    <3> QED BY <1>3, <1>6, <3>1, <3>2
  <2>2. Ith(U, 1) = CHOOSE x \in U : UpTo(U, x) = 1
    BY DEF Ith, UpTo
  <2> QED BY <2>1, <2>2
<1>9. ASSUME NEW i \in Nat \ {0} PROVE Ith(U, i + 1) = Ith(T, i)
  <2>1. ASSUME NEW x PROVE x \in U /\ UpTo(U, x) = i + 1 <=> x \in T /\ UpTo(T, x) = i
    <3>1. ASSUME x \in T PROVE UpTo(U, x) = i + 1 <=> UpTo(T, x) = i
      <4> HIDE DEF U
      <4> QED BY <1>7, <3>1
    <3>2. x \in U <=> x = q \/ x \in T
      OBVIOUS
    <3>3. 1 # i + 1
      OBVIOUS
    <3> HIDE DEF U
    <3> QED BY <1>3, <1>6, <3>1, <3>2, <3>3
  <2> HIDE DEF U
  <2>2. Ith(U, i + 1) = CHOOSE x \in U : UpTo(U, x) = i + 1
    BY DEF Ith, UpTo
  <2>3. Ith(T, i) = CHOOSE x \in T : UpTo(T, x) = i
    BY DEF Ith, UpTo
  <2> QED BY <2>1, <2>2, <2>3
<1> QED BY <1>2, <1>5, <1>8, <1>9

\* The headers from p to before k that are in no frame of T.
FalseHeaders(b, T, p, k) == {q \in p..k - 1 : b[q] = HEADER} \ Bytes(b, T)

\* The frames of T account for all that the loop does from p on.
Covers(b, T, p) ==
    LET r == From(b)[p]
        k == Rest(b, p)
    IN  /\ T \subseteq Frames(b) /\ T \subseteq p..Len(b)
        /\ \A x, y \in T : x < y => x + Total(b, x) <= y
        /\ Bytes(b, T) \subseteq p..k - 1
        /\ r.completed = [i \in 1..Cardinality(T) |-> DataOf(b, Ith(T, i))]
        /\ \A x \in FalseHeaders(b, T, p, k) : Complete(b, x) /\ ~Valid(b, x)
        /\ r.dropped = Cardinality(FalseHeaders(b, T, p, k))
        /\ k <= Len(b) => b[k] = HEADER /\ ~Complete(b, k)

LEMMA RestIs ==
    ASSUME NEW b \in Seq(Byte), NEW p \in 1..Len(b) + 1
    PROVE  Rest(b, p) \in p..Len(b) + 1
<1>1. <<>> \in Seq(Byte)
  OBVIOUS
<1> QED BY <1>1, ParseConcat

\* No packet is there.
LEMMA CoversNone ==
    ASSUME NEW b \in Seq(Byte), NEW p \in 1..Len(b) + 1, NEW k \in p..Len(b) + 1,
           \A j \in p..k - 1 : b[j] # HEADER, From(b)[p] = Kept(b, k),
           k <= Len(b) => b[k] = HEADER /\ ~Complete(b, k)
    PROVE  Covers(b, {}, p)
<1>1. k \in 1..Len(b) + 1
  OBVIOUS
<1>2. /\ Kept(b, k).completed = <<>> /\ Kept(b, k).dropped = 0 /\ Len(Kept(b, k).buf) = Len(b) + 1 - k
  BY <1>1, KeptType
<1>3. Rest(b, p) = k
  <2>1. Rest(b, p) = Len(b) + 1 - (Len(b) + 1 - k)
    BY <1>2 DEF Rest
  <2> QED BY <2>1
<1>4. Bytes(b, {}) = {}
  BY DEF Bytes
<1>5. FalseHeaders(b, {}, p, k) = {}
  BY DEF FalseHeaders
<1>6. Cardinality({}) = 0
  BY FS_EmptySet
<1>7. <<>> = [i \in 1..0 |-> DataOf(b, Ith({}, i))]
  OBVIOUS
<1> QED BY <1>2, <1>3, <1>4, <1>5, <1>6, <1>7 DEF Covers

LEMMA BytesAdd ==
    ASSUME NEW b, NEW T, NEW q
    PROVE  Bytes(b, {q} \cup T) = (q..(q + Total(b, q) - 1)) \cup Bytes(b, T)
<1> DEFINE I(x) == x..(x + Total(b, x) - 1)
<1>1. \A U, z : z \in Bytes(b, U) <=> \E x \in U : z \in I(x)
  BY DEF Bytes
<1> HIDE DEF I
<1>2. Bytes(b, {q} \cup T) = I(q) \cup Bytes(b, T)
  BY <1>1
<1> QED BY <1>2 DEF I

\* A packet, then what comes after it.
LEMMA CoversPacket ==
    ASSUME NEW b \in Seq(Byte), NEW p \in 1..Len(b) + 1, NEW q \in p..Len(b), First(b, p, q),
           Complete(b, q), Valid(b, q), NEW T, Covers(b, T, q + Total(b, q))
    PROVE  Covers(b, {q} \cup T, p)
<1> DEFINE n == q + Total(b, q)
           D == DataOf(b, q)
           U == {q} \cup T
           r == From(b)[n]
           k == Rest(b, n)
           c == Cardinality(T)
<1>0. q \in 1..Len(b) /\ Len(b) \in Nat /\ b[q] = HEADER /\ \A j \in p..q - 1 : b[j] # HEADER
  BY DEF First
<1>1. n \in q + 1..Len(b) + 1 /\ n \in 1..Len(b) + 1 /\ D \in Seq(Byte)
  BY <1>0, TurnIs, FrameIs
<1>2. From(b)[p] = WithPacket(r, D)
  BY TurnIs
<1>3. r \in RsRecords /\ k \in n..Len(b) + 1
  BY <1>1, FromType, RestIs
<1>4. /\ T \subseteq Frames(b) /\ T \subseteq n..Len(b)
      /\ \A x, y \in T : x < y => x + Total(b, x) <= y
      /\ Bytes(b, T) \subseteq n..k - 1
      /\ r.completed = [i \in 1..c |-> DataOf(b, Ith(T, i))]
      /\ \A x \in FalseHeaders(b, T, n, k) : Complete(b, x) /\ ~Valid(b, x)
      /\ r.dropped = Cardinality(FalseHeaders(b, T, n, k))
      /\ k <= Len(b) => b[k] = HEADER /\ ~Complete(b, k)
  BY DEF Covers
<1>5. Bytes(b, U) = (q..n - 1) \cup Bytes(b, T)
  <2>1. Bytes(b, {q} \cup T) = (q..(q + Total(b, q) - 1)) \cup Bytes(b, T)
    BY Zenon, BytesAdd
  <2>2. n - 1 = q + Total(b, q) - 1
    <3>1. Total(b, q) \in Nat /\ q \in Nat
      BY <1>0, FrameIs
    <3> QED BY <3>1
  <2> HIDE DEF n
  <2>3. Bytes(b, {q} \cup T) = (q..n - 1) \cup Bytes(b, T)
    BY Zenon, <2>1, <2>2
  <2> QED BY <2>3
<1>6. U \subseteq Frames(b)
  BY <1>0, <1>4 DEF Frames
<1> HIDE DEF n, D, r, k
<1>7. /\ From(b)[p].buf = r.buf /\ From(b)[p].completed = <<D>> \o r.completed
      /\ From(b)[p].dropped = r.dropped
  <2> DEFINE v == <<D>> \o r.completed
  <2>1. From(b)[p] = [r EXCEPT !.completed = v]
    BY <1>2 DEF WithPacket
  <2> HIDE DEF v
  <2>2. From(b)[p].buf = r.buf /\ From(b)[p].completed = v /\ From(b)[p].dropped = r.dropped
    BY <1>3, <2>1 DEF RsRecords
  <2> QED BY <2>2 DEF v
<1>8. Rest(b, p) = k
  BY <1>7 DEF Rest, k, r
<1>9. U \subseteq p..Len(b)
  BY <1>1, <1>4
<1>10. ASSUME NEW x \in U, NEW y \in U, x < y PROVE x + Total(b, x) <= y
  <2>1. CASE x \in T /\ y \in T
    BY <1>4, <1>10, <2>1
  <2>2. CASE x = q /\ y \in T
    <3>1. q + Total(b, q) <= y
      BY <1>1, <1>4, <2>2 DEF n
    <3> QED BY <2>2, <3>1
  <2>3. ~(y = q)
    BY <1>1, <1>4, <1>10
  <2> QED BY <2>1, <2>2, <2>3
<1>11. Bytes(b, U) \subseteq p..k - 1
  <2>1. q..n - 1 \subseteq p..k - 1
    BY <1>1, <1>3
  <2>2. n..k - 1 \subseteq p..k - 1
    BY <1>1, <1>3
  <2> QED BY <1>4, <1>5, <2>1, <2>2
<1>12. FalseHeaders(b, U, p, k) = FalseHeaders(b, T, n, k)
  <2>1. {x \in p..k - 1 : b[x] = HEADER} \ ((q..n - 1) \cup Bytes(b, T))
            = {x \in n..k - 1 : b[x] = HEADER} \ Bytes(b, T)
    BY <1>0, <1>1, <1>3
  <2> QED BY <1>5, <2>1 DEF FalseHeaders
<1>13. /\ c \in Nat /\ Cardinality(U) = c + 1 /\ Ith(U, 1) = q
       /\ \A i \in Nat \ {0} : Ith(U, i + 1) = Ith(T, i)
  <2>1. T \in SUBSET (1..Len(b)) /\ \A x \in T : q < x
    BY <1>0, <1>1, <1>4
  <2>2. Len(b) \in Nat /\ q \in 1..Len(b)
    BY <1>0
  <2> HIDE DEF n, D, r, k, c, U
  <2>3. /\ Cardinality(T) \in Nat /\ Cardinality({q} \cup T) = Cardinality(T) + 1
        /\ Ith({q} \cup T, 1) = q
        /\ \A i \in Nat \ {0} : Ith({q} \cup T, i + 1) = Ith(T, i)
    <3> DEFINE l == Len(b)
    <3>1. l \in Nat /\ q \in 1..l /\ T \in SUBSET (1..l) /\ \A x \in T : q < x
      BY <2>1, <2>2
    <3> HIDE DEF l
    <3> QED BY ONLY <3>1, IthAdd, ZenonT(30)
  <2> QED BY <2>3 DEF c, U
<1> HIDE DEF c, U
<1>14. <<D>> \o r.completed = [i \in 1..c + 1 |-> DataOf(b, Ith(U, i))]
  <2> DEFINE s == r.completed
             v == <<D>> \o s
             X == Seq(Byte)
             one == <<D>>
  <2>1. s \in Seq(X) /\ one \in Seq(X) /\ Len(one) = 1 /\ one[1] = D
    BY <1>1, <1>3 DEF RsRecords
  <2>2. Len(s) = c /\ \A i \in 1..c : s[i] = DataOf(b, Ith(T, i))
    <3>1. DOMAIN s = 1..c
      BY <1>4
    <3>2. 1..Len(s) = 1..c /\ Len(s) \in Nat
      BY <2>1, <3>1
    <3>3. Len(s) = c
      <4> DEFINE l == Len(s)
      <4>1. 1..l = 1..c /\ l \in Nat
        BY <3>2
      <4> HIDE DEF l
      <4>2. ~(l > c)
        <5>1. l > c => l \in 1..l /\ l \notin 1..c
          BY <1>13, <4>1
        <5> QED BY <4>1, <5>1
      <4>3. ~(c > l)
        <5>1. c > l => c \in 1..c /\ c \notin 1..l
          BY <1>13, <4>1
        <5> QED BY <4>1, <5>1
      <4>4. l = c
        BY <1>13, <4>1, <4>2, <4>3
      <4> QED BY <4>4 DEF l
    <3> QED BY <1>4, <3>3
  <2>3. v = one \o s
    OBVIOUS
  <2> HIDE DEF one, s, X
  <2>4. v \in Seq(X) /\ Len(v) = 1 + c /\ \A i \in 1..1 + c : v[i] = IF i <= 1 THEN one[i] ELSE s[i - 1]
    BY <2>1, <2>2, <2>3, ConcatProperties
  <2> HIDE DEF v
  <2>5. ASSUME NEW i \in 1..c + 1 PROVE v[i] = DataOf(b, Ith(U, i))
    <3>1. CASE i = 1
      BY <1>13, <2>1, <2>4, <3>1 DEF D
    <3>2. CASE i # 1
      <4>1. i - 1 \in 1..c /\ i - 1 \in Nat \ {0} /\ (i - 1) + 1 = i
        BY <1>13, <3>2
      <4>2. v[i] = s[i - 1]
        <5>1. i \in 1..1 + c /\ ~(i <= 1)
          BY <1>13, <3>2
        <5> QED BY <2>4, <5>1
      <4>3. Ith(U, i) = Ith(T, i - 1)
        <5>1. Ith(U, (i - 1) + 1) = Ith(T, i - 1)
          BY <1>13, <4>1
        <5> QED BY <4>1, <5>1
      <4> QED BY <2>2, <4>1, <4>2, <4>3
    <3> QED BY <3>1, <3>2
  <2>6. v = [i \in 1..c + 1 |-> v[i]]
    <3>1. Len(v) = c + 1
      BY <1>13, <2>4
    <3> QED BY <2>4, <3>1
  <2>7. v = [i \in 1..c + 1 |-> DataOf(b, Ith(U, i))]
    BY <2>5, <2>6
  <2> QED BY <2>7 DEF v, s
<1>15. From(b)[p].completed = [i \in 1..Cardinality(U) |-> DataOf(b, Ith(U, i))]
  BY <1>7, <1>13, <1>14
<1>16. Covers(b, U, p)
  BY <1>4, <1>6, <1>7, <1>8, <1>9, <1>10, <1>11, <1>12, <1>15 DEF Covers
<1> QED BY <1>16 DEF U

\* A false header, then what comes after it.
LEMMA CoversFalse ==
    ASSUME NEW b \in Seq(Byte), NEW p \in 1..Len(b) + 1, NEW q \in p..Len(b), First(b, p, q),
           Complete(b, q), ~Valid(b, q), NEW T, Covers(b, T, q + 1)
    PROVE  Covers(b, T, p)
<1> DEFINE n == q + 1
           r == From(b)[n]
           k == Rest(b, n)
           F == FalseHeaders(b, T, n, k)
<1>0. q \in 1..Len(b) /\ Len(b) \in Nat /\ b[q] = HEADER /\ \A j \in p..q - 1 : b[j] # HEADER
  BY DEF First
<1>1. n \in q + 1..Len(b) + 1 /\ n \in 1..Len(b) + 1
  BY <1>0
<1>2. From(b)[p] = WithoutHeader(r)
  BY TurnIs
<1>3. r \in RsRecords /\ k \in n..Len(b) + 1
  BY <1>1, FromType, RestIs
<1>4. /\ T \subseteq Frames(b) /\ T \subseteq n..Len(b)
      /\ \A x, y \in T : x < y => x + Total(b, x) <= y
      /\ Bytes(b, T) \subseteq n..k - 1
      /\ r.completed = [i \in 1..Cardinality(T) |-> DataOf(b, Ith(T, i))]
      /\ \A x \in F : Complete(b, x) /\ ~Valid(b, x)
      /\ r.dropped = Cardinality(F)
      /\ k <= Len(b) => b[k] = HEADER /\ ~Complete(b, k)
  BY DEF Covers
<1>5. F \subseteq n..k - 1 /\ n > q
  BY <1>1 DEF FalseHeaders
<1> HIDE DEF r, k, F
<1>6. /\ From(b)[p].buf = r.buf /\ From(b)[p].completed = r.completed
      /\ From(b)[p].dropped = r.dropped + 1
  <2> DEFINE v == r.dropped + 1
  <2>1. From(b)[p] = [r EXCEPT !.dropped = v]
    BY <1>2 DEF WithoutHeader
  <2> HIDE DEF v
  <2>2. From(b)[p].buf = r.buf /\ From(b)[p].completed = r.completed /\ From(b)[p].dropped = v
    BY <1>3, <2>1 DEF RsRecords
  <2> QED BY <2>2 DEF v
<1>7. Rest(b, p) = k
  BY <1>6 DEF Rest, k, r
<1>8. T \subseteq p..Len(b)
  BY <1>1, <1>4
<1>9. Bytes(b, T) \subseteq p..k - 1
  BY <1>1, <1>3, <1>4
<1>10. FalseHeaders(b, T, p, k) = {q} \cup F
  <2>1. q \notin Bytes(b, T)
    BY <1>4
  <2>2. {x \in p..k - 1 : b[x] = HEADER} = {q} \cup {x \in n..k - 1 : b[x] = HEADER}
    BY <1>0, <1>3
  <2> QED BY <2>1, <2>2 DEF FalseHeaders, F
<1>11. Cardinality({q} \cup F) = r.dropped + 1
  <2>1. IsFiniteSet(n..k - 1)
    BY <1>3, FS_Interval
  <2>2. IsFiniteSet(F)
    BY <1>5, <2>1, FS_Subset
  <2>3. q \notin F /\ F \cup {q} = {q} \cup F
    BY <1>5
  <2>4. Cardinality(F \cup {q}) = Cardinality(F) + 1
    BY <2>2, <2>3, FS_AddElement
  <2> QED BY <1>4, <2>3, <2>4
<1>12. \A x \in {q} \cup F : Complete(b, x) /\ ~Valid(b, x)
  BY <1>4
<1> QED BY <1>4, <1>6, <1>7, <1>8, <1>9, <1>10, <1>11, <1>12 DEF Covers

LEMMA CoverExists ==
    ASSUME NEW b \in Seq(Byte), NEW p \in 1..Len(b) + 1
    PROVE  \E T : Covers(b, T, p)
<1> DEFINE L == Len(b)
           S == {m \in 1..L + 1 : \E T : Covers(b, T, m)}
<1>0. L \in Nat
  OBVIOUS
<1>1. ASSUME NEW m \in 1..L + 1, \A r \in m + 1..L + 1 : r \in S PROVE m \in S
  <2>1. ASSUME NoHeader(b, m) PROVE \E T : Covers(b, T, m)
    <3>1. From(b)[m] = Kept(b, L + 1)
      BY <2>1, FromIs, NothingIsKept
    <3>2. L + 1 \in m..L + 1 /\ \A j \in m..(L + 1) - 1 : b[j] # HEADER
      BY <1>0, <2>1 DEF NoHeader
    <3>3. ~(L + 1 <= Len(b))
      BY <1>0
    <3>4. Covers(b, {}, m)
      BY <3>1, <3>2, <3>3, CoversNone
    <3> QED BY <3>4
  <2>2. ASSUME NEW q \in m..L, First(b, m, q) PROVE \E T : Covers(b, T, m)
    <3>0. q \in 1..L /\ q \in m..L + 1 /\ q + 1 \in m + 1..L + 1
      BY <1>0
    <3>1. CASE ~Complete(b, q)
      <4>1. From(b)[m] = Kept(b, q)
        BY <2>2, <3>1, TurnIs
      <4>2. b[q] = HEADER /\ \A j \in m..q - 1 : b[j] # HEADER
        BY <2>2 DEF First
      <4>3. Covers(b, {}, m)
        BY <3>0, <3>1, <4>1, <4>2, CoversNone
      <4> QED BY <4>3
    <3>2. CASE Complete(b, q) /\ Valid(b, q)
      <4>1. q + Total(b, q) \in m + 1..L + 1
        <5>1. q + Total(b, q) \in q + 1..L + 1
          BY <2>2, <3>2, TurnIs
        <5> QED BY <3>0, <5>1
      <4>2. PICK T : Covers(b, T, q + Total(b, q))
        BY <1>1, <4>1
      <4>3. Covers(b, {q} \cup T, m)
        BY <2>2, <3>2, <4>2, CoversPacket
      <4> QED BY <4>3
    <3>3. CASE Complete(b, q) /\ ~Valid(b, q)
      <4>1. PICK T : Covers(b, T, q + 1)
        BY <1>1, <3>0
      <4>2. Covers(b, T, m)
        BY <2>2, <3>3, <4>1, CoversFalse
      <4> QED BY <4>2
    <3> QED BY <3>1, <3>2, <3>3
  <2>3. \E T : Covers(b, T, m)
    BY <2>1, <2>2, FirstOrNone
  <2> QED BY <2>3
<1> HIDE DEF S
<1>2. 1..L + 1 \subseteq S
  <2> HIDE DEF L
  <2> QED BY <1>0, <1>1, DownInduction
<1> QED BY <1>2 DEF S

LEMMA InvPassedOver == Inv => NothingIsPassedOver
<1> SUFFICES ASSUME Inv PROVE NothingIsPassedOver
  OBVIOUS
<1> DEFINE b == Fed
           past == fed - Len(rs.buf)
<1>1. stream \in Seq(Byte) /\ fed \in 0..Len(stream)
  BY DEF Inv, LineInv
<1>2. b \in Seq(Byte) /\ Len(b) = fed /\ b = SubSeq(stream, 1, fed)
  BY <1>1 DEF Fed
<1>3. /\ From(b)[1].buf = rs.buf /\ From(b)[1].completed = Got("rs") /\ From(b)[1].dropped = rs.dropped
  <2> DEFINE g == handed.rs \o rs.completed
  <2>1. Got("rs") = g
    BY DEF Got
  <2>2. Parsed(Fed) = [buf |-> rs.buf, completed |-> g, dropped |-> rs.dropped]
    BY DEF Inv, RsInv
  <2> HIDE DEF g
  <2>3. From(b)[1] = [buf |-> rs.buf, completed |-> g, dropped |-> rs.dropped]
    BY <2>2 DEF Parsed
  <2> QED BY <2>1, <2>3
<1> HIDE DEF b
<1>4. 1 \in 1..Len(b) + 1
  BY <1>1, <1>2
<1>5. PICK T : Covers(b, T, 1)
  BY <1>2, <1>4, CoverExists
<1>6. rs.buf \in Seq(Byte)
  BY DEF Inv, RsInv, RsRecords
<1>7. Rest(b, 1) = past + 1 /\ past \in Int
  <2>1. Rest(b, 1) = fed + 1 - Len(rs.buf)
    BY <1>2, <1>3 DEF Rest
  <2> DEFINE l == Len(rs.buf)
  <2>2. fed \in Nat /\ l \in Nat
    BY <1>1, <1>6
  <2>3. Rest(b, 1) = fed + 1 - l /\ past = fed - l
    BY <2>1
  <2> HIDE DEF l, past
  <2> QED BY <2>2, <2>3
<1>8. Rest(b, 1) - 1 = past
  BY <1>7
<1>9. FalseHeaders(b, T, 1, Rest(b, 1)) = {q \in 1..past : b[q] = HEADER} \ Bytes(b, T)
  BY <1>8 DEF FalseHeaders
<1>10. rs.buf # <<>> => past + 1 <= Len(b)
  <2>1. rs.buf # <<>> => Len(rs.buf) > 0
    BY <1>6
  <2> QED BY <1>1, <1>2, <1>6, <2>1
<1> HIDE DEF past
<1>11. /\ T \in SUBSET Frames(b)
       /\ \A x, y \in T : x < y => x + Total(b, x) <= y
       /\ Bytes(b, T) \subseteq 1..past
       /\ Got("rs") = [i \in 1..Cardinality(T) |-> DataOf(b, Ith(T, i))]
       /\ \A q \in {q \in 1..past : b[q] = HEADER} \ Bytes(b, T) : Complete(b, q) /\ ~Valid(b, q)
       /\ rs.dropped = Cardinality({q \in 1..past : b[q] = HEADER} \ Bytes(b, T))
       /\ rs.buf # <<>> => b[past + 1] = HEADER /\ ~Complete(b, past + 1)
  BY <1>3, <1>5, <1>7, <1>8, <1>9, <1>10 DEF Covers
<1> QED BY <1>2, <1>11 DEF NothingIsPassedOver, past

\* A real packet hidden inside a corrupt one is not lost: ResyncingParser's payloads come
\* from frames that do not overlap, every header it went past outside them was the start of
\* a corrupt packet it counted, and it keeps only a packet that is not all there.
THEOREM NothingIsPassedOverHolds == Spec => []NothingIsPassedOver
<1>1. Init => Inv
  BY InitInv
<1>2. Inv /\ [Next]_vars => Inv'
  BY NextInv
<1>3. Inv => NothingIsPassedOver
  BY InvPassedOver
<1> QED BY <1>1, <1>2, <1>3, PTL DEF Spec
===============================================================================
