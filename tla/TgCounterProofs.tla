--------------------------- MODULE TgCounterProofs ---------------------------
(* What the kernel holds at each point of DriverEntry, so that a start that      *)
(* failed or an unload leaves nothing behind; and that each increment is the     *)
(* answer of one request, for any finite set of clients and any width of a LONG. *)
EXTENDS TgCounter, FiniteSetTheorems, TLAPS

Pool == IF g_PagedValue # None THEN {"pool"} ELSE {}

\* The device and the link there are once DriverEntry is at place.
Made(place) ==
    (IF place \in {"link", "table", "loaded"} THEN {"device"} ELSE {})
        \cup (IF place \in {"table", "loaded"} THEN {"link"} ELSE {})

Places == {"absent", "allocate", "device", "link", "table", "fail", "loaded"}

\* The kernel holds what DriverEntry has made so far and the block that
\* g_PagedValue points to, and no block before it is allocated or after the end.
ObjectsInv ==
    /\ entry \in Places
    /\ objects = Made(entry) \cup Pool
    /\ entry \in {"absent", "allocate"} => g_PagedValue = None

\* Of the two drivers, the basic one has no paged block, and returns where it fails.
BasicInv ==
    /\ build \in {"basic", "phase5"}
    /\ build = "basic" => g_PagedValue = None /\ entry \notin {"allocate", "fail"}

\* Only a service that is running is stopped.
StoppingInv == stopping => entry = "loaded"

CleanInv == ObjectsInv /\ BasicInv /\ StoppingInv

\* Initially nothing is there.
LEMMA CleanInit == Init => CleanInv
  BY DEF Init, CleanInv, ObjectsInv, BasicInv, StoppingInv, Pool, Made, Places

\* Every step of the service keeps the account of what the kernel holds.
LEMMA ServiceKeepsClean ==
  ASSUME CleanInv, Service, UNCHANGED config
  PROVE  CleanInv'
<1> USE DEF CleanInv, ObjectsInv, BasicInv, StoppingInv, Pool, Made, Places, config
<1>1. CASE StartService
  BY <1>1 DEF StartService
<1>2. CASE AllocatePaged
  BY <1>2, NoneAssumption DEF AllocatePaged
<1>3. CASE CreateDevice
  BY <1>3 DEF CreateDevice, Failed
<1>4. CASE CreateLink
  BY <1>4 DEF CreateLink, Failed
<1>5. CASE FillTable
  BY <1>5 DEF FillTable
<1>6. CASE Fail
  BY <1>6 DEF Fail, FreePaged
<1>7. CASE StopService
  BY <1>7 DEF StopService
<1>8. CASE TgUnload
  BY <1>8 DEF TgUnload, FreePaged
<1> QED
  BY <1>1, <1>2, <1>3, <1>4, <1>5, <1>6, <1>7, <1>8 DEF Service, DriverEntry

\* Every step of the system keeps it: a client changes nothing of the driver.
LEMMA CleanNext == CleanInv /\ [Next]_vars => CleanInv'
<1> SUFFICES ASSUME CleanInv, [Next]_vars PROVE CleanInv'
  OBVIOUS
<1>1. CASE Running(Service)
  BY <1>1, ServiceKeepsClean DEF Running
<1>2. CASE UNCHANGED <<config, driver>>
  BY <1>2 DEF config, driver, CleanInv, ObjectsInv, BasicInv, StoppingInv, Pool
<1>3. ASSUME NEW c \in Clients, Running(Start(c)) PROVE CleanInv'
  BY <1>2, <1>3 DEF Running, Start
<1>4. ASSUME NEW c \in Clients, Running(Client(c)) PROVE CleanInv'
  BY <1>2, <1>4 DEF Running, Client
<1>5. ASSUME NEW c \in Clients, Running(TgDispatchDeviceControl(c)) PROVE CleanInv'
  BY <1>2, <1>5 DEF Running, TgDispatchDeviceControl
<1>6. ASSUME NEW c \in Clients, Bugcheck(c) PROVE CleanInv'
  BY <1>2, <1>6 DEF Bugcheck
<1>7. CASE UNCHANGED vars
  BY <1>2, <1>7 DEF vars
<1> QED
  BY <1>1, <1>3, <1>4, <1>5, <1>6, <1>7 DEF Next

\* A start that failed, at whichever of its calls and in either build, and an
\* unload leave no device, no link and no pool block behind (DriverEntry, TgUnload).
THEOREM NothingIsLeftBehindHolds == Spec => []NothingIsLeftBehind
<1>1. CleanInv => NothingIsLeftBehind
  BY DEF CleanInv, ObjectsInv, Pool, Made, NothingIsLeftBehind
<1> QED
  BY <1>1, CleanInit, CleanNext, PTL DEF Spec

-------------------------------------------------------------------------------
(* Arithmetic of a LONG *)

\* A number is known by its quotient and its remainder.
LEMMA Division ==
  ASSUME NEW x \in Int, NEW m \in Nat \ {0}
  PROVE  x \div m \in Int /\ x % m \in 0..m - 1 /\ x = (m * (x \div m)) + (x % m)
<1>1. x % m \in 0..m - 1
  OBVIOUS
<1>2. x \div m \in Int /\ x = (m * (x \div m)) + (x % m)
  OBVIOUS
<1> QED
  BY <1>1, <1>2

LEMMA RemainderIsUnique ==
  ASSUME NEW q \in Int, NEW r \in Int, NEW m \in Nat \ {0}, 0 <= r, r < m
  PROVE  ((m * q) + r) % m = r
<1> DEFINE x == (m * q) + r
<1>1. x \in Int
  OBVIOUS
<1>2. x \div m \in Int /\ x % m \in 0..m - 1 /\ x = (m * (x \div m)) + (x % m)
  BY <1>1, Division
<1>3. m * (q - (x \div m)) = (m * q) - (m * (x \div m))
  BY <1>2
<1>4. \A d \in Int : m * d < m /\ m * d > -m => d = 0
  OBVIOUS
<1>5. q - (x \div m) = 0
  BY <1>2, <1>3, <1>4
<1> QED
  BY <1>2, <1>5

LEMMA NextRemainder ==
  ASSUME NEW x \in Int, NEW m \in Nat \ {0}
  PROVE  (x + 1) % m = IF x % m = m - 1 THEN 0 ELSE (x % m) + 1
<1> DEFINE q == x \div m
           r == x % m
<1>1. q \in Int /\ r \in 0..m - 1 /\ x = (m * q) + r
  BY Division
<1> HIDE DEF q, r
<1>2. CASE r = m - 1
  <2> DEFINE p == m * q
             next == m * (q + 1)
  <2>1. next = p + m /\ p \in Int
    BY <1>1
  <2>2. (next + 0) % m = 0
    BY <1>1, RemainderIsUnique
  <2>3. x = p + r
    BY <1>1
  <2> HIDE DEF p, next
  <2>4. x + 1 = next + 0
    BY <1>1, <1>2, <2>1, <2>3
  <2> QED
    BY <1>2, <2>2, <2>4 DEF r
<1>3. CASE r # m - 1
  <2> DEFINE p == m * q
  <2>1. x = p + r /\ p \in Int
    BY <1>1
  <2>2. r + 1 \in Int /\ 0 <= r + 1 /\ r + 1 < m
    BY <1>1, <1>3
  <2>3. (p + (r + 1)) % m = r + 1
    BY <1>1, <2>2, RemainderIsUnique
  <2> HIDE DEF p
  <2>4. x + 1 = p + (r + 1)
    BY <1>1, <2>1
  <2> QED
    BY <1>3, <2>3, <2>4 DEF r
<1> QED
  BY <1>2, <1>3

\* An increment of a LONG is the LONG of the increment.
LEMMA WrapIsExact ==
  /\ Wrap(0) = 0
  /\ \A n \in Int : Wrap(n) \in LONG /\ Wrap(Wrap(n) + 1) = Wrap(n + 1)
<1>1. ASSUME NEW n \in Int PROVE Wrap(n) \in LONG
  BY HalfAssumption DEF Wrap, LONG
<1>2. ASSUME NEW n \in Int PROVE Wrap(Wrap(n) + 1) = Wrap(n + 1)
  <2> DEFINE x == n + Half
             m == 2 * Half
  <2>1. x \in Int /\ m \in Nat \ {0} /\ x % m \in 0..m - 1
    BY HalfAssumption
  <2>2. Wrap(n + 1) = ((x + 1) % m) - Half
    BY HalfAssumption DEF Wrap
  <2>3. Wrap(Wrap(n) + 1) = (((x % m) + 1) % m) - Half
    BY HalfAssumption DEF Wrap
  <2> HIDE DEF x, m
  <2>4. (x % m) % m = x % m
    <3>1. x % m = (m * 0) + (x % m) /\ x % m \in Int /\ 0 <= x % m /\ x % m < m
      BY <2>1
    <3> QED
      BY <2>1, <3>1, RemainderIsUnique
  <2>5. ((x % m) + 1) % m = (x + 1) % m
    <3>1. x % m \in Int
      BY <2>1
    <3> QED
      BY <2>1, <2>4, <3>1, NextRemainder
  <2> QED
    BY <2>2, <2>3, <2>5
<1>3. Wrap(0) = 0
  <2>1. (((2 * Half) * 0) + Half) % (2 * Half) = Half
    BY HalfAssumption, RemainderIsUnique
  <2> QED
    BY <2>1, HalfAssumption DEF Wrap
<1> QED
  BY <1>1, <1>2, <1>3

\* One more increment gives one more of its LONG, and of no other.
LEMMA ExpectedGrows ==
  ASSUME NEW v \in LONG
  PROVE  /\ Expected(v, 0) = 0
         /\ \A n \in Nat : /\ Expected(v, n) \in Nat
                           /\ Expected(v, n + 1) =
                                 IF v = Wrap(n + 1) THEN Expected(v, n) + 1 ELSE Expected(v, n)
<1> DEFINE S(n) == {i \in 1..n : Wrap(i) = v}
<1>1. Expected(v, 0) = 0
  <2>1. S(0) = {}
    OBVIOUS
  <2> QED
    BY <2>1, FS_EmptySet DEF Expected
<1>2. ASSUME NEW n \in Nat
      PROVE  /\ Expected(v, n) \in Nat
             /\ Expected(v, n + 1) =
                   IF v = Wrap(n + 1) THEN Expected(v, n) + 1 ELSE Expected(v, n)
  <2>1. IsFiniteSet(1..n) /\ S(n) \subseteq 1..n
    BY FS_Interval
  <2>2. IsFiniteSet(S(n)) /\ Cardinality(S(n)) \in Nat
    BY <2>1, FS_Subset, FS_CardinalityType
  <2>3. n + 1 \notin S(n) /\ S(n + 1) = IF v = Wrap(n + 1) THEN S(n) \cup {n + 1} ELSE S(n)
    OBVIOUS
  <2> QED
    BY <2>2, <2>3, FS_AddElement DEF Expected
<1> QED
  BY <1>1, <1>2

-------------------------------------------------------------------------------
(* The answers to increments *)

ClientPlaces == {"new", "open", "exited"} \cup Open

\* What a client is about to do in the driver is what it asked for, and the value it is
\* about to hand over is a LONG.
Ready(c) ==
    /\ pc[c] \in {"increment", "get", "crash"} => mode[c] = pc[c]
    /\ pc[c] \in {"paged", "acquire", "read", "release"} => mode[c] = "paged"
    /\ pc[c] = "copy" /\ mode[c] = "increment" => value[c] \in LONG

RequestInv == \A c \in Clients : Ready(c)

\* Nobody has the device open while the driver is not loaded.
OpenInv == entry # "loaded" => \A c \in Clients : pc[c] \notin Open

\* The counter is that of the increments, and each of them was, or is, an answer.
CountInv ==
    /\ increments \in Nat
    /\ counter = Wrap(increments)
    /\ delivered \in [LONG -> Nat]
    /\ EveryIncrementIsAnsweredOnce

ClientTypes ==
    /\ pc \in [Clients -> ClientPlaces] /\ mode \in [Clients -> Modes]
    /\ DOMAIN value = Clients /\ value = [c \in Clients |-> value[c]]

AnswerInv == CleanInv /\ ClientTypes /\ RequestInv /\ OpenInv /\ CountInv

\* Who has incremented to v and not handed it over.
Flying(v) == {c \in Clients : pc[c] = "copy" /\ mode[c] = "increment" /\ value[c] = v}

LEMMA FlyingIsFinite ==
  ASSUME NEW v
  PROVE  IsFiniteSet(Flying(v)) /\ Cardinality(Flying(v)) \in Nat /\ InFlight(v) = Cardinality(Flying(v))
<1>1. IsFiniteSet(Flying(v))
  BY ClientsAssumption, FS_Subset DEF Flying
<1> QED
  BY <1>1, FS_CardinalityType DEF InFlight, Flying

LEMMA AnswerInit == Init => AnswerInv
<1> SUFFICES ASSUME Init PROVE AnswerInv
  OBVIOUS
<1>1. ClientTypes /\ RequestInv /\ OpenInv
  BY DEF Init, ClientTypes, ClientPlaces, Modes, RequestInv, Ready, OpenInv, Open
<1>2. ASSUME NEW v \in LONG PROVE delivered[v] + InFlight(v) = Expected(v, increments)
  <2>1. Flying(v) = {}
    BY DEF Init, Flying
  <2>2. InFlight(v) = 0
    BY <2>1, FlyingIsFinite, FS_EmptySet
  <2> QED
    BY <2>2, ExpectedGrows DEF Init
<1>3. CountInv
  BY <1>2, WrapIsExact DEF Init, CountInv, EveryIncrementIsAnsweredOnce
<1> QED
  BY <1>1, <1>3, CleanInit DEF AnswerInv

\* Nothing is counted and nothing handed over, and as many are about to.
LEMMA QuietStep ==
  ASSUME CountInv, UNCHANGED <<counter, history>>, \A v \in LONG : Flying(v)' = Flying(v)
  PROVE  CountInv'
<1>1. ASSUME NEW v \in LONG PROVE InFlight(v)' = InFlight(v)
  BY <1>1, FlyingIsFinite DEF InFlight, Flying
<1> QED
  BY <1>1 DEF CountInv, EveryIncrementIsAnsweredOnce, Expected, history

\* The service starts, fails, is stopped or is unloaded: a new device counts from 0, and
\* nobody is in the driver then.
LEMMA ServiceKeepsCount ==
  ASSUME AnswerInv, Service, UNCHANGED config
  PROVE  AnswerInv'
<1>1. CleanInv'
  BY ServiceKeepsClean DEF AnswerInv
<1>2. UNCHANGED <<pc, mode, left, value, rc>>
  BY DEF Service, clients
<1>3. ClientTypes' /\ RequestInv'
  BY <1>2 DEF AnswerInv, ClientTypes, RequestInv, Ready
<1>4. OpenInv'
  <2>1. CASE TgUnload
    BY <1>2, <2>1 DEF TgUnload, OpenInv
  <2>2. CASE ~TgUnload
    <3>1. entry = "loaded" => entry' = "loaded"
      BY <2>2 DEF Service, StartService, DriverEntry, AllocatePaged, CreateDevice, CreateLink,
                  FillTable, Fail, StopService
    <3> QED
      BY <1>2, <3>1 DEF AnswerInv, OpenInv
  <2> QED
    BY <2>1, <2>2
<1>5. \A v \in LONG : Flying(v)' = Flying(v)
  BY <1>2 DEF Flying
<1>6. CountInv'
  <2>1. CASE UNCHANGED <<counter, history>>
    BY <1>5, <2>1, QuietStep DEF AnswerInv
  <2>2. CASE ~UNCHANGED <<counter, history>>
    <3>1. entry = "device" /\ counter' = 0 /\ increments' = 0 /\ delivered' = [v \in LONG |-> 0]
      BY <2>2 DEF Service, StartService, DriverEntry, AllocatePaged, CreateDevice, CreateLink,
                  FillTable, Fail, StopService, TgUnload, history
    <3>2. ASSUME NEW v \in LONG
          PROVE  delivered'[v] + InFlight(v)' = Expected(v, increments')
      <4>1. Flying(v)' = {}
        BY <1>5, <3>1 DEF AnswerInv, OpenInv, Flying, Open
      <4>2. InFlight(v)' = 0
        BY <4>1, FS_EmptySet DEF InFlight, Flying
      <4> QED
        BY <3>1, <4>2, ExpectedGrows
    <3> QED
      BY <3>1, <3>2, WrapIsExact DEF CountInv, EveryIncrementIsAnsweredOnce, Expected
  <2> QED
    BY <2>1, <2>2
<1> QED
  BY <1>1, <1>3, <1>4, <1>6 DEF AnswerInv

\* Only client c moves.
Moves(c) ==
    /\ DOMAIN value' = Clients /\ value' = [d \in Clients |-> value'[d]]
    /\ pc' \in [Clients -> ClientPlaces] /\ mode' \in [Clients -> Modes]
    /\ \A d \in Clients \ {c} : pc'[d] = pc[d] /\ mode'[d] = mode[d] /\ value'[d] = value[d]

\* A client that moves keeps everything but the count, if it is entitled to be where it goes.
LEMMA MoveKeepsRest ==
  ASSUME AnswerInv, NEW c \in Clients, UNCHANGED <<config, driver>>, Moves(c), Ready(c)',
         pc'[c] \in Open => pc[c] \in Open \/ entry = "loaded"
  PROVE  CleanInv' /\ ClientTypes' /\ RequestInv' /\ OpenInv'
<1>1. CleanInv'
  BY DEF AnswerInv, config, driver, CleanInv, ObjectsInv, BasicInv, StoppingInv, Pool
<1>2. ClientTypes'
  BY DEF Moves, ClientTypes
<1>3. RequestInv'
  <2>1. ASSUME NEW d \in Clients PROVE Ready(d)'
    <3>1. CASE d = c
      BY <3>1
    <3>2. CASE d # c
      BY <3>2 DEF AnswerInv, RequestInv, Ready, Moves
    <3> QED
      BY <3>1, <3>2
  <2> QED
    BY <2>1 DEF RequestInv
<1>4. OpenInv'
  <2>1. SUFFICES ASSUME entry # "loaded", NEW d \in Clients PROVE pc'[d] \notin Open
    BY DEF OpenInv, driver
  <2>2. pc[d] \notin Open /\ pc[c] \notin Open
    BY <2>1 DEF AnswerInv, OpenInv
  <2>3. CASE d = c
    BY <2>1, <2>2, <2>3
  <2>4. CASE d # c
    BY <2>2, <2>4 DEF Moves
  <2> QED
    BY <2>3, <2>4
<1> QED
  BY <1>1, <1>2, <1>3, <1>4

\* A client that moves without an increment in its hands changes no count.
LEMMA QuietMove ==
  ASSUME AnswerInv, NEW c \in Clients, UNCHANGED <<config, driver, counter, history>>,
         Moves(c), Ready(c)', pc'[c] \in Open => pc[c] \in Open \/ entry = "loaded",
         ~(pc[c] = "copy" /\ mode[c] = "increment"), ~(pc'[c] = "copy" /\ mode'[c] = "increment")
  PROVE  AnswerInv'
<1>1. \A v \in LONG : Flying(v)' = Flying(v)
  BY DEF Moves, Flying
<1>2. CountInv'
  BY <1>1, QuietStep DEF AnswerInv
<1> QED
  BY <1>2, MoveKeepsRest DEF AnswerInv

\* Starting, killing and running a client outside the driver.
LEMMA ClientKeepsCount ==
  ASSUME AnswerInv, NEW c \in Clients, Start(c) \/ Client(c), UNCHANGED config
  PROVE  AnswerInv'
<1>0. UNCHANGED <<config, driver, counter, history>>
  BY DEF Start, Client
<1> USE DEF Moves, Ready, ClientTypes, ClientPlaces, Modes, Open, Goto
<1>1. CASE Run(c)
  <2>1. Moves(c) /\ pc[c] = "new" /\ pc'[c] = "open"
    BY <1>1 DEF AnswerInv, Run
  <2> QED
    BY <1>0, <2>1, QuietMove
<1>2. CASE Killed(c)
  <2>1. Moves(c) /\ pc[c] \in {"open", "send", "close"} /\ pc'[c] = "exited"
    BY <1>2 DEF AnswerInv, Killed
  <2> QED
    BY <1>0, <2>1, QuietMove
<1>3. CASE CreateFile(c)
  <2>1. Moves(c) /\ pc[c] = "open" /\ pc'[c] \in {"send", "exited"}
    BY <1>3 DEF AnswerInv, CreateFile
  <2>2. pc'[c] = "send" => entry = "loaded"
    BY <1>3 DEF AnswerInv, CreateFile, CanOpen
  <2> QED
    BY <1>0, <2>1, <2>2, QuietMove
<1>4. CASE SendIoctl(c) \/ SendFailed(c) \/ CloseHandle(c)
  <2>1. Moves(c) /\ pc[c] \in {"send", "refused", "close"}
           /\ pc'[c] \in {"check", "close", "send", "exited"}
    BY <1>4 DEF AnswerInv, SendIoctl, SendFailed, CloseHandle
  <2> QED
    BY <1>0, <2>1, QuietMove
<1> QED
  BY <1>1, <1>2, <1>3, <1>4 DEF Start, Client

\* An increment puts one answer more on its way, the one that is due.
LEMMA IncrementKeepsCount ==
  ASSUME AnswerInv, NEW c \in Clients, InterlockedIncrement(c), UNCHANGED <<config, driver>>
  PROVE  AnswerInv'
<1>1. /\ Moves(c) /\ pc[c] = "increment" /\ pc'[c] = "copy"
      /\ mode[c] = "increment" /\ mode'[c] = "increment" /\ value'[c] = counter'
  BY DEF AnswerInv, ClientTypes, ClientPlaces, Modes, Open, RequestInv, Ready,
         InterlockedIncrement, Goto, Moves
<1>2. /\ increments \in Nat /\ increments' = increments + 1
      /\ counter' = Wrap(increments + 1) /\ counter' \in LONG
  BY WrapIsExact DEF AnswerInv, CountInv, InterlockedIncrement
<1>3. UNCHANGED delivered /\ delivered \in [LONG -> Nat]
  BY DEF AnswerInv, CountInv, InterlockedIncrement
<1>4. ASSUME NEW v \in LONG
      PROVE  delivered[v] + InFlight(v)' = Expected(v, increments + 1)
  <2>1. /\ Expected(v, increments) \in Nat
        /\ Expected(v, increments + 1) =
              IF v = counter' THEN Expected(v, increments) + 1 ELSE Expected(v, increments)
    BY <1>2, ExpectedGrows
  <2>2. c \notin Flying(v) /\ Flying(v)' = IF v = counter' THEN Flying(v) \cup {c} ELSE Flying(v)
    BY <1>1 DEF Flying, Moves
  <2>3. Cardinality(Flying(v)') =
           IF v = counter' THEN Cardinality(Flying(v)) + 1 ELSE Cardinality(Flying(v))
    <3>1. IsFiniteSet(Flying(v)) /\ c \notin Flying(v)
      BY <2>2, FlyingIsFinite
    <3>2. Cardinality(Flying(v) \cup {c}) = Cardinality(Flying(v)) + 1
      BY <3>1, FS_AddElement
    <3> QED
      BY <2>2, <3>2
  <2>4. InFlight(v)' = Cardinality(Flying(v)') /\ InFlight(v) = Cardinality(Flying(v))
    BY DEF InFlight, Flying
  <2>5. delivered[v] + InFlight(v) = Expected(v, increments) /\ delivered[v] \in Nat
    BY <1>3 DEF AnswerInv, CountInv, EveryIncrementIsAnsweredOnce
  <2>6. Cardinality(Flying(v)) \in Nat
    BY FlyingIsFinite
  <2> QED
    BY <2>1, <2>3, <2>4, <2>5, <2>6
<1>5. CountInv'
  BY <1>2, <1>3, <1>4 DEF CountInv, EveryIncrementIsAnsweredOnce, Expected
<1>6. Ready(c)'
  BY <1>1, <1>2 DEF Ready
<1> QED
  BY <1>1, <1>5, <1>6, MoveKeepsRest DEF AnswerInv, Open

\* Handing a value over takes it off its way; only an increment's is counted.
LEMMA CopyKeepsCount ==
  ASSUME AnswerInv, NEW c \in Clients, Copy(c), UNCHANGED <<config, driver>>
  PROVE  AnswerInv'
<1>1. Moves(c) /\ pc[c] = "copy" /\ pc'[c] = "send" /\ Ready(c)' /\ mode[c] = mode'[c]
  BY DEF AnswerInv, ClientTypes, ClientPlaces, Modes, Open, Ready, Copy, Goto, Moves
<1>2. CASE mode[c] = "increment"
  <2>1. value[c] \in LONG
    BY <1>1, <1>2 DEF AnswerInv, RequestInv, Ready
  <2>2. /\ UNCHANGED <<counter, increments>> /\ delivered \in [LONG -> Nat]
        /\ delivered' = [delivered EXCEPT ![value[c]] = @ + 1]
    BY <1>2 DEF AnswerInv, CountInv, Copy
  <2>3. ASSUME NEW v \in LONG
        PROVE  delivered'[v] + InFlight(v)' = Expected(v, increments)
    <3>1. IF v = value[c] THEN c \in Flying(v) /\ Flying(v)' = Flying(v) \ {c}
                          ELSE Flying(v)' = Flying(v)
      BY <1>1, <1>2 DEF Flying, Moves
    <3>2. IsFiniteSet(Flying(v)) /\ Cardinality(Flying(v)) \in Nat
      BY FlyingIsFinite
    <3>3. Cardinality(Flying(v)') =
             IF v = value[c] THEN Cardinality(Flying(v)) - 1 ELSE Cardinality(Flying(v))
      BY <3>1, <3>2, FS_RemoveElement
    <3>4. InFlight(v)' = Cardinality(Flying(v)') /\ InFlight(v) = Cardinality(Flying(v))
      BY DEF InFlight, Flying
    <3>5. /\ delivered'[v] = IF v = value[c] THEN delivered[v] + 1 ELSE delivered[v]
          /\ delivered[v] \in Nat
      BY <2>1, <2>2
    <3>6. delivered[v] + InFlight(v) = Expected(v, increments)
      BY DEF AnswerInv, CountInv, EveryIncrementIsAnsweredOnce
    <3> QED
      BY <3>2, <3>3, <3>4, <3>5, <3>6
  <2>4. CountInv'
    BY <2>1, <2>2, <2>3 DEF AnswerInv, CountInv, EveryIncrementIsAnsweredOnce, Expected
  <2> QED
    BY <1>1, <2>4, MoveKeepsRest DEF AnswerInv, Open
<1>3. CASE mode[c] # "increment"
  <2>1. UNCHANGED <<counter, history>>
    BY <1>3 DEF Copy, history
  <2> QED
    BY <1>1, <1>3, <2>1, QuietMove DEF Open
<1> QED
  BY <1>2, <1>3

\* The other steps of a request carry no increment.
LEMMA RequestKeepsCount ==
  ASSUME AnswerInv, NEW c \in Clients, TgDispatchDeviceControl(c), UNCHANGED config
  PROVE  AnswerInv'
<1>0. UNCHANGED <<config, driver>>
  BY DEF TgDispatchDeviceControl
<1>1. CASE InterlockedIncrement(c)
  BY <1>0, <1>1, IncrementKeepsCount
<1>2. CASE Copy(c)
  BY <1>0, <1>2, CopyKeepsCount
<1> USE DEF AnswerInv, ClientTypes, ClientPlaces, Modes, Open, RequestInv, Ready, Goto, Moves
<1>3. CASE Check(c)
  <2>1. UNCHANGED <<counter, history>> /\ Moves(c) /\ pc[c] = "check" /\ mode[c] = mode'[c]
    BY <1>3 DEF Check, KnownCodes
  <2>2. pc'[c] \in {"increment", "get", "crash", "paged", "refused"}
          /\ (pc'[c] # "refused" => pc'[c] = mode'[c])
    BY <1>3 DEF Check, KnownCodes
  <2>3. Ready(c)'
    BY <2>2
  <2> HIDE DEF AnswerInv, Moves, Ready
  <2> QED
    BY <1>0, <2>1, <2>2, <2>3, QuietMove
<1>4. CASE ReadCounter(c)
  <2>1. UNCHANGED <<counter, history>> /\ Moves(c) /\ pc[c] = "get"
          /\ mode'[c] = "get" /\ pc'[c] = "copy"
    BY <1>4 DEF ReadCounter
  <2>2. Ready(c)'
    BY <2>1
  <2> HIDE DEF AnswerInv, Moves, Ready
  <2> QED
    BY <1>0, <2>1, <2>2, QuietMove
<1>5. CASE TestPaged(c) \/ AcquireSpinLock(c) \/ ReadPaged(c) \/ ReleaseSpinLock(c)
  <2>1. UNCHANGED <<counter, history>> /\ Moves(c)
    BY <1>5 DEF TestPaged, AcquireSpinLock, ReadPaged, ReleaseSpinLock
  <2>2. pc[c] \in {"paged", "acquire", "read", "release"} /\ mode'[c] = "paged"
          /\ pc'[c] \in {"refused", "acquire", "read", "release", "copy"}
    BY <1>5 DEF TestPaged, AcquireSpinLock, ReadPaged, ReleaseSpinLock
  <2>3. Ready(c)'
    BY <2>2
  <2> HIDE DEF AnswerInv, Moves, Ready
  <2> QED
    BY <1>0, <2>1, <2>2, <2>3, QuietMove
<1> QED
  BY <1>1, <1>2, <1>3, <1>4, <1>5 DEF TgDispatchDeviceControl

LEMMA AnswerNext == AnswerInv /\ [Next]_vars => AnswerInv'
<1> SUFFICES ASSUME AnswerInv, [Next]_vars PROVE AnswerInv'
  OBVIOUS
<1>1. CASE Running(Service)
  BY <1>1, ServiceKeepsCount DEF Running
<1>2. ASSUME NEW c \in Clients, Running(Start(c)) \/ Running(Client(c)) PROVE AnswerInv'
  BY <1>2, ClientKeepsCount DEF Running
<1>3. ASSUME NEW c \in Clients, Running(TgDispatchDeviceControl(c)) PROVE AnswerInv'
  BY <1>3, RequestKeepsCount DEF Running
<1>4. CASE UNCHANGED <<config, driver, counter, clients, history>>
  <2>1. UNCHANGED <<pc, mode, value, entry>>
    BY <1>4 DEF clients, driver
  <2>2. ClientTypes' /\ RequestInv' /\ OpenInv'
    BY <2>1 DEF AnswerInv, ClientTypes, RequestInv, Ready, OpenInv
  <2>3. CleanInv'
    BY <1>4 DEF AnswerInv, config, driver, CleanInv, ObjectsInv, BasicInv, StoppingInv, Pool
  <2>4. CountInv'
    BY <1>4, <2>1, QuietStep DEF AnswerInv, Flying
  <2> QED
    BY <2>2, <2>3, <2>4 DEF AnswerInv
<1>5. ASSUME NEW c \in Clients, Bugcheck(c) PROVE AnswerInv'
  BY <1>4, <1>5 DEF Bugcheck
<1>6. CASE UNCHANGED vars
  BY <1>4, <1>6 DEF vars
<1> QED
  BY <1>1, <1>2, <1>3, <1>5, <1>6 DEF Next

\* Every increment is the answer of exactly one INCREMENT request, whichever way the
\* requests of any number of clients interleave, round after round of a LONG of any width
\* (TgDispatchDeviceControl: the value InterlockedIncrement returned is what is copied).
THEOREM EveryIncrementIsAnsweredOnceHolds == Spec => []EveryIncrementIsAnsweredOnce
<1>1. AnswerInv => EveryIncrementIsAnsweredOnce
  BY DEF AnswerInv, CountInv
<1> QED
  BY <1>1, AnswerInit, AnswerNext, PTL DEF Spec
===============================================================================
