------------------------ MODULE SessionRegistryProofs ------------------------
(***************************************************************************)
(* Proofs about SessionRegistry, for any ids and any number of objects and *)
(* requests: its types, who owns an object, what a shutdown leaves, that   *)
(* replies are conserved, that to its requests a session is a ReplyPipe,   *)
(* and which reply a request returns that met no other.                    *)
(***************************************************************************)
EXTENDS SessionRegistry, SequenceTheorems, FunctionTheorems, FiniteSetTheorems, TLAPS

LoopTypes    == [pc : {"new", "wait", "chat", "done"}, running : BOOLEAN,
                 msg : Requests \union {None}]
BgTypes      == [pc : {"new", "run", "done"}, running : BOOLEAN]
RequestTypes == [obj : Objects \union {None}, got : Requests \union {None},
                 status : {"unsent", "waiting", "ok", "timeout"}]
CleanerTypes == [pc : {"sleep", "closing", "dead", "cancelled"}, rest : Seq(Sids),
                 obj : Objects \union {None}]
Closers      == {"nobody", "delete", "cleaner", "shutdown"}
Queues       == [Objects -> Seq(Requests)]

\* The types, and how far the numbers of objects and requests have come.
TypeInv ==
    /\ created \in 0..MaxSessions
    /\ registry \in [Sids -> 0..created]
    /\ idle \subseteq Objects
    /\ loop \in [Objects -> LoopTypes]
    /\ \A o \in Objects : loop[o].pc = "chat" <=> loop[o].msg # None
    /\ bg \in [Objects -> BgTypes]
    /\ inbound \in Queues /\ outbound \in Queues /\ getters \in Queues /\ woken \in Queues
    /\ sent \in 0..MaxRequests
    /\ request \in [Requests -> RequestTypes]
    /\ \A r \in Requests : request[r].status = "ok" <=> request[r].got # None
    /\ \A r \in Requests : IF r <= sent THEN request[r].status # "unsent" /\ request[r].obj # None
                                        ELSE request[r].status = "unsent"
    /\ closer \in [Objects -> Closers]
    /\ cleaner \in CleanerTypes
    /\ cleaner.pc = "closing" => cleaner.obj # None
    /\ server \in {"up", "stopping", "down"}
    /\ overlapped \subseteq Objects

\* Each object that was made is in the registry once, or one caller has it.
Owned ==
    /\ OwnedOnce
    /\ \A o \in Objects : o > created => closer[o] = "nobody"
    /\ \A s, t \in Sids : registry[s] = registry[t] /\ registry[s] # None => s = t

\* What the cleanup task and the shutdown have left behind them.
Closing ==
    /\ cleaner.pc = "closing" => closer[cleaner.obj] = "cleaner"
    /\ server # "up" => cleaner.pc = "cancelled"
    /\ server = "up" => \A o \in Objects : closer[o] # "shutdown"
    /\ server = "down" => ShutdownIdle /\ \A s \in Sids : registry[s] = None
    /\ \A o \in Objects : /\ closer[o] = "cleaner" =>
                               TasksDone(o) \/ (cleaner.pc = "closing" /\ cleaner.obj = o)
                          /\ closer[o] = "delete" /\ server # "up" => TasksDone(o)

\* q and p have no request twice, nor one in common.
OneEach(q, p) ==
    /\ \A i, j \in 1..Len(q) : q[i] = q[j] => i = j
    /\ \A i, j \in 1..Len(p) : p[i] = p[j] => i = j
    /\ \A i \in 1..Len(q), j \in 1..Len(p) : q[i] # p[j]

\* A request that waits on a queue, or has been woken, is waiting, and only once.
Waiters ==
    \A o \in Objects :
        /\ OneEach(getters[o], woken[o])
        /\ \A r \in Requests : Contains(getters[o], r) \/ Contains(woken[o], r) =>
              request[r].status = "waiting" /\ request[r].obj = o

Count(q, r)  == Cardinality({i \in DOMAIN q : q[i] = r})
InHand(o, r) == IF loop[o].msg = r THEN 1 ELSE 0
Returned(r)  == Cardinality({q \in Requests : request[q].got = r})

Total(o, r)  == Count(inbound[o], r) + InHand(o, r) + Count(outbound[o], r) + Returned(r)

\* Tasks that were cancelled in the hands of the cleanup task.
Cancelled(o) == server # "up" /\ closer[o] = "cleaner"

\* The messages and the replies of an object belong to requests sent to it.
Pipeline ==
    /\ \A o \in Objects, r \in Requests :
          Contains(inbound[o], r) \/ Contains(outbound[o], r) \/ loop[o].msg = r =>
              r <= sent /\ request[r].obj = o
    /\ \A r \in Requests : request[r].got <= sent
    /\ \A r \in 1..sent : Total(request[r].obj, r) = 1 \/ Cancelled(request[r].obj)

\* The requests to an object that timed out.
Expired(o) == {q \in Requests : request[q].obj = o /\ request[q].status = "timeout"}

Late(r) ==
    LET o   == request[r].obj
        got == request[r].got
    IN  request[r].status = "ok" /\ o \notin overlapped =>
          /\ got <= r /\ request[got].obj = o
          /\ Cardinality(SentTo(o, got + 1, r)) =
                Cardinality({q \in SentTo(o, 1, r) : request[q].status = "timeout"})

\* What is on its way in a session are its last messages, one for each request
\* that waits or has timed out.
LastMessages(o) ==
    /\ Len(OnTheWay(o)) = Cardinality(Expired(o)) + Cardinality(Pending(o))
    /\ \A i \in 1..Len(OnTheWay(o)) :
          LET m == OnTheWay(o)[i]
          IN  /\ m <= sent /\ request[m].obj = o
              /\ Cardinality(SentTo(o, m, sent)) = Len(OnTheWay(o)) - i + 1

InLineAt(o) ==
    o \notin overlapped =>
        /\ IF server = "up" THEN LastMessages(o) ELSE Pending(o) = {}
        /\ \A w \in Pending(o) : SentTo(o, w + 1, sent) = {}

InLine == (\A o \in Objects : InLineAt(o)) /\ (\A r \in Requests : Late(r))

-----------------------------------------------------------------------------
(* Queues. *)

LEMMA Numbers ==
    /\ MaxSessions \in Nat /\ MaxRequests \in Nat /\ IsFiniteSet(Sids)
    /\ None = 0 /\ None \notin Objects /\ None \notin Requests
    /\ Objects \subseteq Nat /\ Requests \subseteq Nat
BY ConstantsAssumption DEF None, Objects, Requests

\* The members of a queue after a put, and of one that is not empty.
LEMMA ContainsAppend ==
    ASSUME NEW S, NEW q \in Seq(S), NEW x \in S
    PROVE  \A y : Contains(Append(q, x), y) <=> Contains(q, y) \/ y = x
<1>1. /\ Len(q) \in Nat /\ Len(Append(q, x)) = Len(q) + 1
      /\ Append(q, x)[Len(q) + 1] = x /\ \A i \in 1..Len(q) : Append(q, x)[i] = q[i]
    BY AppendProperties, LenProperties
<1> SUFFICES ASSUME NEW y PROVE Contains(Append(q, x), y) <=> Contains(q, y) \/ y = x
    OBVIOUS
<1>2. ASSUME Contains(q, y) \/ y = x PROVE Contains(Append(q, x), y)
    <2>1. CASE y = x
        BY <1>1, <2>1 DEF Contains
    <2>2. CASE Contains(q, y)
        <3>1. PICK i \in 1..Len(q) : q[i] = y
            BY <2>2 DEF Contains
        <3>2. i \in 1..Len(Append(q, x))
            BY <1>1, <3>1
        <3> QED
            BY <1>1, <3>1, <3>2 DEF Contains
    <2> QED
        BY <1>2, <2>1, <2>2
<1>3. ASSUME Contains(Append(q, x), y), y # x PROVE Contains(q, y)
    <2>1. PICK i \in 1..(Len(q) + 1) : Append(q, x)[i] = y
        BY <1>1, <1>3 DEF Contains
    <2>2. i \in 1..Len(q)
        BY <1>1, <1>3, <2>1
    <2> QED
        BY <1>1, <2>1, <2>2 DEF Contains
<1> QED
    BY <1>2, <1>3

LEMMA ContainsHeadTail ==
    ASSUME NEW S, NEW q \in Seq(S), q # << >>
    PROVE  /\ Contains(q, Head(q))
           /\ \A y : Contains(Tail(q), y) => Contains(q, y)
<1>1. /\ Len(q) \in Nat \ {0} /\ Head(q) = q[1]
      /\ Len(Tail(q)) = Len(q) - 1 /\ \A i \in 1..Len(Tail(q)) : Tail(q)[i] = q[i + 1]
    BY HeadTailProperties, EmptySeq
<1>2. Contains(q, Head(q))
    BY <1>1 DEF Contains
<1>3. ASSUME NEW y, Contains(Tail(q), y) PROVE Contains(q, y)
    <2>1. PICK i \in 1..Len(Tail(q)) : Tail(q)[i] = y
        BY <1>3 DEF Contains
    <2>2. i + 1 \in 1..Len(q) /\ q[i + 1] = y
        BY <1>1, <2>1
    <2> QED
        BY <2>2 DEF Contains
<1> QED
    BY <1>2, <1>3

LEMMA ContainsNothing == \A y : ~Contains(<< >>, y)
BY DEF Contains

\* What Without removes, and where the rest is.
LEMMA WithoutMap ==
    ASSUME NEW S, NEW q \in Seq(S), NEW r, Contains(q, r)
    PROVE  \E k \in 1..Len(q) :
              /\ q[k] = r
              /\ Without(q, r) \in Seq(S) /\ Len(Without(q, r)) = Len(q) - 1
              /\ \A i \in 1..(Len(q) - 1) :
                    Without(q, r)[i] = IF i < k THEN q[i] ELSE q[i + 1]
<1> DEFINE k == CHOOSE i \in DOMAIN q : q[i] = r
           a == SubSeq(q, 1, k - 1)
           b == SubSeq(q, k + 1, Len(q))
<1>1. Len(q) \in Nat /\ DOMAIN q = 1..Len(q) /\ \A i \in 1..Len(q) : q[i] \in S
    BY LenProperties, ElementOfSeq
<1>2. k \in 1..Len(q) /\ q[k] = r
    BY <1>1 DEF Contains
<1>3. Without(q, r) = a \o b
    BY DEF Without, RemoveAt
<1> HIDE DEF k
<1>4. a \in Seq(S) /\ Len(a) = k - 1 /\ \A i \in 1..(k - 1) : a[i] = q[i]
    <2>1. /\ 1 \in Int /\ k - 1 \in Int /\ \A i \in 1..(k - 1) : q[i] \in S
        BY <1>1, <1>2
    <2>2. /\ a \in Seq(S) /\ Len(a) = IF 1 <= k - 1 THEN k - 1 - 1 + 1 ELSE 0
          /\ \A i \in 1..(k - 1 - 1 + 1) : a[i] = q[1 + i - 1]
        BY <2>1, SubSeqProperties
    <2> HIDE DEF a
    <2>3. k - 1 - 1 + 1 = k - 1 /\ Len(a) = k - 1
        BY <1>1, <1>2, <2>2
    <2>4. ASSUME NEW i \in 1..(k - 1) PROVE a[i] = q[i]
        <3>1. 1 + i - 1 = i
            OBVIOUS
        <3> QED
            BY <2>2, <2>3, <3>1
    <2> QED
        BY <2>2, <2>3, <2>4
<1>5. b \in Seq(S) /\ Len(b) = Len(q) - k /\ \A i \in 1..(Len(q) - k) : b[i] = q[k + i]
    <2>1. /\ k + 1 \in Int /\ Len(q) \in Int /\ \A i \in (k + 1)..Len(q) : q[i] \in S
        BY <1>1, <1>2
    <2>2. /\ b \in Seq(S) /\ Len(b) = IF k + 1 <= Len(q) THEN Len(q) - (k + 1) + 1 ELSE 0
          /\ \A i \in 1..(Len(q) - (k + 1) + 1) : b[i] = q[(k + 1) + i - 1]
        BY <2>1, SubSeqProperties
    <2> HIDE DEF b
    <2>3. Len(q) - (k + 1) + 1 = Len(q) - k /\ Len(b) = Len(q) - k
        <3> DEFINE n == Len(q)
        <3>0. n \in Nat /\ k \in Nat /\ k <= n
            BY <1>1, <1>2
        <3> HIDE DEF n
        <3>1. n - (k + 1) + 1 = n - k
            BY <3>0
        <3>2. CASE k + 1 <= n
            BY <2>2, <3>1, <3>2 DEF n
        <3>3. CASE ~(k + 1 <= n)
            <4>1. n - k = 0
                BY <3>0, <3>3
            <4> QED
                BY <2>2, <3>1, <3>3, <4>1 DEF n
        <3> QED
            BY <3>2, <3>3
    <2>4. ASSUME NEW i \in 1..(Len(q) - k) PROVE b[i] = q[k + i]
        <3>1. (k + 1) + i - 1 = k + i
            BY <1>2
        <3> QED
            BY <2>2, <2>3, <3>1
    <2> QED
        BY <2>2, <2>3, <2>4
<1> HIDE DEF a, b
<1>6. /\ a \o b \in Seq(S) /\ Len(a \o b) = Len(q) - 1
      /\ \A i \in 1..(Len(q) - 1) : (a \o b)[i] = IF i < k THEN q[i] ELSE q[i + 1]
    <2>1. /\ a \o b \in Seq(S) /\ Len(a \o b) = Len(a) + Len(b)
          /\ \A i \in 1..(Len(a) + Len(b)) :
                (a \o b)[i] = IF i <= Len(a) THEN a[i] ELSE b[i - Len(a)]
        BY <1>4, <1>5, ConcatProperties
    <2>2. ASSUME NEW i \in 1..(Len(q) - 1)
          PROVE  (a \o b)[i] = IF i < k THEN q[i] ELSE q[i + 1]
        <3>1. CASE i < k
            BY <1>1, <1>2, <1>4, <1>5, <2>1, <3>1
        <3>2. CASE ~(i < k)
            <4>1. (a \o b)[i] = b[i - (k - 1)] /\ i - (k - 1) \in 1..(Len(q) - k)
                BY <1>1, <1>2, <1>4, <1>5, <2>1, <3>2
            <4>2. b[i - (k - 1)] = q[k + (i - (k - 1))]
                BY <1>5, <4>1
            <4>3. k + (i - (k - 1)) = i + 1
                BY <1>2
            <4> QED
                BY <3>2, <4>1, <4>2, <4>3
        <3> QED
            BY <3>1, <3>2
    <2> QED
        BY <1>1, <1>2, <1>4, <1>5, <2>1, <2>2
<1> QED
    BY <1>2, <1>3, <1>6

LEMMA WithoutTyped == ASSUME NEW S, NEW q \in Seq(S), NEW r PROVE Without(q, r) \in Seq(S)
<1>1. CASE Contains(q, r)
    BY <1>1, WithoutMap
<1>2. CASE ~Contains(q, r)
    BY <1>2 DEF Without
<1> QED
    BY <1>1, <1>2

LEMMA WithoutMembers ==
    ASSUME NEW S, NEW q \in Seq(S), NEW r, \A i, j \in 1..Len(q) : q[i] = q[j] => i = j
    PROVE  /\ \A y : Contains(Without(q, r), y) => Contains(q, y) /\ y # r
           /\ \A i, j \in 1..Len(Without(q, r)) : Without(q, r)[i] = Without(q, r)[j] => i = j
<1> DEFINE w == Without(q, r)
<1>1. CASE Contains(q, r)
    <2>1. PICK k \in 1..Len(q) :
              /\ q[k] = r /\ Len(w) = Len(q) - 1
              /\ \A i \in 1..(Len(q) - 1) : w[i] = IF i < k THEN q[i] ELSE q[i + 1]
        BY <1>1, WithoutMap
    <2>2. Len(q) \in Nat
        BY LenProperties
    <2> DEFINE at(i) == IF i < k THEN i ELSE i + 1
    <2>3. \A i \in 1..Len(w) : at(i) \in 1..Len(q) /\ at(i) # k /\ w[i] = q[at(i)]
        BY <2>1, <2>2
    <2>4. \A i, j \in 1..Len(w) : at(i) = at(j) => i = j
        BY <2>1, <2>2
    <2> HIDE DEF w, at
    <2>5. ASSUME NEW y, Contains(w, y) PROVE Contains(q, y) /\ y # r
        <3>1. PICK i \in 1..Len(w) : w[i] = y
            BY <2>5 DEF Contains
        <3>2. at(i) \in 1..Len(q) /\ q[at(i)] = y /\ at(i) # k
            BY <2>3, <3>1
        <3> QED
            BY <2>1, <3>2 DEF Contains
    <2>6. \A i, j \in 1..Len(w) : w[i] = w[j] => i = j
        BY <2>3, <2>4
    <2> QED
        BY <2>5, <2>6 DEF w
<1>2. CASE ~Contains(q, r)
    BY <1>2 DEF Without
<1> QED
    BY <1>1, <1>2

-----------------------------------------------------------------------------
(* Two queues that have each request once. *)

LEMMA OneEachWake ==
    ASSUME NEW S, NEW q \in Seq(S), NEW p \in Seq(S), OneEach(q, p), q # << >>
    PROVE  OneEach(Tail(q), Append(p, Head(q)))
<1>1. /\ Len(q) \in Nat \ {0} /\ Len(p) \in Nat /\ Head(q) = q[1] /\ Head(q) \in S
      /\ Len(Tail(q)) = Len(q) - 1 /\ \A i \in 1..Len(Tail(q)) : Tail(q)[i] = q[i + 1]
    BY HeadTailProperties, EmptySeq, LenProperties
<1>2. /\ Len(Append(p, Head(q))) = Len(p) + 1 /\ Append(p, Head(q))[Len(p) + 1] = q[1]
      /\ \A i \in 1..Len(p) : Append(p, Head(q))[i] = p[i]
    BY <1>1, AppendProperties
<1> DEFINE t == Tail(q)
           w == Append(p, Head(q))
<1> HIDE DEF t, w
<1>3. /\ Len(t) = Len(q) - 1 /\ Len(w) = Len(p) + 1 /\ w[Len(p) + 1] = q[1]
      /\ \A i \in 1..Len(t) : t[i] = q[i + 1] /\ i + 1 \in 1..Len(q) /\ i + 1 # 1
      /\ \A i \in 1..Len(p) : w[i] = p[i]
      /\ 1 \in 1..Len(q)
    BY <1>1, <1>2 DEF t, w
<1>4. \A i, j \in 1..Len(t) : t[i] = t[j] => i = j
    BY <1>3 DEF OneEach
<1>5. \A i, j \in 1..Len(w) : w[i] = w[j] => i = j
    <2> SUFFICES ASSUME NEW i \in 1..Len(w), NEW j \in 1..Len(w), w[i] = w[j] PROVE i = j
        OBVIOUS
    <2>1. i \in 1..Len(p) \/ i = Len(p) + 1
        BY <1>1, <1>3
    <2>2. j \in 1..Len(p) \/ j = Len(p) + 1
        BY <1>1, <1>3
    <2> QED
        BY <1>3, <2>1, <2>2 DEF OneEach
<1>6. ASSUME NEW i \in 1..Len(t), NEW j \in 1..Len(w) PROVE t[i] # w[j]
    <2>1. t[i] = q[i + 1] /\ i + 1 \in 1..Len(q) /\ i + 1 # 1
        BY <1>3
    <2>2. CASE j \in 1..Len(p)
        BY <1>3, <2>1, <2>2 DEF OneEach
    <2>3. CASE j = Len(p) + 1
        BY <1>3, <2>1, <2>3 DEF OneEach
    <2> QED
        BY <1>1, <1>3, <2>2, <2>3
<1> QED
    BY <1>4, <1>5, <1>6 DEF OneEach, t, w

LEMMA OneEachSwap == ASSUME NEW q, NEW p PROVE OneEach(q, p) => OneEach(p, q)
BY DEF OneEach

LEMMA OneEachAppend ==
    ASSUME NEW S, NEW q \in Seq(S), NEW p \in Seq(S), OneEach(q, p), NEW r \in S,
           ~Contains(q, r), ~Contains(p, r)
    PROVE  OneEach(Append(q, r), p)
<1>1. /\ Len(q) \in Nat /\ Len(Append(q, r)) = Len(q) + 1 /\ Append(q, r)[Len(q) + 1] = r
      /\ \A i \in 1..Len(q) : Append(q, r)[i] = q[i]
    BY AppendProperties, LenProperties
<1> DEFINE w == Append(q, r)
<1> HIDE DEF w
<1>2. \A i \in 1..Len(w) : (i \in 1..Len(q) /\ w[i] = q[i]) \/ (i = Len(q) + 1 /\ w[i] = r)
    BY <1>1 DEF w
<1>3. (\A i \in 1..Len(q) : q[i] # r) /\ (\A i \in 1..Len(p) : p[i] # r)
    BY DEF Contains
<1> QED
    BY <1>2, <1>3 DEF OneEach, w

LEMMA OneEachTail ==
    ASSUME NEW S, NEW q \in Seq(S), NEW p \in Seq(S), OneEach(q, p), q # << >>
    PROVE  OneEach(Tail(q), p) /\ ~Contains(Tail(q), Head(q)) /\ ~Contains(p, Head(q))
<1>1. /\ Len(q) \in Nat \ {0} /\ Head(q) = q[1]
      /\ Len(Tail(q)) = Len(q) - 1 /\ \A i \in 1..Len(Tail(q)) : Tail(q)[i] = q[i + 1]
    BY HeadTailProperties, EmptySeq
<1> DEFINE t == Tail(q)
<1> HIDE DEF t
<1>2. /\ \A i \in 1..Len(t) : t[i] = q[i + 1] /\ i + 1 \in 1..Len(q) /\ i + 1 # 1 /\ i \in Int
      /\ 1 \in 1..Len(q)
    BY <1>1 DEF t
<1>3. OneEach(t, p)
    BY <1>2 DEF OneEach
<1>4. (\A i \in 1..Len(t) : t[i] # Head(q)) /\ (\A i \in 1..Len(p) : p[i] # Head(q))
    BY <1>1, <1>2 DEF OneEach
<1> QED
    BY <1>3, <1>4 DEF Contains, t

LEMMA OneEachWithout ==
    ASSUME NEW S, NEW q \in Seq(S), NEW p \in Seq(S), OneEach(q, p), NEW r
    PROVE  OneEach(Without(q, r), Without(p, r))
<1>1. /\ \A y : Contains(Without(q, r), y) => Contains(q, y)
      /\ \A i, j \in 1..Len(Without(q, r)) : Without(q, r)[i] = Without(q, r)[j] => i = j
    BY WithoutMembers DEF OneEach
<1>2. /\ \A y : Contains(Without(p, r), y) => Contains(p, y)
      /\ \A i, j \in 1..Len(Without(p, r)) : Without(p, r)[i] = Without(p, r)[j] => i = j
    BY WithoutMembers DEF OneEach
<1>3. ASSUME NEW i \in 1..Len(Without(q, r)), NEW j \in 1..Len(Without(p, r)),
             Without(q, r)[i] = Without(p, r)[j]
      PROVE  FALSE
    <2>1. Contains(Without(q, r), Without(q, r)[i]) /\ Contains(Without(p, r), Without(q, r)[i])
        BY <1>3 DEF Contains
    <2>2. Contains(q, Without(q, r)[i]) /\ Contains(p, Without(q, r)[i])
        BY <1>1, <1>2, <2>1
    <2> QED
        BY <2>2 DEF Contains, OneEach
<1> QED
    BY <1>1, <1>2, <1>3 DEF OneEach

-----------------------------------------------------------------------------
(* How often a request is in a queue. *)

LEMMA CountEmpty ==
    ASSUME NEW S, NEW q \in Seq(S), NEW r
    PROVE  Count(q, r) \in Nat /\ (~Contains(q, r) => Count(q, r) = 0)
<1>1. DOMAIN q = 1..Len(q) /\ Len(q) \in Nat
    BY LenProperties
<1>2. IsFiniteSet(1..Len(q))
    BY <1>1, FS_Interval
<1>3. IsFiniteSet({i \in DOMAIN q : q[i] = r})
    BY <1>1, <1>2, FS_Subset
<1>4. ~Contains(q, r) => {i \in DOMAIN q : q[i] = r} = {}
    BY <1>1 DEF Contains
<1> QED
    BY <1>3, <1>4, FS_CardinalityType, FS_EmptySet DEF Count

LEMMA CountAppend ==
    ASSUME NEW S, NEW q \in Seq(S), NEW x \in S, NEW r
    PROVE  Count(Append(q, x), r) = Count(q, r) + (IF x = r THEN 1 ELSE 0)
<1> DEFINE here == {i \in DOMAIN q : q[i] = r}
           n == Len(q) + 1
           there == {i \in DOMAIN Append(q, x) : Append(q, x)[i] = r}
<1>1. /\ DOMAIN q = 1..Len(q) /\ Len(q) \in Nat /\ DOMAIN Append(q, x) = 1..n
      /\ Append(q, x)[n] = x /\ \A i \in 1..Len(q) : Append(q, x)[i] = q[i]
    BY AppendProperties, LenProperties
<1>2. IsFiniteSet(here) /\ n \notin here
    <2>1. IsFiniteSet(1..Len(q))
        BY <1>1, FS_Interval
    <2> QED
        BY <1>1, <2>1, FS_Subset
<1>3. there = IF x = r THEN here \union {n} ELSE here
    <2>1. \A i : i \in 1..n <=> i \in 1..Len(q) \/ i = n
        BY <1>1
    <2> QED
        BY <1>1, <2>1
<1>4. Cardinality(here) \in Nat /\ Cardinality(here \union {n}) = Cardinality(here) + 1
    BY <1>2, FS_AddElement, FS_CardinalityType
<1>5. Count(q, r) = Cardinality(here) /\ Count(Append(q, x), r) = Cardinality(there)
    BY DEF Count
<1> HIDE DEF here, there
<1> QED
    BY <1>3, <1>4, <1>5

LEMMA CountTail ==
    ASSUME NEW S, NEW q \in Seq(S), q # << >>, NEW r
    PROVE  Count(q, r) = Count(Tail(q), r) + (IF Head(q) = r THEN 1 ELSE 0)
<1> DEFINE here == {i \in DOMAIN q : q[i] = r}
           there == {i \in DOMAIN Tail(q) : Tail(q)[i] = r}
           shifted == {i \in 2..Len(q) : q[i] = r}
           f == [i \in there |-> i + 1]
<1>1. /\ DOMAIN q = 1..Len(q) /\ Len(q) \in Nat \ {0} /\ Head(q) = q[1]
      /\ DOMAIN Tail(q) = 1..(Len(q) - 1) /\ \A i \in 1..(Len(q) - 1) : Tail(q)[i] = q[i + 1]
    BY HeadTailProperties, EmptySeq, LenProperties
<1>2. IsFiniteSet(there) /\ IsFiniteSet(shifted)
    <2>1. IsFiniteSet(1..(Len(q) - 1)) /\ IsFiniteSet(2..Len(q))
        BY <1>1, FS_Interval
    <2> QED
        BY <1>1, <2>1, FS_Subset
<1>3. f \in Bijection(there, shifted)
    <2>1. f \in [there -> shifted]
        BY <1>1
    <2>2. \A i, j \in there : f[i] = f[j] => i = j
        BY <1>1
    <2>3. \A k \in shifted : \E i \in there : f[i] = k
        <3> TAKE k \in shifted
        <3>1. k - 1 \in there /\ f[k - 1] = k
            BY <1>1
        <3> QED
            BY <3>1
    <2> QED
        BY <2>1, <2>2, <2>3, Fun_IsBij
<1>4. Cardinality(there) = Cardinality(shifted) /\ Cardinality(shifted) \in Nat
    BY <1>2, <1>3, Fun_ExistsBij, FS_Bijection, FS_CardinalityType
<1>5. here = IF q[1] = r THEN shifted \union {1} ELSE shifted
    <2>1. \A i : i \in 1..Len(q) <=> i \in 2..Len(q) \/ i = 1
        BY <1>1
    <2> QED
        BY <1>1, <2>1
<1>6. Cardinality(shifted \union {1}) = Cardinality(shifted) + 1
    <2>1. 1 \notin shifted
        OBVIOUS
    <2> QED
        BY <1>2, <2>1, FS_AddElement
<1>7. Count(q, r) = Cardinality(here) /\ Count(Tail(q), r) = Cardinality(there)
    BY DEF Count
<1> HIDE DEF here, there, shifted
<1> QED
    BY <1>1, <1>4, <1>5, <1>6, <1>7

-----------------------------------------------------------------------------
(* Types. *)

LEMMA QueueEdits ==
    ASSUME NEW S, NEW q \in Seq(S), NEW x \in S
    PROVE  /\ Append(q, x) \in Seq(S)
           /\ q # << >> => Head(q) \in S /\ Tail(q) \in Seq(S)
BY HeadTailProperties, AppendProperties, EmptySeq

LEMMA RegisteredObject ==
    ASSUME TypeInv, NEW s \in Sids, registry[s] # None
    PROVE  registry[s] \in Objects /\ registry[s] <= created
BY Numbers DEF TypeInv, Objects, None

LEMMA TypeInit == Init => TypeInv
<1> SUFFICES ASSUME Init PROVE TypeInv
    OBVIOUS
<1> USE Numbers DEF Init
<1>1. /\ created \in 0..MaxSessions /\ registry \in [Sids -> 0..created] /\ idle \subseteq Objects
      /\ sent \in 0..MaxRequests /\ overlapped \subseteq Objects /\ server \in {"up", "stopping", "down"}
    OBVIOUS
<1>7. \A o \in Objects : loop[o].pc # "chat" /\ loop[o].msg = None
    OBVIOUS
<1>2. loop \in [Objects -> LoopTypes] /\ bg \in [Objects -> BgTypes] /\ closer \in [Objects -> Closers]
    BY DEF LoopTypes, BgTypes, Closers
<1>3. inbound \in Queues /\ outbound \in Queues /\ getters \in Queues /\ woken \in Queues
    BY EmptySeq DEF Queues
<1>4. request \in [Requests -> RequestTypes]
    BY DEF RequestTypes
<1>5. \A r \in Requests : /\ request[r].status = "ok" <=> request[r].got # None
                          /\ ~(r <= sent) /\ request[r].status = "unsent"
    BY DEF Requests
<1>6. cleaner \in CleanerTypes /\ cleaner.pc # "closing"
    BY EmptySeq DEF CleanerTypes
<1> QED
    BY <1>1, <1>2, <1>3, <1>4, <1>5, <1>6, <1>7 DEF TypeInv

\* close() frees the id, lowers the flags and notes who called it.
LEMMA PopTypes ==
    ASSUME TypeInv, NEW s \in Sids, registry[s] # None, NEW who \in Closers, PopAndStop(s, who)
    PROVE  /\ registry' \in [Sids -> 0..created]
           /\ loop' \in [Objects -> LoopTypes] /\ bg' \in [Objects -> BgTypes]
           /\ \A o \in Objects : /\ loop'[o].pc = loop[o].pc /\ loop'[o].msg = loop[o].msg
                                 /\ bg'[o].pc = bg[o].pc
           /\ closer' \in [Objects -> Closers]
<1>1. registry[s] \in Objects
    BY RegisteredObject
<1>2. registry' \in [Sids -> 0..created]
    BY Numbers DEF PopAndStop, TypeInv
<1>3. loop' \in [Objects -> LoopTypes]
    BY <1>1 DEF PopAndStop, TypeInv, LoopTypes
<1>4. bg' \in [Objects -> BgTypes]
    BY <1>1 DEF PopAndStop, TypeInv, BgTypes
<1>5. closer' \in [Objects -> Closers]
    BY <1>1 DEF PopAndStop, TypeInv
<1>6. \A o \in Objects : loop'[o].pc = loop[o].pc /\ loop'[o].msg = loop[o].msg
    BY <1>1 DEF PopAndStop, TypeInv, LoopTypes
<1>7. \A o \in Objects : bg'[o].pc = bg[o].pc
    BY <1>1 DEF PopAndStop, TypeInv, BgTypes
<1> QED
    BY <1>2, <1>3, <1>4, <1>5, <1>6, <1>7

\* The cleanup task begins close() of one registered id, or touches nothing.
Evicts(s) ==
    /\ registry[s] # None
    /\ PopAndStop(s, "cleaner")
    /\ cleaner'.pc = "closing" /\ cleaner'.obj = registry[s]

LEMMA EvictEffect ==
    ASSUME TypeInv, NEW ids \in Seq(Sids), EvictFrom(ids)
    PROVE  /\ cleaner' \in CleanerTypes
           /\ \/ UNCHANGED <<registry, loop, bg, closer>> /\ cleaner'.pc \in {"sleep", "dead"}
              \/ \E s \in Sids : Evicts(s)
<1>1. CASE ids = << >> /\ cleaner' = [pc |-> "sleep", rest |-> << >>, obj |-> None]
           /\ UNCHANGED <<registry, loop, bg, closer>>
    BY <1>1, EmptySeq DEF CleanerTypes
<1>2. CASE cleaner' = [pc |-> "dead", rest |-> << >>, obj |-> None]
           /\ UNCHANGED <<registry, loop, bg, closer>>
    BY <1>2, EmptySeq DEF CleanerTypes
<1>3. CASE /\ ids # << >> /\ registry[Head(ids)] # None
           /\ cleaner' = [pc |-> "closing", rest |-> Tail(ids), obj |-> registry[Head(ids)]]
           /\ PopAndStop(Head(ids), "cleaner")
    <2>1. Head(ids) \in Sids /\ Tail(ids) \in Seq(Sids)
        BY <1>3, HeadTailProperties
    <2>2. registry[Head(ids)] \in Objects
        BY <1>3, <2>1, RegisteredObject
    <2>3. cleaner' \in CleanerTypes
        BY <1>3, <2>1, <2>2 DEF CleanerTypes
    <2> QED
        BY <1>3, <2>1, <2>3 DEF Evicts
<1> QED
    BY <1>1, <1>2, <1>3 DEF EvictFrom

LEMMA CleanerEffect ==
    ASSUME TypeInv, Scan \/ EvictNext
    PROVE  /\ UNCHANGED <<created, idle, busVars, requestVars, server, overlapped>>
           /\ cleaner.pc = "sleep" \/ (cleaner.pc = "closing" /\ TasksDone(cleaner.obj))
           /\ cleaner' \in CleanerTypes
           /\ \/ UNCHANGED <<registry, loop, bg, closer>> /\ cleaner'.pc \in {"sleep", "dead"}
              \/ \E s \in Sids : Evicts(s)
<1>1. CASE Scan
    <2>1. PICK ids \in [1..Cardinality(ExpiredIds) -> ExpiredIds] : EvictFrom(ids)
        BY <1>1 DEF Scan
    <2>2. Cardinality(ExpiredIds) \in Nat /\ ExpiredIds \subseteq Sids
        BY Numbers, FS_Subset, FS_CardinalityType DEF ExpiredIds
    <2>3. ids \in Seq(Sids)
        BY <2>1, <2>2, SeqDef
    <2> QED
        BY <1>1, <2>1, <2>3, EvictEffect DEF Scan
<1>2. CASE EvictNext
    <2>1. cleaner.rest \in Seq(Sids)
        BY DEF TypeInv, CleanerTypes
    <2> QED
        BY <1>2, <2>1, EvictEffect DEF EvictNext
<1> QED
    BY <1>1, <1>2

\* What a request that gives up changes of the requests.
LEMMA TimeoutEffect ==
    ASSUME TypeInv, NEW x \in Requests, RequestTimeout(x)
    PROVE  /\ request[x].status = "waiting" /\ request'[x].status = "timeout"
           /\ request' \in [Requests -> RequestTypes]
           /\ \A q \in Requests : /\ request'[q].obj = request[q].obj
                                  /\ request'[q].got = request[q].got
                                  /\ q # x => request'[q] = request[q]
<1>1. /\ request[x].status = "waiting" /\ request \in [Requests -> RequestTypes]
      /\ request' = [request EXCEPT ![x].status = "timeout"]
    BY DEF RequestTimeout, TypeInv
<1>2. request'[x].status = "timeout" /\ request'[x].obj = request[x].obj /\ request'[x].got = request[x].got
    BY <1>1 DEF RequestTypes
<1>3. \A q \in Requests : q # x => request'[q] = request[q]
    BY <1>1
<1>4. request' \in [Requests -> RequestTypes]
    BY <1>1 DEF RequestTypes
<1> QED
    BY <1>1, <1>2, <1>3, <1>4

LEMMA TypeStep == TypeInv /\ Waiters /\ [Next]_vars => TypeInv'
<1> SUFFICES ASSUME TypeInv, Waiters, [Next]_vars PROVE TypeInv'
    OBVIOUS
<1> USE Numbers
<1>1. ASSUME NEW s \in Sids, Create(s) PROVE TypeInv'
    <2>1. created' \in 0..MaxSessions /\ registry' \in [Sids -> 0..created']
        BY <1>1 DEF Create, TypeInv
    <2> QED
        BY <1>1, <2>1 DEF Create, TypeInv, busVars, requestVars
<1>2. ASSUME NEW s \in Sids, Send(s) PROVE TypeInv'
    <2> DEFINE o == registry[s]
               r == sent + 1
    <2>1. o \in Objects /\ r \in Requests /\ sent' = r /\ r \in 0..MaxRequests
        BY <1>2, RegisteredObject DEF Send, TypeInv, Requests
    <2>2. idle' \subseteq Objects /\ overlapped' \subseteq Objects
        BY <1>2, <2>1 DEF Send, TypeInv
    <2>3. inbound' \in Queues
        <3>1. inbound[o] \in Seq(Requests) /\ inbound' = [inbound EXCEPT ![o] = Append(@, r)]
            BY <1>2, <2>1 DEF Send, TypeInv, Queues
        <3> QED
            BY <2>1, <3>1, QueueEdits DEF TypeInv, Queues
    <2>4. /\ outbound' \in Queues /\ getters' \in Queues
          /\ \E t \in RequestTypes : /\ request' = [request EXCEPT ![r] = t]
                                     /\ t.obj # None /\ t.status # "unsent"
                                     /\ t.status = "ok" <=> t.got # None
        <3>1. outbound[o] \in Seq(Requests) /\ getters[o] \in Seq(Requests)
            BY <2>1 DEF TypeInv, Queues
        <3>2. CASE outbound[o] # << >>
            <4>1. Head(outbound[o]) \in Requests /\ Tail(outbound[o]) \in Seq(Requests)
                BY <3>1, <3>2, QueueEdits, <2>1
            <4>2. request' = [request EXCEPT ![r] =
                                [obj |-> o, got |-> Head(outbound[o]), status |-> "ok"]]
                BY <1>2, <3>2 DEF Send, Answered
            <4>3. outbound' \in Queues /\ getters' \in Queues
                BY <1>2, <2>1, <3>2, <4>1 DEF Send, TypeInv, Queues
            <4>4. [obj |-> o, got |-> Head(outbound[o]), status |-> "ok"] \in RequestTypes
                BY <2>1, <4>1 DEF RequestTypes
            <4> HIDE DEF o
            <4> QED
                BY <2>1, <4>1, <4>2, <4>3, <4>4
        <3>3. CASE outbound[o] = << >>
            <4>1. request' = [request EXCEPT ![r] = [obj |-> o, got |-> None, status |-> "waiting"]]
                BY <1>2, <3>3 DEF Send
            <4>2. Append(getters[o], r) \in Seq(Requests)
                BY <2>1, <3>1, QueueEdits
            <4>3. outbound' \in Queues /\ getters' \in Queues
                BY <1>2, <2>1, <3>3, <4>2 DEF Send, TypeInv, Queues
            <4>4. [obj |-> o, got |-> None, status |-> "waiting"] \in RequestTypes
                BY <2>1 DEF RequestTypes
            <4> HIDE DEF o
            <4> QED
                BY <2>1, <4>1, <4>3, <4>4
        <3> QED
            BY <3>2, <3>3
    <2>5. /\ request' \in [Requests -> RequestTypes]
          /\ \A q \in Requests : request'[q].status = "ok" <=> request'[q].got # None
          /\ \A q \in Requests : IF q <= sent'
                                 THEN request'[q].status # "unsent" /\ request'[q].obj # None
                                 ELSE request'[q].status = "unsent"
        <3>1. PICK t \in RequestTypes : /\ request' = [request EXCEPT ![r] = t]
                                        /\ t.obj # None /\ t.status # "unsent"
                                        /\ t.status = "ok" <=> t.got # None
            BY <2>4
        <3>2. \A q \in Requests : q <= sent' <=> q <= sent \/ q = r
            BY <2>1 DEF TypeInv
        <3>3. request'[r] = t /\ \A q \in Requests : q # r => request'[q] = request[q]
            BY <2>1, <3>1 DEF TypeInv
        <3> HIDE DEF r
        <3> QED
            BY <2>1, <3>1, <3>2, <3>3 DEF TypeInv
    <2> HIDE DEF o, r
    <2> QED
        BY <1>2, <2>1, <2>2, <2>3, <2>4, <2>5 DEF Send, TypeInv
<1>3. ASSUME NEW s \in Sids, Keepalive(s) PROVE TypeInv'
    BY <1>3 DEF Keepalive, TypeInv, busVars, requestVars
<1>4. ASSUME NEW s \in Sids, Delete(s) \/ ShutdownClose(s) PROVE TypeInv'
    <2>1. /\ registry[s] # None /\ \E who \in Closers : PopAndStop(s, who)
          /\ UNCHANGED <<created, idle, busVars, requestVars, cleaner, server, overlapped>>
        BY <1>4 DEF Delete, ShutdownClose, Closers
    <2> QED
        BY <2>1, PopTypes DEF TypeInv, busVars, requestVars
<1>5. ASSUME NEW o \in Objects, LoopStart(o) PROVE TypeInv'
    BY <1>5 DEF LoopStart, TypeInv, busVars, requestVars, LoopTypes
<1>6. ASSUME NEW o \in Objects, LoopTake(o) PROVE TypeInv'
    <2>1. inbound[o] \in Seq(Requests) /\ inbound[o] # << >>
        BY <1>6 DEF LoopTake, TypeInv, Queues
    <2>2. Head(inbound[o]) \in Requests /\ Tail(inbound[o]) \in Seq(Requests)
        BY <2>1, QueueEdits, HeadTailProperties
    <2>3. /\ loop' \in [Objects -> LoopTypes]
          /\ \A p \in Objects : loop'[p].pc = "chat" <=> loop'[p].msg # None
        <3> DEFINE m == Head(inbound[o])
        <3>1. loop' = [loop EXCEPT ![o].pc = "chat", ![o].msg = m] /\ m \in Requests /\ m # None
            BY <1>6, <2>2 DEF LoopTake
        <3> HIDE DEF m
        <3>2. loop \in [Objects -> LoopTypes]
            BY DEF TypeInv
        <3>3. /\ loop' \in [Objects -> LoopTypes]
              /\ loop'[o].pc = "chat" /\ loop'[o].msg = m
              /\ \A p \in Objects : p # o => loop'[p] = loop[p]
            BY <3>1, <3>2 DEF LoopTypes
        <3> QED
            BY <3>1, <3>3 DEF TypeInv
    <2>4. inbound' \in Queues
        BY <1>6, <2>2 DEF LoopTake, TypeInv, Queues
    <2> QED
        BY <1>6, <2>3, <2>4 DEF LoopTake, TypeInv, requestVars
<1>7. ASSUME NEW o \in Objects, LoopAnswer(o) PROVE TypeInv'
    <2>1. /\ outbound[o] \in Seq(Requests) /\ getters[o] \in Seq(Requests)
          /\ woken[o] \in Seq(Requests) /\ loop[o].msg \in Requests
        BY <1>7 DEF LoopAnswer, TypeInv, Queues, LoopTypes
    <2>2. outbound' \in Queues
        BY <1>7, <2>1, QueueEdits DEF LoopAnswer, TypeInv, Queues
    <2>3. getters' \in Queues /\ woken' \in Queues
        <3>1. CASE getters[o] = << >>
            BY <1>7, <3>1 DEF LoopAnswer, Wake, TypeInv
        <3>2. CASE getters[o] # << >>
            <4>1. Head(getters[o]) \in Requests /\ Tail(getters[o]) \in Seq(Requests)
                BY <2>1, <3>2, HeadTailProperties
            <4>2. Append(woken[o], Head(getters[o])) \in Seq(Requests)
                BY <2>1, <4>1, QueueEdits
            <4>3. /\ getters' = [getters EXCEPT ![o] = Tail(getters[o])]
                  /\ woken' = [woken EXCEPT ![o] = Append(woken[o], Head(getters[o]))]
                BY <1>7, <3>2 DEF LoopAnswer, Wake
            <4>4. getters' \in Queues
                BY <4>1, <4>3 DEF TypeInv, Queues
            <4>5. woken' \in Queues
                BY <4>2, <4>3 DEF TypeInv, Queues
            <4> QED
                BY <4>4, <4>5
        <3> QED
            BY <3>1, <3>2
    <2>4. /\ loop' \in [Objects -> LoopTypes]
          /\ \A p \in Objects : loop'[p].pc = "chat" <=> loop'[p].msg # None
        <3> DEFINE t == [pc |-> AfterMessage(o), running |-> loop[o].running, msg |-> None]
        <3>1. loop' = [loop EXCEPT ![o] = t]
            BY <1>7 DEF LoopAnswer, TypeInv, LoopTypes
        <3>2. t \in LoopTypes /\ t.pc # "chat" /\ t.msg = None
            BY DEF TypeInv, LoopTypes, AfterMessage
        <3> QED
            BY <3>1, <3>2 DEF TypeInv
    <2> QED
        BY <1>7, <2>2, <2>3, <2>4 DEF LoopAnswer, TypeInv, requestVars
<1>8. ASSUME NEW o \in Objects, LoopExit(o) PROVE TypeInv'
    <2> DEFINE pc == AfterMessage(o)
    <2>1. pc \in {"wait", "done"} /\ loop' = [loop EXCEPT ![o].pc = pc] /\ loop[o].pc = "wait"
        BY <1>8 DEF LoopExit, AfterMessage
    <2> HIDE DEF pc
    <2>2. /\ loop' \in [Objects -> LoopTypes]
          /\ \A p \in Objects : loop'[p].pc = "chat" <=> loop'[p].msg # None
        BY <2>1 DEF TypeInv, LoopTypes
    <2> QED
        BY <1>8, <2>2 DEF LoopExit, TypeInv, busVars, requestVars
<1>9. ASSUME NEW o \in Objects, BgStart(o) \/ BgExit(o) PROVE TypeInv'
    <2>1. bg' \in [Objects -> BgTypes]
        <3>1. CASE BgStart(o)
            BY <3>1 DEF BgStart, TypeInv, BgTypes
        <3>2. CASE BgExit(o)
            BY <3>2 DEF BgExit, TypeInv, BgTypes
        <3> QED
            BY <1>9, <3>1, <3>2
    <2> QED
        BY <1>9, <2>1 DEF BgStart, BgExit, TypeInv, busVars, requestVars
<1>10. ASSUME NEW o \in Objects, Resume(o) PROVE TypeInv'
    <2> DEFINE r == Head(woken[o])
    <2>1. woken[o] \in Seq(Requests) /\ outbound[o] \in Seq(Requests) /\ getters[o] \in Seq(Requests)
        BY DEF TypeInv, Queues
    <2>2. r \in Requests /\ Tail(woken[o]) \in Seq(Requests)
        BY <1>10, <2>1, HeadTailProperties DEF Resume
    <2>3. woken' \in Queues
        BY <1>10, <2>2 DEF Resume, TypeInv, Queues
    <2>4. CASE outbound[o] # << >>
        <3>1. Head(outbound[o]) \in Requests /\ Tail(outbound[o]) \in Seq(Requests)
            BY <2>1, <2>4, HeadTailProperties
        <3>2. outbound' \in Queues /\ getters' = getters
            <4>1. outbound' = [outbound EXCEPT ![o] = Tail(outbound[o])] /\ getters' = getters
                BY <1>10, <2>4 DEF Resume
            <4> QED
                BY <3>1, <4>1 DEF TypeInv, Queues
        <3>3. request' = [request EXCEPT ![r] = [obj |-> o, got |-> Head(outbound[o]), status |-> "ok"]]
            BY <1>10, <2>4 DEF Resume, Answered
        <3>4. /\ request' \in [Requests -> RequestTypes]
              /\ request'[r].obj # None /\ request'[r].status = "ok" /\ request'[r].got # None
              /\ \A q \in Requests : q # r => request'[q] = request[q]
            BY <2>2, <3>1, <3>3 DEF TypeInv, RequestTypes
        <3>5. r <= sent
            <4>1. Contains(woken[o], r)
                BY <1>10, <2>1, ContainsHeadTail DEF Resume
            <4>2. request[r].status = "waiting"
                BY <2>2, <4>1 DEF Waiters
            <4> QED
                BY <2>2, <4>2 DEF TypeInv
        <3> HIDE DEF r
        <3> QED
            BY <1>10, <2>2, <2>3, <3>2, <3>4, <3>5 DEF Resume, TypeInv
    <2>5. CASE outbound[o] = << >>
        <3>1. getters' \in Queues
            <4>1. Append(getters[o], r) \in Seq(Requests)
                BY <2>1, <2>2, QueueEdits
            <4> QED
                BY <1>10, <2>5, <4>1 DEF Resume, TypeInv, Queues
        <3> QED
            BY <1>10, <2>3, <2>5, <3>1 DEF Resume, TypeInv
    <2> QED
        BY <2>4, <2>5
<1>11. ASSUME NEW o \in Objects, BecomeIdle(o) PROVE TypeInv'
    BY <1>11 DEF BecomeIdle, TypeInv, busVars, requestVars
<1>12. ASSUME NEW r \in Requests, RequestTimeout(r) PROVE TypeInv'
    <2> DEFINE o == request[r].obj
               next == Without(getters[o], r)
               passOn == Contains(woken[o], r) /\ outbound[o] # << >> /\ next # << >>
    <2>1. o \in Objects
        BY <1>12 DEF RequestTimeout, TypeInv, RequestTypes
    <2>2. getters[o] \in Seq(Requests) /\ woken[o] \in Seq(Requests)
        BY <2>1 DEF TypeInv, Queues
    <2>3. next \in Seq(Requests) /\ Without(woken[o], r) \in Seq(Requests)
        BY <2>2, WithoutTyped
    <2>4. /\ getters' = [getters EXCEPT ![o] = IF passOn THEN Tail(next) ELSE next]
          /\ woken' = [woken EXCEPT ![o] = Without(woken[o], r) \o
                                              (IF passOn THEN <<Head(next)>> ELSE << >>)]
        BY <1>12, <2>1 DEF RequestTimeout, TypeInv, Queues
    <2>5. (IF passOn THEN Tail(next) ELSE next) \in Seq(Requests)
        BY <2>3, QueueEdits, HeadTailProperties
    <2>6. Without(woken[o], r) \o (IF passOn THEN <<Head(next)>> ELSE << >>) \in Seq(Requests)
        <3>1. CASE passOn
            <4>1. Head(next) \in Requests
                BY <2>3, <3>1, HeadTailProperties
            <4>2. <<Head(next)>> \in Seq(Requests)
                BY <4>1
            <4> QED
                BY <2>3, <3>1, <4>2, ConcatProperties
        <3>2. CASE ~passOn
            BY <2>3, <3>2, EmptySeq, ConcatProperties
        <3> QED
            BY <3>1, <3>2
    <2>7. getters' \in Queues /\ woken' \in Queues
        <3> HIDE DEF next, passOn, o
        <3> QED
            BY <2>1, <2>4, <2>5, <2>6 DEF TypeInv, Queues
    <2>8. /\ request' \in [Requests -> RequestTypes]
          /\ \A q \in Requests : /\ request'[q].obj = request[q].obj
                                 /\ request'[q].got = request[q].got
          /\ request'[r].status = "timeout" /\ request[r].status = "waiting"
          /\ \A q \in Requests : q # r => request'[q].status = request[q].status
        BY <1>12, TimeoutEffect
    <2> HIDE DEF o, next, passOn
    <2> QED
        BY <1>12, <2>7, <2>8 DEF RequestTimeout, TypeInv
<1>13. CASE Scan \/ EvictNext
    <2>1. /\ registry' \in [Sids -> 0..created] /\ loop' \in [Objects -> LoopTypes]
          /\ bg' \in [Objects -> BgTypes] /\ closer' \in [Objects -> Closers]
          /\ \A o \in Objects : loop'[o].pc = loop[o].pc /\ loop'[o].msg = loop[o].msg
        BY <1>13, CleanerEffect, PopTypes DEF Evicts, TypeInv, Closers
    <2>2. cleaner' \in CleanerTypes /\ (cleaner'.pc = "closing" => cleaner'.obj # None)
        BY <1>13, CleanerEffect DEF Evicts
    <2>3. UNCHANGED <<created, idle, busVars, requestVars, server, overlapped>>
        BY <1>13, CleanerEffect
    <2> QED
        BY <2>1, <2>2, <2>3 DEF TypeInv, busVars, requestVars
<1>14. CASE ShutdownBegin
    <2>1. cleaner' \in CleanerTypes /\ cleaner'.pc # "closing"
        BY <1>14, EmptySeq DEF ShutdownBegin, CleanerTypes
    <2>2. CASE cleaner.pc = "closing"
        <3> DEFINE t == [pc |-> "done", running |-> FALSE, msg |-> None]
        <3>1. cleaner.obj \in Objects
            BY <2>2 DEF TypeInv, CleanerTypes
        <3>2. t \in LoopTypes /\ t.pc # "chat" /\ t.msg = None /\ loop' = [loop EXCEPT ![cleaner.obj] = t]
            BY <1>14, <2>2 DEF ShutdownBegin, LoopTypes
        <3> HIDE DEF t
        <3>3. /\ loop' \in [Objects -> LoopTypes]
              /\ \A p \in Objects : loop'[p].pc = "chat" <=> loop'[p].msg # None
            BY <3>1, <3>2 DEF TypeInv
        <3>4. bg' \in [Objects -> BgTypes]
            <4> DEFINE o == cleaner.obj
            <4>1. o \in Objects /\ bg' = [bg EXCEPT ![o].pc = "done"]
                BY <1>14, <2>2, <3>1 DEF ShutdownBegin
            <4> HIDE DEF o
            <4> QED
                BY <4>1 DEF TypeInv, BgTypes
        <3> QED
            BY <1>14, <2>1, <3>3, <3>4 DEF ShutdownBegin, TypeInv, busVars, requestVars
    <2>3. CASE cleaner.pc # "closing"
        BY <1>14, <2>1, <2>3 DEF ShutdownBegin, TypeInv, busVars, requestVars
    <2> QED
        BY <2>2, <2>3
<1>15. CASE ShutdownEnd
    BY <1>15 DEF ShutdownEnd, TypeInv, busVars, requestVars
<1>16. CASE UNCHANGED vars
    BY <1>16 DEF vars, TypeInv
<1> QED
    BY <1>1, <1>2, <1>3, <1>4, <1>5, <1>6, <1>7, <1>8, <1>9, <1>10, <1>11, <1>12, <1>13, <1>14,
       <1>15, <1>16 DEF Next, Task

-----------------------------------------------------------------------------
(* Who has an object, and what the closing of it leaves. *)

\* What a step may do to the registry and to those who close objects.
LEMMA RegistrySteps ==
    ASSUME TypeInv, Next
    PROVE  \/ \E s \in Sids : Create(s)
           \/ /\ \E s \in Sids, who \in Closers \ {"nobody"} :
                    registry[s] # None /\ PopAndStop(s, who)
              /\ created' = created
           \/ UNCHANGED <<registry, created, closer>>
<1>1. ASSUME NEW s \in Sids, Send(s) \/ Keepalive(s) PROVE UNCHANGED <<registry, created, closer>>
    BY <1>1 DEF Send, Keepalive
<1>2. ASSUME NEW s \in Sids, Delete(s) \/ ShutdownClose(s)
      PROVE  (\E who \in Closers \ {"nobody"} : registry[s] # None /\ PopAndStop(s, who)) /\ created' = created
    BY <1>2 DEF Delete, ShutdownClose, Closers
<1>3. ASSUME NEW o \in Objects, Task(o) \/ Resume(o) \/ BecomeIdle(o)
      PROVE  UNCHANGED <<registry, created, closer>>
    BY <1>3 DEF Task, LoopStart, LoopTake, LoopAnswer, LoopExit, BgStart, BgExit, Resume, BecomeIdle
<1>4. ASSUME NEW r \in Requests, RequestTimeout(r) PROVE UNCHANGED <<registry, created, closer>>
    BY <1>4 DEF RequestTimeout
<1>5. CASE Scan \/ EvictNext
    BY <1>5, CleanerEffect DEF Evicts, Closers
<1>6. CASE ShutdownBegin \/ ShutdownEnd
    BY <1>6 DEF ShutdownBegin, ShutdownEnd
<1> QED
    BY <1>1, <1>2, <1>3, <1>4, <1>5, <1>6 DEF Next

LEMMA OwnedInit == Init => Owned
BY Numbers DEF Init, Owned, OwnedOnce, Registered

LEMMA OwnedStep == TypeInv /\ Owned /\ [Next]_vars => Owned'
<1> SUFFICES ASSUME TypeInv, Owned, [Next]_vars PROVE Owned'
    OBVIOUS
<1>1. CASE UNCHANGED <<registry, created, closer>>
    BY <1>1 DEF Owned, OwnedOnce, Registered
<1>2. ASSUME NEW s \in Sids, Create(s) PROVE Owned'
    <2> DEFINE n == created + 1
    <2>1. /\ n \in Objects /\ registry[s] = None /\ created' = n /\ closer' = closer
          /\ registry'[s] = n /\ \A t \in Sids : t # s => registry'[t] = registry[t]
          /\ \A o : o \in 1..n <=> o \in 1..created \/ o = n
          /\ \A o \in Objects : o > n => o > created
          /\ n > created /\ n # None
        BY <1>2, Numbers DEF Create, TypeInv, Objects
    <2>2. \A t \in Sids : registry[t] # n
        BY <2>1 DEF TypeInv
    <2>3. closer[n] = "nobody" /\ \A t \in Sids : registry[t] # None => registry[t] \in 1..created
        BY <2>1, RegisteredObject DEF Owned, Objects
    <2> HIDE DEF n
    <2>4. ASSUME NEW o \in 1..created, o # n
          PROVE  (\E t \in Sids : registry'[t] = o) <=> (\E t \in Sids : registry[t] = o)
        <3>1. o # None
            BY Numbers DEF TypeInv
        <3> QED
            BY <2>1, <2>4, <3>1
    <2>5. \A o \in 1..n : Registered(o)' <=> closer'[o] = "nobody"
        BY <2>1, <2>3, <2>4 DEF Owned, OwnedOnce, Registered
    <2>6. \A t, u \in Sids : registry'[t] = registry'[u] /\ registry'[t] # None => t = u
        BY <2>1, <2>2 DEF Owned
    <2>7. \A o \in 1..n : o # None
        BY <2>1, Numbers DEF Objects
    <2> QED
        BY <2>1, <2>5, <2>6, <2>7 DEF Owned, OwnedOnce
<1>3. ASSUME NEW s \in Sids, NEW who \in Closers \ {"nobody"}, registry[s] # None,
             PopAndStop(s, who), created' = created
      PROVE  Owned'
    <2> DEFINE x == registry[s]
    <2>1. /\ x \in Objects /\ x <= created /\ x # None /\ x \in 1..created
          /\ registry'[s] = None /\ \A t \in Sids : t # s => registry'[t] = registry[t]
          /\ closer'[x] = who /\ \A o \in Objects : o # x => closer'[o] = closer[o]
        BY <1>3, RegisteredObject DEF PopAndStop, TypeInv, Objects
    <2>2. \A t \in Sids : t # s => registry[t] # x
        BY <2>1 DEF Owned
    <2> HIDE DEF x
    <2>3. ASSUME NEW o \in 1..created PROVE Registered(o)' <=> closer'[o] = "nobody"
        <3>1. o \in Objects /\ o # None
            BY Numbers DEF TypeInv, Objects
        <3>2. CASE o = x
            BY <2>1, <2>2, <3>1, <3>2 DEF Registered
        <3>3. CASE o # x
            <4>1. registry[s] # o
                BY <3>3 DEF x
            <4> QED
                BY <2>1, <3>1, <3>3, <4>1 DEF Registered, Owned, OwnedOnce
        <3> QED
            BY <3>2, <3>3
    <2>4. \A t, u \in Sids : registry'[t] = registry'[u] /\ registry'[t] # None => t = u
        BY <2>1 DEF Owned
    <2>5. \A o \in Objects : o > created => o # x
        BY <2>1, Numbers DEF TypeInv
    <2>6. \A o \in 1..created : o # None
        BY Numbers DEF TypeInv
    <2> QED
        BY <1>3, <2>1, <2>3, <2>4, <2>5, <2>6 DEF Owned, OwnedOnce
<1> QED
    BY <1>1, <1>2, <1>3, RegistrySteps DEF vars

LEMMA ClosingInit == Init => Closing
BY DEF Init, Closing, ShutdownIdle

\* A task that has ended stays so.
LEMMA TasksStayDone ==
    ASSUME TypeInv, [Next]_vars, NEW o \in Objects, TasksDone(o)
    PROVE  TasksDone(o)'
<1> USE DEF TasksDone
<1>1. ASSUME NEW s \in Sids, Create(s) \/ Send(s) \/ Keepalive(s) PROVE TasksDone(o)'
    BY <1>1 DEF Create, Send, Keepalive
<1>2. ASSUME NEW s \in Sids, Delete(s) \/ ShutdownClose(s) PROVE TasksDone(o)'
    BY <1>2, PopTypes DEF Delete, ShutdownClose, Closers
<1>3. ASSUME NEW p \in Objects, LoopStart(p) \/ LoopTake(p) \/ LoopAnswer(p) \/ LoopExit(p)
      PROVE  TasksDone(o)'
    <2>1. p # o
        BY <1>3 DEF LoopStart, LoopTake, LoopAnswer, LoopExit
    <2>2. loop'[o] = loop[o] /\ bg' = bg
        BY <1>3, <2>1 DEF LoopStart, LoopTake, LoopAnswer, LoopExit, TypeInv
    <2> QED
        BY <2>2
<1>4. ASSUME NEW p \in Objects, BgStart(p) \/ BgExit(p) PROVE TasksDone(o)'
    <2>1. p # o
        BY <1>4 DEF BgStart, BgExit
    <2>2. bg'[o] = bg[o] /\ loop' = loop
        BY <1>4, <2>1 DEF BgStart, BgExit, TypeInv
    <2> QED
        BY <2>2
<1>5. ASSUME NEW p \in Objects, Resume(p) \/ BecomeIdle(p) PROVE TasksDone(o)'
    BY <1>5 DEF Resume, BecomeIdle
<1>6. ASSUME NEW r \in Requests, RequestTimeout(r) PROVE TasksDone(o)'
    BY <1>6 DEF RequestTimeout
<1>7. CASE Scan \/ EvictNext
    BY <1>7, CleanerEffect, PopTypes DEF Evicts, Closers
<1>8. CASE ShutdownBegin
    <2>1. CASE cleaner.pc = "closing"
        <3> DEFINE p == cleaner.obj
        <3>1. /\ loop' = [loop EXCEPT ![p] = [pc |-> "done", running |-> FALSE, msg |-> None]]
              /\ bg' = [bg EXCEPT ![p].pc = "done"]
            BY <1>8, <2>1 DEF ShutdownBegin
        <3> HIDE DEF p
        <3> QED
            BY <3>1 DEF TypeInv, BgTypes
    <2>2. CASE cleaner.pc # "closing"
        BY <1>8, <2>2 DEF ShutdownBegin
    <2> QED
        BY <2>1, <2>2
<1>9. CASE ShutdownEnd \/ UNCHANGED vars
    BY <1>9 DEF ShutdownEnd, vars
<1> QED
    BY <1>1, <1>2, <1>3, <1>4, <1>5, <1>6, <1>7, <1>8, <1>9 DEF Next, Task

LEMMA ClosingStep == TypeInv /\ Owned /\ Closing /\ [Next]_vars => Closing'
<1> SUFFICES ASSUME TypeInv, Owned, Closing, [Next]_vars PROVE Closing'
    OBVIOUS
<1>1. \A o \in Objects : TasksDone(o) => TasksDone(o)'
    BY TasksStayDone
<1>2. cleaner.pc = "closing" => cleaner.obj \in Objects
    BY DEF TypeInv, CleanerTypes
\* An object that is in the registry has not been taken by a caller of close().
<1>3. \A s \in Sids : registry[s] # None => registry[s] \in Objects /\ closer[registry[s]] = "nobody"
    <2> SUFFICES ASSUME NEW s \in Sids, registry[s] # None
                 PROVE  registry[s] \in Objects /\ closer[registry[s]] = "nobody"
        OBVIOUS
    <2>1. registry[s] \in Objects /\ registry[s] \in 1..created
        BY RegisteredObject, Numbers DEF TypeInv, Objects
    <2> QED
        BY <2>1 DEF Owned, OwnedOnce, Registered
<1>4. CASE UNCHANGED <<registry, closer, cleaner, server>>
    BY <1>1, <1>2, <1>4 DEF Closing, ShutdownIdle
<1>5. ASSUME NEW s \in Sids, Create(s) PROVE Closing'
    <2>1. server = "up" /\ UNCHANGED <<closer, cleaner, server>>
        BY <1>5 DEF Create
    <2> QED
        BY <1>1, <2>1 DEF Closing
<1>6. ASSUME NEW s \in Sids, NEW who \in {"delete", "shutdown"},
             registry[s] # None, PopAndStop(s, who), UNCHANGED <<cleaner, server>>,
             IF who = "delete" THEN server = "up" ELSE server = "stopping"
      PROVE  Closing'
    <2> DEFINE x == registry[s]
    <2>1. /\ x \in Objects /\ closer[x] = "nobody"
          /\ closer'[x] = who /\ \A o \in Objects : o # x => closer'[o] = closer[o]
        BY <1>3, <1>6 DEF PopAndStop, TypeInv
    <2> HIDE DEF x
    <2>2. server # "down"
        BY <1>6
    <2>3. /\ cleaner.pc = "closing" => closer'[cleaner.obj] = "cleaner"
          /\ server # "up" => cleaner.pc = "cancelled"
        BY <1>2, <2>1 DEF Closing
    <2>4. server = "up" => \A o \in Objects : closer'[o] # "shutdown"
        BY <1>6, <2>1 DEF Closing
    <2>5. ASSUME NEW o \in Objects
          PROVE  /\ closer'[o] = "cleaner" =>
                       TasksDone(o)' \/ (cleaner.pc = "closing" /\ cleaner.obj = o)
                 /\ closer'[o] = "delete" /\ server # "up" => TasksDone(o)'
        <3>1. CASE o = x
            BY <1>6, <2>1, <3>1
        <3>2. CASE o # x
            BY <1>1, <2>1, <3>2 DEF Closing
        <3> QED
            BY <3>1, <3>2
    <2> QED
        BY <1>6, <2>2, <2>3, <2>4, <2>5 DEF Closing
<1>7. CASE Scan \/ EvictNext
    <2>1. /\ server' = server /\ server = "up"
          /\ cleaner.pc = "sleep" \/ (cleaner.pc = "closing" /\ TasksDone(cleaner.obj))
        BY <1>7, CleanerEffect DEF Closing
    <2>2. \A o \in Objects : closer[o] = "cleaner" => TasksDone(o)'
        BY <1>1, <2>1 DEF Closing
    <2>3. CASE UNCHANGED <<registry, loop, bg, closer>> /\ cleaner'.pc \in {"sleep", "dead"}
        BY <2>1, <2>2, <2>3 DEF Closing
    <2>4. ASSUME NEW s \in Sids, Evicts(s) PROVE Closing'
        <3> DEFINE x == registry[s]
        <3>1. /\ x \in Objects /\ cleaner'.pc = "closing" /\ cleaner'.obj = x
              /\ closer'[x] = "cleaner" /\ \A o \in Objects : o # x => closer'[o] = closer[o]
            BY <1>3, <2>4 DEF Evicts, PopAndStop, TypeInv
        <3> HIDE DEF x
        <3> QED
            BY <2>1, <2>2, <3>1 DEF Closing
    <2> QED
        BY <1>7, <2>3, <2>4, CleanerEffect
<1>8. CASE ShutdownBegin
    <2>1. /\ server = "up" /\ server' = "stopping" /\ cleaner'.pc = "cancelled"
          /\ UNCHANGED <<registry, created, closer>>
        BY <1>8 DEF ShutdownBegin, Quiet
    <2>2. ASSUME NEW o \in Objects, closer[o] = "cleaner" PROVE TasksDone(o)'
        <3>1. CASE TasksDone(o)
            BY <1>1, <3>1
        <3>2. CASE cleaner.pc = "closing" /\ cleaner.obj = o
            <4>1. /\ loop' = [loop EXCEPT ![o] = [pc |-> "done", running |-> FALSE, msg |-> None]]
                  /\ bg' = [bg EXCEPT ![o].pc = "done"]
                BY <1>8, <3>2 DEF ShutdownBegin
            <4> QED
                BY <4>1 DEF TasksDone, TypeInv, BgTypes
        <3> QED
            BY <2>2, <3>1, <3>2 DEF Closing
    <2>3. ASSUME NEW o \in Objects, closer[o] = "delete" PROVE TasksDone(o)'
        <3>1. o \in 1..created
            BY <2>3, Numbers DEF Owned, Objects, TypeInv
        <3> QED
            BY <1>1, <1>8, <2>3, <3>1 DEF ShutdownBegin, Quiet
    <2> QED
        BY <2>1, <2>2, <2>3 DEF Closing
<1>9. CASE ShutdownEnd
    BY <1>1, <1>9 DEF ShutdownEnd, Closing, ShutdownIdle, TasksDone
<1>10. CASE UNCHANGED vars
    BY <1>4, <1>10 DEF vars
<1>11. ASSUME NEW s \in Sids, Send(s) \/ Keepalive(s) PROVE Closing'
    BY <1>4, <1>11 DEF Send, Keepalive
<1>12. ASSUME NEW s \in Sids, Delete(s) \/ ShutdownClose(s) PROVE Closing'
    BY <1>6, <1>12 DEF Delete, ShutdownClose
<1>13. ASSUME NEW o \in Objects, Task(o) \/ Resume(o) \/ BecomeIdle(o) PROVE Closing'
    BY <1>4, <1>13 DEF Task, LoopStart, LoopTake, LoopAnswer, LoopExit, BgStart, BgExit, Resume, BecomeIdle
<1>14. ASSUME NEW r \in Requests, RequestTimeout(r) PROVE Closing'
    BY <1>4, <1>14 DEF RequestTimeout
<1> QED
    BY <1>5, <1>7, <1>8, <1>9, <1>10, <1>11, <1>12, <1>13, <1>14 DEF Next

-----------------------------------------------------------------------------
(* The requests that wait. *)

\* Which steps touch the queues and the requests, and how far the others go.
LEMMA BusSteps ==
    ASSUME TypeInv, [Next]_vars
    PROVE  \/ \E s \in Sids : Send(s)
           \/ \E o \in Objects : LoopTake(o) \/ LoopAnswer(o) \/ Resume(o)
           \/ \E r \in Requests : RequestTimeout(r)
           \/ ShutdownBegin
           \/ /\ UNCHANGED <<inbound, outbound, getters, woken, sent, request, overlapped>>
              /\ \A o \in Objects : loop'[o].msg = loop[o].msg
<1> USE DEF busVars, requestVars
<1>1. ASSUME NEW s \in Sids, Create(s) \/ Keepalive(s)
      PROVE  /\ UNCHANGED <<inbound, outbound, getters, woken, sent, request, overlapped>>
             /\ \A o \in Objects : loop'[o].msg = loop[o].msg
    BY <1>1 DEF Create, Keepalive
<1>2. ASSUME NEW s \in Sids, Delete(s) \/ ShutdownClose(s)
      PROVE  /\ UNCHANGED <<inbound, outbound, getters, woken, sent, request, overlapped>>
             /\ \A o \in Objects : loop'[o].msg = loop[o].msg
    BY <1>2, PopTypes DEF Delete, ShutdownClose, Closers
<1>3. ASSUME NEW p \in Objects, LoopStart(p)
      PROVE  /\ UNCHANGED <<inbound, outbound, getters, woken, sent, request, overlapped>>
             /\ \A o \in Objects : loop'[o].msg = loop[o].msg
    BY <1>3 DEF LoopStart, TypeInv, LoopTypes
<1>4. ASSUME NEW p \in Objects, LoopExit(p)
      PROVE  /\ UNCHANGED <<inbound, outbound, getters, woken, sent, request, overlapped>>
             /\ \A o \in Objects : loop'[o].msg = loop[o].msg
    BY <1>4 DEF LoopExit, TypeInv, LoopTypes
<1>5. ASSUME NEW p \in Objects, BgStart(p) \/ BgExit(p) \/ BecomeIdle(p)
      PROVE  /\ UNCHANGED <<inbound, outbound, getters, woken, sent, request, overlapped>>
             /\ \A o \in Objects : loop'[o].msg = loop[o].msg
    BY <1>5 DEF BgStart, BgExit, BecomeIdle
<1>6. CASE Scan \/ EvictNext
    <2>1. UNCHANGED <<inbound, outbound, getters, woken, sent, request, overlapped>>
        BY <1>6, CleanerEffect
    <2>2. \A o \in Objects : loop'[o].msg = loop[o].msg
        BY <1>6, CleanerEffect, PopTypes DEF Evicts, Closers
    <2> QED
        BY <2>1, <2>2
<1>7. CASE ShutdownEnd \/ UNCHANGED vars
    BY <1>7 DEF ShutdownEnd, vars
<1> QED
    BY <1>1, <1>2, <1>3, <1>4, <1>5, <1>6, <1>7 DEF Next, Task

LEMMA WaitersInit == Init => Waiters
<1> SUFFICES ASSUME Init, NEW o \in Objects PROVE getters[o] = << >> /\ woken[o] = << >>
    BY ContainsNothing, EmptySeq DEF Waiters, OneEach
<1> QED
    BY DEF Init

\* A queue that had nothing but waiting requests of o has no other member.
LEMMA WaitersOf ==
    ASSUME TypeInv, Waiters, NEW o \in Objects, NEW r \in Requests,
           Contains(getters[o], r) \/ Contains(woken[o], r)
    PROVE  request[r].status = "waiting" /\ request[r].obj = o /\ r <= sent
BY DEF Waiters, TypeInv

LEMMA WaitersStep == TypeInv /\ Waiters /\ [Next]_vars => Waiters'
<1> SUFFICES ASSUME TypeInv, Waiters, [Next]_vars PROVE Waiters'
    OBVIOUS
<1> USE Numbers
<1>q. ASSUME NEW o \in Objects
      PROVE  /\ getters[o] \in Seq(Requests) /\ woken[o] \in Seq(Requests)
             /\ outbound[o] \in Seq(Requests) /\ OneEach(getters[o], woken[o])
    BY DEF TypeInv, Queues, Waiters
<1>1. CASE UNCHANGED <<getters, woken, request>>
    BY <1>1 DEF Waiters
<1>2. ASSUME NEW s \in Sids, Send(s) PROVE Waiters'
    <2> DEFINE o == registry[s]
               r == sent + 1
    <2>1. o \in Objects /\ r \in Requests /\ ~(r <= sent) /\ woken' = woken
        BY <1>2, RegisteredObject DEF Send, TypeInv, Requests
    <2>2. /\ request'[r].obj = o
          /\ \A q \in Requests : q # r => request'[q] = request[q]
        BY <1>2, <2>1 DEF Send, Answered, TypeInv
    <2>3. \A p \in Objects : ~Contains(getters[p], r) /\ ~Contains(woken[p], r)
        BY <2>1, WaitersOf
    <2>4. CASE outbound[o] # << >>
        <3>1. getters' = getters
            BY <1>2, <2>4 DEF Send
        <3> HIDE DEF o, r
        <3>2. ASSUME NEW p \in Objects, NEW q \in Requests,
                     Contains(getters[p], q) \/ Contains(woken[p], q)
              PROVE  request'[q].status = "waiting" /\ request'[q].obj = p
            BY <2>2, <2>3, <3>2, WaitersOf
        <3> QED
            BY <1>q, <2>1, <3>1, <3>2 DEF Waiters
    <2>5. CASE outbound[o] = << >>
        <3>1. getters' = [getters EXCEPT ![o] = Append(getters[o], r)] /\ request'[r].status = "waiting"
            BY <1>2, <2>1, <2>5 DEF Send, TypeInv
        <3>2. /\ getters'[o] = Append(getters[o], r)
              /\ \A p \in Objects : p # o => getters'[p] = getters[p]
            BY <2>1, <3>1 DEF TypeInv, Queues
        <3> HIDE DEF o, r
        <3>3. OneEach(getters'[o], woken[o])
            BY <1>q, <2>1, <2>3, <3>2, OneEachAppend
        <3>4. \A q \in Requests : Contains(getters'[o], q) <=> Contains(getters[o], q) \/ q = r
            BY <1>q, <2>1, <3>2, ContainsAppend
        <3>5. \A p \in Objects : OneEach(getters'[p], woken'[p])
            BY <1>q, <2>1, <3>2, <3>3
        <3>6. ASSUME NEW p \in Objects, NEW q \in Requests,
                     Contains(getters'[p], q) \/ Contains(woken'[p], q)
              PROVE  request'[q].status = "waiting" /\ request'[q].obj = p
            <4>1. CASE q = r
                <5>1. p = o
                    BY <2>1, <2>3, <3>2, <3>6, <4>1
                <5> QED
                    BY <2>2, <3>1, <4>1, <5>1
            <4>2. CASE q # r
                <5>1. Contains(getters[p], q) \/ Contains(woken[p], q)
                    BY <2>1, <3>2, <3>4, <3>6, <4>2
                <5> QED
                    BY <2>2, <4>2, <5>1, WaitersOf
            <4> QED
                BY <4>1, <4>2
        <3> QED
            BY <3>5, <3>6 DEF Waiters
    <2> QED
        BY <2>4, <2>5
<1>3. ASSUME NEW o \in Objects, LoopTake(o) PROVE Waiters'
    BY <1>1, <1>3 DEF LoopTake, requestVars
<1>4. ASSUME NEW o \in Objects, LoopAnswer(o) PROVE Waiters'
    <2>1. request' = request /\ Wake(o)
        BY <1>4 DEF LoopAnswer, requestVars
    <2>2. CASE getters[o] = << >>
        BY <1>1, <2>1, <2>2 DEF Wake
    <2>3. CASE getters[o] # << >>
        <3> DEFINE h == Head(getters[o])
        <3>1. /\ getters'[o] = Tail(getters[o]) /\ woken'[o] = Append(woken[o], h)
              /\ \A p \in Objects : p # o => getters'[p] = getters[p] /\ woken'[p] = woken[p]
            BY <2>1, <2>3 DEF Wake, TypeInv, Queues
        <3>2. OneEach(getters'[o], woken'[o])
            BY <1>q, <2>3, <3>1, OneEachWake
        <3>3. h \in Requests /\ Contains(getters[o], h)
              /\ \A q : Contains(getters'[o], q) => Contains(getters[o], q)
            BY <1>q, <2>3, <3>1, ContainsHeadTail, HeadTailProperties
        <3> HIDE DEF h
        <3>4. \A q \in Requests : Contains(woken'[o], q) <=> Contains(woken[o], q) \/ q = h
            <4>1. woken[o] \in Seq(Requests)
                BY <1>q
            <4>2. \A q : Contains(Append(woken[o], h), q) <=> Contains(woken[o], q) \/ q = h
                BY <3>3, <4>1, ContainsAppend
            <4> QED
                BY <3>1, <4>2
        <3> QED
            BY <2>1, <3>1, <3>2, <3>3, <3>4 DEF Waiters
    <2> QED
        BY <2>2, <2>3
<1>5. ASSUME NEW o \in Objects, Resume(o) PROVE Waiters'
    <2> DEFINE r == Head(woken[o])
    <2>1. /\ r \in Requests /\ Contains(woken[o], r) /\ woken[o] # << >>
          /\ Tail(woken[o]) \in Seq(Requests)
          /\ \A q : Contains(Tail(woken[o]), q) => Contains(woken[o], q)
        BY <1>5, <1>q, ContainsHeadTail, HeadTailProperties DEF Resume
    <2>2. request[r].status = "waiting" /\ request[r].obj = o
        BY <2>1, WaitersOf
    <2>3. /\ woken'[o] = Tail(woken[o])
          /\ \A p \in Objects : p # o => woken'[p] = woken[p]
        BY <1>5 DEF Resume, TypeInv, Queues
    <2>4. /\ OneEach(getters[o], Tail(woken[o]))
          /\ ~Contains(Tail(woken[o]), r) /\ ~Contains(getters[o], r)
        <3>1. OneEach(woken[o], getters[o])
            BY <1>q, OneEachSwap
        <3> QED
            BY <1>q, <2>1, <3>1, OneEachTail, OneEachSwap
    <2>5. CASE outbound[o] # << >>
        <3>1. getters' = getters /\ \A q \in Requests : q # r => request'[q] = request[q]
            BY <1>5, <2>1, <2>5 DEF Resume, Answered, TypeInv
        <3> HIDE DEF r
        <3>2. ASSUME NEW p \in Objects PROVE ~Contains(getters'[p], r) /\ ~Contains(woken'[p], r)
            <4>1. CASE p = o
                BY <2>3, <2>4, <3>1, <4>1
            <4>2. CASE p # o
                BY <2>1, <2>2, <2>3, <3>1, <4>2, WaitersOf
            <4> QED
                BY <4>1, <4>2
        <3> QED
            BY <2>1, <2>3, <2>4, <3>1, <3>2 DEF Waiters
    <2>6. CASE outbound[o] = << >>
        <3>1. /\ request' = request /\ getters'[o] = Append(getters[o], r)
              /\ \A p \in Objects : p # o => getters'[p] = getters[p]
            BY <1>5, <2>6 DEF Resume, TypeInv, Queues
        <3> HIDE DEF r
        <3>2. OneEach(getters'[o], woken'[o])
            BY <1>q, <2>1, <2>3, <2>4, <3>1, OneEachAppend
        <3>3. \A q \in Requests : Contains(getters'[o], q) <=> Contains(getters[o], q) \/ q = r
            <4>1. getters[o] \in Seq(Requests)
                BY <1>q
            <4>2. \A q : Contains(Append(getters[o], r), q) <=> Contains(getters[o], q) \/ q = r
                BY <2>1, <4>1, ContainsAppend
            <4> QED
                BY <3>1, <4>2
        <3>4. \A p \in Objects : OneEach(getters'[p], woken'[p])
            BY <1>q, <2>3, <3>1, <3>2
        <3>5. ASSUME NEW p \in Objects, NEW q \in Requests,
                     Contains(getters'[p], q) \/ Contains(woken'[p], q)
              PROVE  Contains(getters[p], q) \/ Contains(woken[p], q)
            BY <2>1, <2>3, <3>1, <3>3, <3>5
        <3> QED
            BY <3>1, <3>4, <3>5, WaitersOf DEF Waiters
    <2> QED
        BY <2>5, <2>6
<1>6. ASSUME NEW r \in Requests, RequestTimeout(r) PROVE Waiters'
    <2> DEFINE o == request[r].obj
               g == Without(getters[o], r)
               w == Without(woken[o], r)
               passOn == Contains(woken[o], r) /\ outbound[o] # << >> /\ g # << >>
    <2>1. o \in Objects /\ request[r].status = "waiting"
        BY <1>6 DEF RequestTimeout, TypeInv, RequestTypes
    <2>2. /\ g \in Seq(Requests) /\ w \in Seq(Requests) /\ OneEach(g, w)
        BY <1>q, <2>1, WithoutTyped, OneEachWithout
    <2>3. /\ \A q \in Requests : Contains(g, q) => Contains(getters[o], q) /\ q # r
          /\ \A q \in Requests : Contains(w, q) => Contains(woken[o], q) /\ q # r
        <3> HIDE DEF o
        <3>1. /\ \A i, j \in 1..Len(getters[o]) : getters[o][i] = getters[o][j] => i = j
              /\ \A i, j \in 1..Len(woken[o]) : woken[o][i] = woken[o][j] => i = j
            BY <1>q, <2>1 DEF OneEach
        <3> QED
            BY <1>q, <2>1, <3>1, WithoutMembers
    <2>4. /\ getters'[o] = IF passOn THEN Tail(g) ELSE g
          /\ woken'[o] = w \o (IF passOn THEN <<Head(g)>> ELSE << >>)
          /\ \A p \in Objects : p # o => getters'[p] = getters[p] /\ woken'[p] = woken[p]
        BY <1>6, <2>1 DEF RequestTimeout, TypeInv, Queues
    <2>5. /\ \A q \in Requests : request'[q].obj = request[q].obj
          /\ \A q \in Requests : q # r => request'[q].status = request[q].status
        BY <1>6, TimeoutEffect
    <2>6. /\ OneEach(getters'[o], woken'[o])
          /\ \A q : Contains(getters'[o], q) \/ Contains(woken'[o], q) => Contains(g, q) \/ Contains(w, q)
        <3> HIDE DEF o, g, w
        <3>1. CASE ~passOn
            <4>1. getters'[o] = g /\ woken'[o] = w
                BY <2>2, <2>4, <3>1, ConcatEmptySeq
            <4> QED
                BY <2>2, <4>1
        <3>2. CASE passOn
            <4>1. Head(g) \in Requests /\ Contains(g, Head(g))
                  /\ \A q : Contains(Tail(g), q) => Contains(g, q)
                BY <2>2, <3>2, ContainsHeadTail, HeadTailProperties
            <4>2. getters'[o] = Tail(g) /\ woken'[o] = Append(w, Head(g))
                BY <2>2, <2>4, <3>2, <4>1, AppendIsConcat
            <4>3. OneEach(Tail(g), Append(w, Head(g)))
                BY <2>2, <3>2, OneEachWake
            <4>4. \A q : Contains(Append(w, Head(g)), q) <=> Contains(w, q) \/ q = Head(g)
                BY <2>2, <4>1, ContainsAppend
            <4> QED
                BY <4>1, <4>2, <4>3, <4>4
        <3> QED
            BY <3>1, <3>2
    <2> HIDE DEF o, g, w, passOn
    <2>7. \A p \in Objects : p # o => ~Contains(getters[p], r) /\ ~Contains(woken[p], r)
        BY WaitersOf DEF o
    <2>8. ASSUME NEW p \in Objects PROVE OneEach(getters'[p], woken'[p])
        BY <1>q, <2>4, <2>6
    <2>9. ASSUME NEW p \in Objects, NEW q \in Requests,
                 Contains(getters'[p], q) \/ Contains(woken'[p], q)
          PROVE  request'[q].status = "waiting" /\ request'[q].obj = p
        <3>1. q # r /\ (Contains(getters[p], q) \/ Contains(woken[p], q))
            BY <2>3, <2>4, <2>6, <2>7, <2>9
        <3> QED
            BY <2>5, <3>1, WaitersOf
    <2> QED
        BY <2>8, <2>9 DEF Waiters
<1>7. CASE ShutdownBegin
    BY <1>1, <1>7 DEF ShutdownBegin, busVars, requestVars
<1> QED
    BY <1>1, <1>2, <1>3, <1>4, <1>5, <1>6, <1>7, BusSteps

-----------------------------------------------------------------------------
(* Where each message and its reply are. *)

LEMMA TermTypes ==
    ASSUME TypeInv, NEW o \in Objects, NEW r
    PROVE  /\ inbound[o] \in Seq(Requests) /\ outbound[o] \in Seq(Requests)
           /\ Count(inbound[o], r) \in Nat /\ Count(outbound[o], r) \in Nat
           /\ InHand(o, r) \in Nat /\ Returned(r) \in Nat
<1>1. inbound[o] \in Seq(Requests) /\ outbound[o] \in Seq(Requests)
    BY DEF TypeInv, Queues
<1>2. IsFiniteSet(Requests)
    BY Numbers, FS_Interval DEF Requests
<1>3. Returned(r) \in Nat
    BY <1>2, FS_Subset, FS_CardinalityType DEF Returned
<1> QED
    BY <1>1, <1>3, CountEmpty DEF InHand

LEMMA PrimedTermTypes ==
    ASSUME TypeInv', NEW o \in Objects, NEW r
    PROVE  /\ inbound'[o] \in Seq(Requests) /\ outbound'[o] \in Seq(Requests)
           /\ Count(inbound'[o], r) \in Nat /\ Count(outbound'[o], r) \in Nat
           /\ InHand(o, r)' \in Nat /\ Returned(r)' \in Nat
<1>1. inbound'[o] \in Seq(Requests) /\ outbound'[o] \in Seq(Requests)
    BY DEF TypeInv, Queues
<1>2. IsFiniteSet(Requests)
    BY Numbers, FS_Interval DEF Requests
<1>3. Returned(r)' \in Nat
    BY <1>2, FS_Subset, FS_CardinalityType DEF Returned
<1> QED
    BY <1>1, <1>3, CountEmpty DEF InHand

\* A request that had none returns the reply h.
LEMMA ReturnedOnce ==
    ASSUME TypeInv, NEW x \in Requests, NEW h \in Requests, request[x].got = None,
           request'[x].got = h, \A q \in Requests : q # x => request'[q] = request[q]
    PROVE  \A r \in Requests : Returned(r)' = Returned(r) + (IF h = r THEN 1 ELSE 0)
<1> SUFFICES ASSUME NEW r \in Requests
             PROVE  Returned(r)' = Returned(r) + (IF h = r THEN 1 ELSE 0)
    OBVIOUS
<1> DEFINE before == {q \in Requests : request[q].got = r}
           after  == {q \in Requests : request'[q].got = r}
<1>1. IsFiniteSet(before) /\ x \notin before
    <2>1. IsFiniteSet(Requests)
        BY Numbers, FS_Interval DEF Requests
    <2>2. IsFiniteSet(before)
        BY <2>1, FS_Subset
    <2> QED
        BY <2>2, Numbers
<1>2. after = IF h = r THEN before \union {x} ELSE before
    BY <1>1
<1>3. Returned(r) = Cardinality(before) /\ Returned(r)' = Cardinality(after)
    BY DEF Returned
<1>4. Cardinality(before) \in Nat /\ Cardinality(before \union {x}) = Cardinality(before) + 1
    BY <1>1, FS_AddElement, FS_CardinalityType
<1> HIDE DEF before, after
<1> QED
    BY <1>2, <1>3, <1>4

LEMMA ReturnedSame ==
    ASSUME \A q \in Requests : request'[q].got = request[q].got
    PROVE  \A r : Returned(r)' = Returned(r)
<1> SUFFICES ASSUME NEW r PROVE Returned(r)' = Returned(r)
    OBVIOUS
<1>1. {q \in Requests : request'[q].got = r} = {q \in Requests : request[q].got = r}
    OBVIOUS
<1> QED
    BY <1>1 DEF Returned

LEMMA CancelledStays ==
    ASSUME TypeInv, Owned, [Next]_vars, NEW o \in Objects, Cancelled(o)
    PROVE  Cancelled(o)'
<1>1. closer'[o] = "cleaner"
    <2>1. ASSUME NEW s \in Sids, NEW who \in Closers \ {"nobody"}, registry[s] # None, PopAndStop(s, who)
          PROVE  closer'[o] = "cleaner"
        <3> DEFINE x == registry[s]
        <3>1. x \in Objects /\ x \in 1..created /\ closer' = [closer EXCEPT ![x] = who]
            BY <2>1, RegisteredObject, Numbers DEF TypeInv, Objects, PopAndStop
        <3>2. closer[x] = "nobody"
            BY <3>1 DEF Owned, OwnedOnce, Registered
        <3> HIDE DEF x
        <3> QED
            BY <3>1, <3>2 DEF TypeInv, Cancelled
    <2>2. ASSUME NEW s \in Sids, Create(s) PROVE closer'[o] = "cleaner"
        BY <2>2 DEF Create, Cancelled
    <2> QED
        BY <2>1, <2>2, RegistrySteps DEF vars, Cancelled
<1>2. server' # "up"
    <2>1. server' = server \/ server' \in {"stopping", "down"}
        <3>1. ASSUME NEW s \in Sids, Create(s) \/ Send(s) \/ Keepalive(s) \/ Delete(s) \/ ShutdownClose(s)
              PROVE  server' = server
            BY <3>1 DEF Create, Send, Keepalive, Delete, ShutdownClose
        <3>2. ASSUME NEW p \in Objects, Task(p) \/ Resume(p) \/ BecomeIdle(p) PROVE server' = server
            BY <3>2 DEF Task, LoopStart, LoopTake, LoopAnswer, LoopExit, BgStart, BgExit, Resume, BecomeIdle
        <3>3. ASSUME NEW r \in Requests, RequestTimeout(r) PROVE server' = server
            BY <3>3 DEF RequestTimeout
        <3>4. CASE Scan \/ EvictNext
            BY <3>4, CleanerEffect
        <3>5. CASE ShutdownBegin \/ ShutdownEnd
            BY <3>5 DEF ShutdownBegin, ShutdownEnd
        <3> QED
            BY <3>1, <3>2, <3>3, <3>4, <3>5 DEF Next, vars
    <2> QED
        BY <2>1 DEF Cancelled
<1> QED
    BY <1>1, <1>2 DEF Cancelled

LEMMA PipelineInit == Init => Pipeline
<1> SUFFICES ASSUME Init PROVE Pipeline
    OBVIOUS
<1>1. \A o \in Objects : inbound[o] = << >> /\ outbound[o] = << >> /\ loop[o].msg = None
    BY DEF Init
<1>2. sent = 0 /\ \A r \in Requests : request[r].got = 0
    BY DEF Init, None
<1> QED
    BY <1>1, <1>2, ContainsNothing, Numbers DEF Pipeline

\* A message or a reply in hand belongs to a request sent to that object.
LEMMA PipelineOf ==
    ASSUME TypeInv, Pipeline, NEW o \in Objects, NEW r \in Requests,
           Contains(inbound[o], r) \/ Contains(outbound[o], r) \/ loop[o].msg = r
    PROVE  r <= sent /\ r \in 1..sent /\ request[r].obj = o
BY Numbers DEF Pipeline, TypeInv, Requests

\* It suffices that each step keeps every total and every request's object.
LEMMA PipelineKept ==
    ASSUME TypeInv, Owned, Pipeline, [Next]_vars, sent' = sent,
           \A r \in 1..sent : request'[r].obj = request[r].obj,
           \A o \in Objects, r \in 1..sent :
              request[r].obj = o => Total(o, r)' = Total(o, r) \/ Cancelled(o)',
           \A r \in Requests : request'[r].got <= sent,
           \A o \in Objects, r \in Requests :
              Contains(inbound'[o], r) \/ Contains(outbound'[o], r) \/ loop'[o].msg = r =>
                  Contains(inbound[o], r) \/ Contains(outbound[o], r) \/ loop[o].msg = r
    PROVE  Pipeline'
<1>1. ASSUME NEW o \in Objects, NEW r \in 1..sent, request[r].obj = o
      PROVE  Total(o, r)' = 1 \/ Cancelled(o)'
    <2>1. Total(o, r) = 1 \/ Cancelled(o)
        BY <1>1 DEF Pipeline, Total, Cancelled
    <2>2. Total(o, r)' = Total(o, r) \/ Cancelled(o)'
        BY <1>1
    <2> QED
        BY <2>1, <2>2, CancelledStays
<1>2. \A r \in 1..sent : r \in Requests /\ request[r].obj \in Objects
    BY Numbers DEF TypeInv, RequestTypes, Requests
<1>3. \A r \in 1..sent' : \E o \in Objects :
         request'[r].obj = o /\ (Total(o, r)' = 1 \/ Cancelled(o)')
    BY <1>1, <1>2
<1>4. \A o \in Objects, r \in Requests :
         Contains(inbound'[o], r) \/ Contains(outbound'[o], r) \/ loop'[o].msg = r =>
             r <= sent' /\ request'[r].obj = o
    BY PipelineOf
<1>5. \A r \in Requests : request'[r].got <= sent'
    OBVIOUS
<1> QED
    BY <1>3, <1>4, <1>5 DEF Pipeline, InHand, Total, Cancelled

\* A reply that a request takes out of the queue is returned instead of unread.
LEMMA ReplyTaken ==
    ASSUME TypeInv, Pipeline, NEW o \in Objects, NEW x \in Requests, request[x].got = None,
           outbound[o] # << >>, outbound' = [outbound EXCEPT ![o] = Tail(outbound[o])],
           request'[x].got = Head(outbound[o]), \A q \in Requests : q # x => request'[q] = request[q]
    PROVE  /\ \A r \in Requests : request'[r].got <= sent
           /\ \A p \in Objects, r \in Requests : Contains(outbound'[p], r) => Contains(outbound[p], r)
           /\ \A p \in Objects, r \in Requests : p = o \/ request[r].obj = p =>
                 Count(outbound'[p], r) + Returned(r)' = Count(outbound[p], r) + Returned(r)
<1> DEFINE h == Head(outbound[o])
           t == Tail(outbound[o])
<1>1. outbound[o] \in Seq(Requests)
    BY TermTypes
<1>2. /\ h \in Requests /\ Contains(outbound[o], h) /\ t \in Seq(Requests)
      /\ \A r : Contains(t, r) => Contains(outbound[o], r)
    BY <1>1, ContainsHeadTail, HeadTailProperties
<1>3. h <= sent /\ request[h].obj = o
    BY <1>2, PipelineOf
<1>4. outbound'[o] = t /\ \A p \in Objects : p # o => outbound'[p] = outbound[p]
    BY DEF TypeInv, Queues
<1>5. \A r \in Requests : /\ Count(outbound[o], r) = Count(t, r) + (IF h = r THEN 1 ELSE 0)
                          /\ Count(t, r) \in Nat
    BY <1>1, <1>2, CountTail, CountEmpty
<1>6. \A r \in Requests : Returned(r)' = Returned(r) + (IF h = r THEN 1 ELSE 0)
    BY <1>2, ReturnedOnce
<1>7. \A r : Returned(r) \in Nat
    BY TermTypes
<1> HIDE DEF h, t
<1>8. \A r \in Requests : request'[r].got <= sent
    BY <1>3 DEF Pipeline, h
<1>9. ASSUME NEW p \in Objects, NEW r \in Requests, p = o \/ request[r].obj = p
      PROVE  Count(outbound'[p], r) + Returned(r)' = Count(outbound[p], r) + Returned(r)
    <2>1. CASE p = o
        <3> DEFINE d == IF h = r THEN 1 ELSE 0
        <3>1. d \in Nat
            OBVIOUS
        <3>2. /\ Count(outbound[p], r) = Count(t, r) + d /\ Count(t, r) \in Nat
              /\ Returned(r)' = Returned(r) + d /\ Returned(r) \in Nat
              /\ outbound'[p] = t
            BY <1>4, <1>5, <1>6, <1>7, <2>1
        <3>3. Count(outbound'[p], r) = Count(t, r)
            BY <3>2
        <3> HIDE DEF d
        <3> QED
            BY <3>1, <3>2, <3>3
    <2>2. CASE p # o
        <3>1. h # r
            BY <1>3, <1>9, <2>2
        <3>2. Returned(r)' = Returned(r)
            BY <1>6, <1>7, <3>1
        <3> QED
            BY <1>4, <2>2, <3>2
    <2> QED
        BY <2>1, <2>2
<1> QED
    BY <1>2, <1>4, <1>8, <1>9

\* Accepting a message adds it to its object's queue; what else a send does
\* keeps every total.
LEMMA SendKeeps ==
    ASSUME TypeInv, TypeInv', Pipeline, NEW s \in Sids, Send(s)
    PROVE  LET o == registry[s]
               n == sent + 1
           IN  /\ \A r \in Requests : request'[r].got <= sent
               /\ \A p \in Objects, r \in Requests :
                     Contains(outbound'[p], r) => Contains(outbound[p], r)
               /\ \A p \in Objects, r \in Requests : p = o \/ request[r].obj = p =>
                     Total(p, r)' = Total(p, r) + (IF p = o /\ r = n THEN 1 ELSE 0)
<1> DEFINE o == registry[s]
           n == sent + 1
<1>1. o \in Objects /\ n \in Requests /\ loop' = loop
    BY Numbers, RegisteredObject DEF Send, TypeInv, Requests
<1>2. request[n].got = None /\ \A q \in Requests : q # n => request'[q] = request[q]
    <2>1. request[n].status = "unsent"
        BY <1>1 DEF TypeInv
    <2>2. request[n].got = None
        BY <1>1, <2>1 DEF TypeInv
    <2> QED
        BY <1>1, <2>2 DEF Send, Answered, TypeInv
<1>3. \A p \in Objects, r \in Requests :
         Count(inbound'[p], r) = Count(inbound[p], r) + (IF p = o /\ r = n THEN 1 ELSE 0)
    <2>1. /\ inbound'[o] = Append(inbound[o], n)
          /\ \A p \in Objects : p # o => inbound'[p] = inbound[p]
        BY <1>1 DEF Send, TypeInv, Queues
    <2>2. \A r \in Requests : Count(Append(inbound[o], n), r) =
                                 Count(inbound[o], r) + (IF n = r THEN 1 ELSE 0)
        <3>1. inbound[o] \in Seq(Requests)
            BY <1>1, TermTypes
        <3> HIDE DEF o, n
        <3> QED
            BY <1>1, <3>1, CountAppend
    <2> HIDE DEF o, n
    <2> SUFFICES ASSUME NEW p \in Objects, NEW r \in Requests
                 PROVE  Count(inbound'[p], r) =
                            Count(inbound[p], r) + (IF p = o /\ r = n THEN 1 ELSE 0)
        OBVIOUS
    <2>3. Count(inbound[p], r) \in Nat
        BY TermTypes
    <2>4. CASE p = o
        <3>1. Count(Append(inbound[o], n), r) = Count(inbound[o], r) + (IF n = r THEN 1 ELSE 0)
            BY <2>2
        <3> QED
            BY <2>1, <2>4, <3>1
    <2>5. CASE p # o
        BY <2>1, <2>3, <2>5
    <2> QED
        BY <2>4, <2>5
<1>4. /\ \A r \in Requests : request'[r].got <= sent
      /\ \A p \in Objects, r \in Requests : Contains(outbound'[p], r) => Contains(outbound[p], r)
      /\ \A p \in Objects, r \in Requests : p = o \/ request[r].obj = p =>
            Count(outbound'[p], r) + Returned(r)' = Count(outbound[p], r) + Returned(r)
    <2>1. CASE outbound[o] = << >>
        <3>1. outbound' = outbound /\ request'[n].got = None
            BY <1>1, <2>1 DEF Send, TypeInv
        <3> HIDE DEF n, o
        <3>2. \A r : Returned(r)' = Returned(r)
            BY <1>1, <1>2, <3>1, ReturnedSame
        <3>3. \A r \in Requests : request'[r].got <= sent
            BY <1>2, <3>1 DEF Pipeline
        <3> QED
            BY <3>1, <3>2, <3>3
    <2>2. CASE outbound[o] # << >>
        <3>1. /\ outbound' = [outbound EXCEPT ![o] = Tail(outbound[o])]
              /\ request'[n].got = Head(outbound[o])
            BY <1>1, <2>2 DEF Send, Answered, TypeInv
        <3> HIDE DEF n, o
        <3> QED
            BY <1>1, <1>2, <2>2, <3>1, ReplyTaken
    <2> QED
        BY <2>1, <2>2
<1> HIDE DEF o, n
<1>5. ASSUME NEW p \in Objects, NEW r \in Requests, p = o \/ request[r].obj = p
      PROVE  Total(p, r)' = Total(p, r) + (IF p = o /\ r = n THEN 1 ELSE 0)
    <2>1. /\ Count(inbound[p], r) \in Nat /\ Count(outbound[p], r) \in Nat
          /\ InHand(p, r) \in Nat /\ Returned(r) \in Nat
        BY TermTypes
    <2>2. Count(outbound'[p], r) \in Nat /\ Returned(r)' \in Nat
        BY PrimedTermTypes
    <2>3. InHand(p, r)' = InHand(p, r)
        BY <1>1 DEF InHand
    <2>4. /\ Count(inbound'[p], r) = Count(inbound[p], r) + (IF p = o /\ r = n THEN 1 ELSE 0)
          /\ Count(outbound'[p], r) + Returned(r)' = Count(outbound[p], r) + Returned(r)
        BY <1>3, <1>4, <1>5
    <2> QED
        BY <2>1, <2>2, <2>3, <2>4 DEF Total
<1> QED
    BY <1>4, <1>5 DEF o, n

LEMMA PipelineStep ==
    TypeInv /\ TypeInv' /\ Owned /\ Closing /\ Waiters /\ Pipeline /\ [Next]_vars => Pipeline'
<1> SUFFICES ASSUME TypeInv, TypeInv', Owned, Closing, Waiters, Pipeline, [Next]_vars
             PROVE  Pipeline'
    OBVIOUS
<1> USE Numbers
<1>s. \A r \in 1..sent : r \in Requests /\ request[r].obj \in Objects
    BY DEF TypeInv, RequestTypes, Requests
<1>g. \A r \in Requests : request[r].got <= sent
    BY DEF Pipeline
<1>1. ASSUME NEW s \in Sids, Send(s) PROVE Pipeline'
    <2> DEFINE o == registry[s]
               n == sent + 1
    <2>1. o \in Objects /\ n \in Requests /\ ~(n <= sent) /\ sent' = n /\ UNCHANGED <<loop, closer, server>>
        BY <1>1, RegisteredObject DEF Send, TypeInv, Requests
    <2>2. /\ request'[n].obj = o /\ \A q \in Requests : q # n => request'[q] = request[q]
        BY <1>1, <2>1 DEF Send, Answered, TypeInv
    <2>3. /\ inbound'[o] = Append(inbound[o], n)
          /\ \A p \in Objects : p # o => inbound'[p] = inbound[p]
        BY <1>1, <2>1 DEF Send, TypeInv, Queues
    <2>4. /\ \A r \in Requests : request'[r].got <= sent
          /\ \A p \in Objects, r \in Requests :
                Contains(outbound'[p], r) => Contains(outbound[p], r)
          /\ \A p \in Objects, r \in Requests : p = o \/ request[r].obj = p =>
                Total(p, r)' = Total(p, r) + (IF p = o /\ r = n THEN 1 ELSE 0)
        BY <1>1, SendKeeps
    <2>5. \A r \in Requests : r <= n <=> r <= sent \/ r = n
        BY <2>1 DEF TypeInv, Requests
    <2>r. n \in Nat /\ n \in 1..MaxRequests /\ sent \in Nat /\ n = sent + 1
        BY <2>1 DEF TypeInv, Requests
    <2> HIDE DEF n, o
    <2>6. \A p \in Objects : ~Contains(inbound[p], n) /\ ~Contains(outbound[p], n) /\ loop[p].msg # n
        BY <2>1, PipelineOf
    <2>7. Total(o, n) = 0
        <3>1. Count(inbound[o], n) = 0 /\ Count(outbound[o], n) = 0 /\ InHand(o, n) = 0
            BY <2>1, <2>6, TermTypes, CountEmpty DEF InHand
        <3>2. {q \in Requests : request[q].got = n} = {}
            BY <1>g, <2>1
        <3>3. Returned(n) = 0
            BY <3>2, FS_EmptySet DEF Returned
        <3> QED
            BY <3>1, <3>3 DEF Total
    <2>8. ASSUME NEW r \in 1..n, NEW p \in Objects, request'[r].obj = p
          PROVE  Total(p, r)' = 1 \/ Cancelled(p)'
        <3>1. r \in Requests /\ (r # n => r \in 1..sent)
            BY <2>1, <2>5, <2>r DEF Requests
        <3>2. CASE r = n
            <4>1. p = o
                BY <2>2, <2>8, <3>2
            <4>2. Total(p, r)' = Total(p, r) + 1
                BY <2>4, <3>1, <3>2, <4>1
            <4> QED
                BY <2>7, <3>2, <4>1, <4>2
        <3>3. CASE r # n
            <4>1. request[r].obj = p
                BY <2>2, <2>8, <3>1, <3>3
            <4>2. Total(p, r) = 1 \/ Cancelled(p)
                BY <3>1, <3>3, <4>1 DEF Pipeline, Total, Cancelled
            <4>3. Total(p, r)' = Total(p, r) + (IF p = o /\ r = n THEN 1 ELSE 0)
                BY <2>4, <3>1, <4>1
            <4>4. Total(p, r)' = Total(p, r) + 0
                BY <3>3, <4>3
            <4>5. Cancelled(p)' <=> Cancelled(p)
                BY <2>1 DEF Cancelled
            <4> QED
                BY <4>2, <4>4, <4>5
        <3> QED
            BY <3>2, <3>3
    <2>11. ASSUME NEW r \in 1..n PROVE request'[r].obj \in Objects
        <3>1. r \in Requests /\ (r # n => r \in 1..sent)
            BY <2>1, <2>5, <2>r DEF Requests
        <3> QED
            BY <1>s, <2>1, <2>2, <3>1
    <2>9. ASSUME NEW p \in Objects, NEW r \in Requests,
                 Contains(inbound'[p], r) \/ Contains(outbound'[p], r) \/ loop'[p].msg = r
          PROVE  r <= n /\ request'[r].obj = p
        <3>1. inbound[o] \in Seq(Requests)
            BY <2>1, TermTypes
        <3>2. \A q : Contains(Append(inbound[o], n), q) <=> Contains(inbound[o], q) \/ q = n
            BY <2>1, <3>1, ContainsAppend
        <3>3. CASE r = n
            <4>1. p = o
                BY <2>1, <2>3, <2>4, <2>6, <2>9, <3>3
            <4> QED
                BY <2>1, <2>2, <2>5, <3>3, <4>1
        <3>4. CASE r # n
            <4>1. Contains(inbound[p], r) \/ Contains(outbound[p], r) \/ loop[p].msg = r
                BY <2>1, <2>3, <2>4, <2>9, <3>2, <3>4
            <4> QED
                BY <2>2, <2>5, <3>4, <4>1, PipelineOf
        <3> QED
            BY <3>3, <3>4
    <2>10. \A r \in Requests : request'[r].got <= n
        <3> SUFFICES ASSUME NEW r \in Requests PROVE request'[r].got <= n
            OBVIOUS
        <3>0. request'[r] \in RequestTypes
            BY DEF TypeInv
        <3> DEFINE g == request'[r].got
        <3>1. g \in Requests \union {None} /\ g <= sent
            BY <2>4, <3>0 DEF RequestTypes
        <3> HIDE DEF g
        <3>2. g \in Nat
            BY <3>1
        <3> QED
            BY <2>r, <3>1, <3>2 DEF g
    <2> QED
        BY <2>1, <2>8, <2>9, <2>10, <2>11 DEF Pipeline, InHand, Total, Cancelled
<1>2. ASSUME NEW o \in Objects, LoopTake(o) PROVE Pipeline'
    <2> DEFINE m == Head(inbound[o])
    <2>1. /\ inbound[o] # << >> /\ loop[o].msg = None
          /\ UNCHANGED <<outbound, sent, request>>
        BY <1>2 DEF LoopTake, TypeInv, requestVars
    <2>2. /\ m \in Requests /\ Contains(inbound[o], m) /\ Tail(inbound[o]) \in Seq(Requests)
          /\ \A r : Contains(Tail(inbound[o]), r) => Contains(inbound[o], r)
          /\ \A r \in Requests : /\ Count(inbound[o], r) = Count(Tail(inbound[o]), r) + (IF m = r THEN 1 ELSE 0)
                                 /\ Count(Tail(inbound[o]), r) \in Nat
        BY <2>1, TermTypes, HeadTailProperties, ContainsHeadTail, CountTail, CountEmpty
    <2>3. inbound'[o] = Tail(inbound[o]) /\ \A p \in Objects : p # o => inbound'[p] = inbound[p]
        BY <1>2 DEF LoopTake, TypeInv, Queues
    <2>4. loop'[o].msg = m /\ \A p \in Objects : p # o => loop'[p] = loop[p]
        BY <1>2 DEF LoopTake, TypeInv, LoopTypes
    <2> HIDE DEF m
    <2>5. \A r : Returned(r)' = Returned(r)
        BY <2>1, ReturnedSame
    <2>6. ASSUME NEW p \in Objects, NEW r \in 1..sent PROVE Total(p, r)' = Total(p, r)
        <3>1. r \in Requests
            BY <1>s
        <3>2. /\ Count(outbound[p], r) \in Nat /\ Returned(r) \in Nat
            BY TermTypes
        <3>3. CASE p = o
            <4>1. InHand(p, r) = 0 /\ InHand(p, r)' = IF m = r THEN 1 ELSE 0
                BY <2>1, <2>4, <3>1, <3>3 DEF InHand
            <4> QED
                BY <2>1, <2>2, <2>3, <2>5, <3>1, <3>2, <3>3, <4>1 DEF Total
        <3>4. CASE p # o
            <4>1. InHand(p, r)' = InHand(p, r)
                BY <2>4, <3>4 DEF InHand
            <4> QED
                BY <2>1, <2>3, <2>5, <3>4, <4>1 DEF Total
        <3> QED
            BY <3>3, <3>4
    <2>7. \A p \in Objects, r \in Requests :
             Contains(inbound'[p], r) \/ Contains(outbound'[p], r) \/ loop'[p].msg = r =>
                 Contains(inbound[p], r) \/ Contains(outbound[p], r) \/ loop[p].msg = r
        BY <2>1, <2>2, <2>3, <2>4
    <2> QED
        BY <1>g, <2>1, <2>6, <2>7, PipelineKept
<1>3. ASSUME NEW o \in Objects, LoopAnswer(o) PROVE Pipeline'
    <2> DEFINE m == loop[o].msg
    <2>1. /\ m \in Requests /\ UNCHANGED <<inbound, sent, request>>
          /\ outbound' = [outbound EXCEPT ![o] = Append(outbound[o], m)]
        BY <1>3 DEF LoopAnswer, TypeInv, LoopTypes, requestVars
    <2>2. outbound'[o] = Append(outbound[o], m) /\ \A p \in Objects : p # o => outbound'[p] = outbound[p]
        BY <2>1 DEF TypeInv, Queues
    <2>3. loop'[o].msg = None /\ \A p \in Objects : p # o => loop'[p] = loop[p]
        BY <1>3 DEF LoopAnswer, TypeInv, LoopTypes
    <2> HIDE DEF m
    <2>4. /\ \A r : Contains(Append(outbound[o], m), r) <=> Contains(outbound[o], r) \/ r = m
          /\ \A r \in Requests : Count(Append(outbound[o], m), r) =
                                    Count(outbound[o], r) + (IF m = r THEN 1 ELSE 0)
        <3>1. outbound[o] \in Seq(Requests)
            BY TermTypes
        <3> QED
            BY <2>1, <3>1, ContainsAppend, CountAppend
    <2>5. \A r : Returned(r)' = Returned(r)
        BY <2>1, ReturnedSame
    <2>6. ASSUME NEW p \in Objects, NEW r \in 1..sent PROVE Total(p, r)' = Total(p, r)
        <3>1. r \in Requests
            BY <1>s
        <3>2. /\ Count(inbound[p], r) \in Nat /\ Count(outbound[p], r) \in Nat /\ Returned(r) \in Nat
            BY TermTypes
        <3>3. CASE p = o
            <4>1. InHand(p, r)' = 0 /\ InHand(p, r) = IF m = r THEN 1 ELSE 0
                BY <2>3, <3>1, <3>3 DEF InHand, m
            <4> QED
                <5> DEFINE d == IF m = r THEN 1 ELSE 0
                <5>1. d \in Nat
                    OBVIOUS
                <5>2. Count(outbound'[p], r) = Count(outbound[p], r) + d /\ InHand(p, r) = d
                    BY <2>2, <2>4, <3>1, <3>3, <4>1
                <5> HIDE DEF d
                <5> QED
                    BY <2>1, <2>5, <3>2, <4>1, <5>1, <5>2 DEF Total
        <3>4. CASE p # o
            <4>1. InHand(p, r)' = InHand(p, r)
                BY <2>3, <3>4 DEF InHand
            <4> QED
                BY <2>1, <2>2, <2>5, <3>4, <4>1 DEF Total
        <3> QED
            BY <3>3, <3>4
    <2>7. \A p \in Objects, r \in Requests :
             Contains(inbound'[p], r) \/ Contains(outbound'[p], r) \/ loop'[p].msg = r =>
                 Contains(inbound[p], r) \/ Contains(outbound[p], r) \/ loop[p].msg = r
        BY <2>1, <2>2, <2>3, <2>4 DEF m
    <2> QED
        BY <1>g, <2>1, <2>6, <2>7, PipelineKept
<1>4. ASSUME NEW o \in Objects, Resume(o) PROVE Pipeline'
    <2> DEFINE x == Head(woken[o])
    <2>1. UNCHANGED <<inbound, sent, loop>>
        BY <1>4 DEF Resume
    <2>2. x \in Requests /\ request[x].status = "waiting" /\ request[x].obj = o /\ request[x].got = None
        <3>1. x \in Requests /\ Contains(woken[o], x)
            BY <1>4, ContainsHeadTail, HeadTailProperties DEF Resume, TypeInv, Queues
        <3>2. request[x].status = "waiting" /\ request[x].obj = o
            BY <3>1, WaitersOf
        <3> QED
            BY <3>1, <3>2 DEF TypeInv
    <2>3. /\ \A q \in Requests : request'[q].obj = request[q].obj /\ request'[q].got <= sent
          /\ \A p \in Objects, r \in Requests : Contains(outbound'[p], r) => Contains(outbound[p], r)
          /\ \A p \in Objects, r \in Requests : p = o \/ request[r].obj = p =>
                Count(outbound'[p], r) + Returned(r)' = Count(outbound[p], r) + Returned(r)
        <3>1. CASE outbound[o] = << >>
            <4>1. UNCHANGED <<request, outbound>>
                BY <1>4, <3>1 DEF Resume
            <4>2. \A r : Returned(r)' = Returned(r)
                BY <4>1, ReturnedSame
            <4> QED
                BY <1>g, <4>1, <4>2
        <3>2. CASE outbound[o] # << >>
            <4>1. /\ outbound' = [outbound EXCEPT ![o] = Tail(outbound[o])]
                  /\ request'[x].got = Head(outbound[o]) /\ request'[x].obj = o
                  /\ \A q \in Requests : q # x => request'[q] = request[q]
                BY <1>4, <2>2, <3>2 DEF Resume, Answered, TypeInv
            <4> HIDE DEF x
            <4>2. \A q \in Requests : request'[q].obj = request[q].obj
                BY <2>2, <4>1
            <4> QED
                BY <2>2, <3>2, <4>1, <4>2, ReplyTaken
        <3> QED
            BY <3>1, <3>2
    <2> HIDE DEF x
    <2>4. ASSUME NEW p \in Objects, NEW r \in 1..sent, request[r].obj = p
          PROVE  Total(p, r)' = Total(p, r)
        <3>1. r \in Requests
            BY <1>s
        <3>2. /\ Count(inbound[p], r) \in Nat /\ Count(outbound[p], r) \in Nat
              /\ InHand(p, r) \in Nat /\ Returned(r) \in Nat
            BY TermTypes
        <3>3. Count(outbound'[p], r) \in Nat /\ Returned(r)' \in Nat
            BY PrimedTermTypes
        <3>4. InHand(p, r)' = InHand(p, r)
            BY <2>1 DEF InHand
        <3>5. Count(outbound'[p], r) + Returned(r)' = Count(outbound[p], r) + Returned(r)
            BY <2>3, <2>4, <3>1
        <3> QED
            BY <2>1, <3>2, <3>3, <3>4, <3>5 DEF Total
    <2> QED
        BY <1>s, <2>1, <2>3, <2>4, PipelineKept
<1>5. ASSUME NEW x \in Requests, RequestTimeout(x) PROVE Pipeline'
    <2>1. /\ UNCHANGED <<inbound, outbound, sent, loop>>
          /\ \A q \in Requests : request'[q].obj = request[q].obj /\ request'[q].got = request[q].got
        BY <1>5, TimeoutEffect DEF RequestTimeout
    <2>2. \A r : Returned(r)' = Returned(r)
        BY <2>1, ReturnedSame
    <2>3. \A p \in Objects, r \in 1..sent : Total(p, r)' = Total(p, r)
        BY <2>1, <2>2 DEF Total, InHand
    <2> QED
        BY <1>s, <1>g, <2>1, <2>3, PipelineKept
<1>6. CASE ShutdownBegin
    <2>1. UNCHANGED <<inbound, outbound, sent, request, closer>> /\ server' = "stopping"
        BY <1>6 DEF ShutdownBegin, busVars, requestVars
    <2>2. \A r : Returned(r)' = Returned(r)
        BY <2>1, ReturnedSame
    <2>3. ASSUME NEW p \in Objects
          PROVE  /\ loop'[p].msg \in {loop[p].msg, None}
                 /\ loop'[p].msg = loop[p].msg \/ closer[p] = "cleaner"
        <3>1. CASE cleaner.pc = "closing"
            <4> DEFINE o == cleaner.obj
            <4>1. /\ closer[o] = "cleaner" /\ o \in Objects
                  /\ loop' = [loop EXCEPT ![o] = [pc |-> "done", running |-> FALSE, msg |-> None]]
                BY <1>6, <3>1 DEF Closing, ShutdownBegin, TypeInv, CleanerTypes
            <4> HIDE DEF o
            <4> QED
                BY <4>1 DEF TypeInv
        <3>2. CASE cleaner.pc # "closing"
            BY <1>6, <3>2 DEF ShutdownBegin
        <3> QED
            BY <3>1, <3>2
    <2>4. ASSUME NEW p \in Objects, NEW r \in 1..sent
          PROVE  Total(p, r)' = Total(p, r) \/ Cancelled(p)'
        <3>1. CASE loop'[p].msg = loop[p].msg
            <4>1. InHand(p, r)' = InHand(p, r)
                BY <3>1 DEF InHand
            <4> QED
                BY <2>1, <2>2, <4>1 DEF Total
        <3>2. CASE loop'[p].msg # loop[p].msg
            BY <2>1, <2>3, <3>2 DEF Cancelled
        <3> QED
            BY <3>1, <3>2
    <2> QED
        BY <1>g, <2>1, <2>3, <2>4, PipelineKept
<1>7. CASE /\ UNCHANGED <<inbound, outbound, getters, woken, sent, request, overlapped>>
           /\ \A o \in Objects : loop'[o].msg = loop[o].msg
    <2>1. \A r : Returned(r)' = Returned(r)
        BY <1>7, ReturnedSame
    <2>2. \A p \in Objects, r \in 1..sent : Total(p, r)' = Total(p, r)
        <3> SUFFICES ASSUME NEW p \in Objects, NEW r \in 1..sent PROVE Total(p, r)' = Total(p, r)
            OBVIOUS
        <3>1. InHand(p, r)' = InHand(p, r)
            BY <1>7 DEF InHand
        <3> QED
            BY <1>7, <2>1, <3>1 DEF Total
    <2> QED
        BY <1>g, <1>7, <2>2, PipelineKept
<1> QED
    BY <1>1, <1>2, <1>3, <1>4, <1>5, <1>6, <1>7, BusSteps

-----------------------------------------------------------------------------
(* The pipe: what reaches a session last is the end of one sequence, and what *)
(* a request gets from it the head, wherever its three parts meet.            *)

\* What is put into the last part is put at the end of the whole.
AtEnd(a, h, b, x) == a \o (h \o Append(b, x)) = Append(a \o (h \o b), x)

\* A message put into the last part is put at the end.
LEMMA PutAtEnd ==
    ASSUME NEW a \in Seq(Requests), NEW h \in Seq(Requests), NEW b \in Seq(Requests),
           NEW x \in Requests
    PROVE  AtEnd(a, h, b, x)
<1>1. <<x>> \in Seq(Requests) /\ h \o b \in Seq(Requests) /\ a \o (h \o b) \in Seq(Requests)
    BY ConcatProperties
<1>2. Append(b, x) = b \o <<x>> /\ Append(a \o (h \o b), x) = (a \o (h \o b)) \o <<x>>
    BY <1>1, AppendIsConcat
<1>3. h \o (b \o <<x>>) = (h \o b) \o <<x>>
    BY <1>1, ConcatAssociative
<1>4. a \o ((h \o b) \o <<x>>) = (a \o (h \o b)) \o <<x>>
    BY <1>1, ConcatAssociative
<1> QED
    BY <1>2, <1>3, <1>4 DEF AtEnd

\* A reply got from the first part is the head.
LEMMA GotFromHead ==
    ASSUME NEW S, NEW a \in Seq(S), NEW c \in Seq(S), a # << >>
    PROVE  a \o c # << >> /\ Head(a \o c) = Head(a) /\ Tail(a \o c) = Tail(a) \o c
<1> DEFINE s == a \o c
           t == Tail(a) \o c
<1>1. /\ Len(a) \in Nat \ {0} /\ Len(c) \in Nat
      /\ Tail(a) \in Seq(S) /\ Len(Tail(a)) = Len(a) - 1 /\ Head(a) = a[1]
      /\ \A i \in 1..(Len(a) - 1) : Tail(a)[i] = a[i + 1]
    BY HeadTailProperties, EmptySeq, LenProperties
<1>2. /\ s \in Seq(S) /\ Len(s) = Len(a) + Len(c)
      /\ \A i \in 1..(Len(a) + Len(c)) : s[i] = IF i <= Len(a) THEN a[i] ELSE c[i - Len(a)]
    BY ConcatProperties
<1>3. /\ t \in Seq(S) /\ Len(t) = Len(a) - 1 + Len(c)
      /\ \A i \in 1..(Len(a) - 1 + Len(c)) :
            t[i] = IF i <= Len(a) - 1 THEN Tail(a)[i] ELSE c[i - (Len(a) - 1)]
    BY <1>1, ConcatProperties
<1> HIDE DEF s, t
<1>4. s # << >> /\ Head(s) = a[1]
    <2>1. s # << >>
        BY <1>1, <1>2, EmptySeq
    <2>2. s[1] = a[1]
        BY <1>1, <1>2
    <2>3. Head(s) = s[1]
        BY <1>2, <2>1, HeadTailProperties
    <2> QED
        BY <2>1, <2>2, <2>3
<1>5. /\ Tail(s) \in Seq(S) /\ Len(Tail(s)) = Len(a) - 1 + Len(c)
      /\ \A i \in 1..(Len(a) - 1 + Len(c)) : Tail(s)[i] = s[i + 1]
    <2>1. Tail(s) \in Seq(S) /\ Len(Tail(s)) = Len(s) - 1
          /\ \A i \in 1..Len(Tail(s)) : Tail(s)[i] = s[i + 1]
        BY <1>2, <1>4, HeadTailProperties
    <2> QED
        BY <1>1, <1>2, <2>1
<1>6. ASSUME NEW i \in 1..(Len(a) - 1 + Len(c)) PROVE Tail(s)[i] = t[i]
    <2>1. i + 1 \in 1..(Len(a) + Len(c)) /\ Tail(s)[i] = s[i + 1]
        BY <1>1, <1>5
    <2>2. CASE i <= Len(a) - 1
        <3>1. i \in 1..(Len(a) - 1) /\ i + 1 <= Len(a)
            BY <1>1, <2>2
        <3>2. s[i + 1] = a[i + 1]
            BY <1>2, <2>1, <3>1
        <3>3. t[i] = a[i + 1]
            BY <1>1, <1>3, <2>2, <3>1
        <3> QED
            BY <2>1, <3>2, <3>3
    <2>3. CASE ~(i <= Len(a) - 1)
        <3>1. ~(i + 1 <= Len(a)) /\ i + 1 - Len(a) = i - (Len(a) - 1)
            BY <1>1, <2>3
        <3>2. s[i + 1] = c[i - (Len(a) - 1)]
            BY <1>2, <2>1, <3>1
        <3>3. t[i] = c[i - (Len(a) - 1)]
            BY <1>3, <2>3
        <3> QED
            BY <2>1, <3>2, <3>3
    <2> QED
        BY <2>2, <2>3
<1>7. Tail(s) = t
    BY <1>3, <1>5, <1>6, SeqEqual
<1> QED
    BY <1>1, <1>4, <1>7 DEF s, t

LEMMA HeadAndTail ==
    ASSUME NEW S, NEW q \in Seq(S), q # << >>
    PROVE  <<Head(q)>> \o Tail(q) = q
<1>1. /\ Len(q) \in Nat \ {0} /\ Head(q) \in S /\ Head(q) = q[1]
      /\ Tail(q) \in Seq(S) /\ Len(Tail(q)) = Len(q) - 1
      /\ \A i \in 1..(Len(q) - 1) : Tail(q)[i] = q[i + 1]
    BY HeadTailProperties, EmptySeq
<1> DEFINE h == <<Head(q)>>
<1>2. h \in Seq(S) /\ Len(h) = 1 /\ h[1] = q[1]
    BY <1>1
<1> HIDE DEF h
<1>3. /\ h \o Tail(q) \in Seq(S) /\ Len(h \o Tail(q)) = Len(q)
      /\ \A i \in 1..Len(q) : (h \o Tail(q))[i] = IF i <= 1 THEN h[i] ELSE Tail(q)[i - 1]
    <2>1. /\ h \o Tail(q) \in Seq(S) /\ Len(h \o Tail(q)) = Len(h) + Len(Tail(q))
          /\ \A i \in 1..(Len(h) + Len(Tail(q))) :
                (h \o Tail(q))[i] = IF i <= Len(h) THEN h[i] ELSE Tail(q)[i - Len(h)]
        BY <1>1, <1>2, ConcatProperties
    <2>2. Len(h) + Len(Tail(q)) = Len(q)
        BY <1>1, <1>2
    <2> QED
        BY <1>2, <2>1, <2>2
<1>4. ASSUME NEW i \in 1..Len(q) PROVE (h \o Tail(q))[i] = q[i]
    <2>1. CASE i = 1
        BY <1>2, <1>3, <2>1
    <2>2. CASE i # 1
        <3>1. ~(i <= 1) /\ i - 1 \in 1..(Len(q) - 1) /\ i - 1 + 1 = i
            BY <1>1, <2>2
        <3>2. (h \o Tail(q))[i] = Tail(q)[i - 1]
            BY <1>3, <3>1
        <3> QED
            BY <1>1, <3>1, <3>2
    <2> QED
        BY <2>1, <2>2
<1>5. h \o Tail(q) = q
    BY <1>3, <1>4, SeqEqual
<1> QED
    BY <1>5 DEF h

\* The m elements after the first k.
LEMMA Part ==
    ASSUME NEW S, NEW s \in Seq(S), NEW k \in Nat, NEW m \in Nat, k + m <= Len(s)
    PROVE  /\ SubSeq(s, k + 1, k + m) \in Seq(S)
           /\ Len(SubSeq(s, k + 1, k + m)) = m
           /\ \A i \in 1..m : SubSeq(s, k + 1, k + m)[i] = s[k + i]
<1> DEFINE lo == k + 1
           hi == k + m
<1>1. /\ lo \in Int /\ hi \in Int /\ hi - lo + 1 = m
      /\ (IF lo <= hi THEN hi - lo + 1 ELSE 0) = m
      /\ \A i \in 1..m : lo + i - 1 = k + i
    OBVIOUS
<1>2. \A i \in lo..hi : s[i] \in S
    <2>1. Len(s) \in Nat /\ \A i \in 1..Len(s) : s[i] \in S
        BY ElementOfSeq, LenProperties
    <2>2. \A i \in lo..hi : i \in 1..Len(s)
        BY <2>1
    <2> QED
        BY <2>1, <2>2
<1> HIDE DEF lo, hi
<1>3. /\ SubSeq(s, lo, hi) \in Seq(S)
      /\ Len(SubSeq(s, lo, hi)) = IF lo <= hi THEN hi - lo + 1 ELSE 0
      /\ \A i \in 1..(hi - lo + 1) : SubSeq(s, lo, hi)[i] = s[lo + i - 1]
    BY <1>1, <1>2, SubSeqProperties
<1>4. /\ SubSeq(s, lo, hi) \in Seq(S) /\ Len(SubSeq(s, lo, hi)) = m
      /\ \A i \in 1..m : SubSeq(s, lo, hi)[i] = s[k + i]
    BY <1>1, <1>3
<1> QED
    BY <1>4 DEF lo, hi

\* What is in hand can be taken out of the middle.
LEMMA LostFromHand ==
    ASSUME NEW S, NEW a \in Seq(S), NEW x \in S, NEW b \in Seq(S)
    PROVE  /\ Len(a) + 1 \in DOMAIN (a \o (<<x>> \o b))
           /\ RemoveAt(a \o (<<x>> \o b), Len(a) + 1) = a \o b
<1> DEFINE h == <<x>>
           s == a \o (h \o b)
<1>1. h \in Seq(S) /\ Len(h) = 1
    OBVIOUS
<1> HIDE DEF h
<1>2. PICK n \in Nat, m \in Nat : n = Len(a) /\ m = Len(b)
    BY LenProperties
<1>3. /\ a \o h \in Seq(S) /\ Len(a \o h) = n + 1
      /\ h \o b \in Seq(S) /\ Len(h \o b) = m + 1
    <2>1. /\ a \o h \in Seq(S) /\ Len(a \o h) = Len(a) + Len(h)
          /\ h \o b \in Seq(S) /\ Len(h \o b) = Len(h) + Len(b)
        BY <1>1, ConcatProperties
    <2> QED
        BY <1>1, <1>2, <2>1
<1>4. s = (a \o h) \o b
    <2>1. (a \o h) \o b = a \o (h \o b)
        BY <1>1, ConcatAssociative
    <2> QED
        BY <2>1
<1>5. /\ s \in Seq(S) /\ Len(s) = n + 1 + m
      /\ \A i \in 1..n : s[i] = a[i]
      /\ \A i \in 1..m : s[n + 1 + i] = b[i]
    <2>1. /\ s \in Seq(S) /\ Len(s) = n + (m + 1)
          /\ \A i \in 1..(n + (m + 1)) : s[i] = IF i <= n THEN a[i] ELSE (h \o b)[i - n]
        <3>1. /\ s \in Seq(S) /\ Len(s) = Len(a) + Len(h \o b)
              /\ \A i \in 1..(Len(a) + Len(h \o b)) :
                    s[i] = IF i <= Len(a) THEN a[i] ELSE (h \o b)[i - Len(a)]
            BY <1>3, ConcatProperties
        <3> HIDE DEF s
        <3> QED
            BY <1>2, <1>3, <3>1
    <2>2. \A i \in 1..(n + 1 + m) : s[i] = IF i <= n + 1 THEN (a \o h)[i] ELSE b[i - (n + 1)]
        <3>1. \A i \in 1..(Len(a \o h) + Len(b)) : ((a \o h) \o b)[i] =
                  IF i <= Len(a \o h) THEN (a \o h)[i] ELSE b[i - Len(a \o h)]
            BY <1>3, ConcatProperties
        <3> HIDE DEF s
        <3> QED
            BY <1>2, <1>3, <1>4, <3>1
    <2> HIDE DEF s
    <2>3. ASSUME NEW i \in 1..n PROVE s[i] = a[i]
        BY <2>1
    <2>4. ASSUME NEW i \in 1..m PROVE s[n + 1 + i] = b[i]
        <3> DEFINE j == n + 1 + i
        <3>1. j \in 1..(n + 1 + m) /\ ~(j <= n + 1) /\ j - (n + 1) = i
            OBVIOUS
        <3> HIDE DEF j
        <3>2. s[j] = b[i]
            BY <2>2, <3>1
        <3> QED
            BY <3>2 DEF j
    <2> QED
        BY <2>1, <2>3, <2>4
<1> HIDE DEF s
<1>6. SubSeq(s, 1, n) = a
    <2>1. /\ SubSeq(s, 0 + 1, 0 + n) \in Seq(S) /\ Len(SubSeq(s, 0 + 1, 0 + n)) = n
          /\ \A i \in 1..n : SubSeq(s, 0 + 1, 0 + n)[i] = s[0 + i]
        <3>1. 0 \in Nat /\ 0 + n <= Len(s)
            BY <1>5
        <3> QED
            BY <1>5, <3>1, Part
    <2>2. 0 + 1 = 1 /\ 0 + n = n /\ \A i \in 1..n : 0 + i = i
        OBVIOUS
    <2>3. /\ SubSeq(s, 1, n) \in Seq(S) /\ Len(SubSeq(s, 1, n)) = n
          /\ \A i \in 1..n : SubSeq(s, 1, n)[i] = a[i]
        BY <1>5, <2>1, <2>2
    <2> QED
        BY <1>2, <2>3, SeqEqual
<1>7. SubSeq(s, n + 2, Len(s)) = b
    <2> DEFINE r == SubSeq(s, (n + 1) + 1, (n + 1) + m)
    <2>1. /\ r \in Seq(S) /\ Len(r) = m
          /\ \A i \in 1..m : r[i] = s[(n + 1) + i]
        <3>1. n + 1 \in Nat /\ (n + 1) + m <= Len(s)
            BY <1>5
        <3> QED
            BY <1>5, <3>1, Part
    <2> HIDE DEF r
    <2>2. \A i \in 1..m : r[i] = b[i]
        BY <1>5, <2>1
    <2>3. r = b
        BY <1>2, <2>1, <2>2, SeqEqual
    <2>4. (n + 1) + 1 = n + 2 /\ (n + 1) + m = Len(s)
        BY <1>5
    <2> QED
        BY <2>3, <2>4 DEF r
<1>8. RemoveAt(s, n + 1) = a \o b
    <2> DEFINE k == n + 1
    <2>1. k - 1 = n /\ k + 1 = n + 2
        OBVIOUS
    <2> HIDE DEF k
    <2>2. RemoveAt(s, k) = SubSeq(s, 1, k - 1) \o SubSeq(s, k + 1, Len(s))
        BY Zenon DEF RemoveAt
    <2>3. RemoveAt(s, k) = a \o b
        BY <1>6, <1>7, <2>1, <2>2
    <2> QED
        BY <2>3 DEF k
<1>9. n + 1 \in DOMAIN s
    <2>1. DOMAIN s = 1..Len(s)
        BY <1>5, LenProperties
    <2> QED
        BY <1>5, <2>1
<1> QED
    BY <1>2, <1>8, <1>9 DEF s, h

-----------------------------------------------------------------------------
(* Each step of a session maps to a step of its pipe. *)

\* The queues, and what is in hand, as pipes.
Pipes == [o \in Objects |-> OnTheWay(o)]

LEMMA RequestsGroup ==
    \A a, h, b \in Seq(Requests) : (a \o h) \o b = a \o (h \o b)
BY ConcatAssociative

LEMMA PipeTypes ==
    ASSUME TypeInv, NEW o \in Objects
    PROVE  /\ Pipes[o] = OnTheWay(o)
           /\ outbound[o] \in Seq(Requests) /\ inbound[o] \in Seq(Requests)
           /\ Hand(o) \in Seq(Requests) /\ Hand(o) \o inbound[o] \in Seq(Requests)
<1>1. outbound[o] \in Seq(Requests) /\ inbound[o] \in Seq(Requests)
    BY TermTypes
<1>2. loop[o].msg \in Requests \union {None}
    BY DEF TypeInv, LoopTypes
<1>3. Hand(o) \in Seq(Requests)
    BY <1>2, EmptySeq DEF Hand
<1>4. Hand(o) \o inbound[o] \in Seq(Requests)
    BY <1>1, <1>3, ConcatProperties
<1> QED
    BY <1>1, <1>3, <1>4 DEF Pipes

\* A step that leaves the parts of a pipe alone, or changes those of one only.
LEMMA OnTheWaySame ==
    ASSUME NEW p \in Objects, inbound'[p] = inbound[p], outbound'[p] = outbound[p],
           loop'[p].msg = loop[p].msg
    PROVE  OnTheWay(p)' = OnTheWay(p)
BY DEF OnTheWay, Hand

LEMMA OnePipe ==
    ASSUME NEW o \in Objects, NEW v, OnTheWay(o)' = v,
           \A p \in Objects : p # o => /\ inbound'[p] = inbound[p] /\ outbound'[p] = outbound[p]
                                       /\ loop'[p].msg = loop[p].msg
    PROVE  Pipes' = [Pipes EXCEPT ![o] = v]
<1>1. \A p \in Objects : p # o => OnTheWay(p)' = OnTheWay(p)
    BY OnTheWaySame
<1>2. Pipes' = [p \in Objects |-> OnTheWay(p)']
    BY DEF Pipes
<1>3. \A p \in Objects : [Pipes EXCEPT ![o] = v][p] = IF p = o THEN v ELSE OnTheWay(p)
    BY DEF Pipes
<1>4. \A p \in Objects : Pipes'[p] = [Pipes EXCEPT ![o] = v][p]
    BY <1>1, <1>2, <1>3
<1>5. DOMAIN Pipes' = Objects /\ DOMAIN [Pipes EXCEPT ![o] = v] = Objects
    BY <1>2 DEF Pipes
<1> QED
    BY <1>2, <1>4, <1>5 DEF Pipes

LEMMA PipesSame ==
    ASSUME \A p \in Objects : OnTheWay(p)' = OnTheWay(p)
    PROVE  Pipes' = Pipes
BY DEF Pipes

\* The server stops in one step.
LEMMA ServerSteps ==
    ASSUME TypeInv, [Next]_vars, ~ShutdownBegin
    PROVE  (server' = "up") = (server = "up")
<1>1. CASE server' = server
    BY <1>1
<1>2. CASE ShutdownEnd
    BY <1>2 DEF ShutdownEnd
<1>3. ASSUME NEW s \in Sids, Create(s) \/ Send(s) \/ Keepalive(s) \/ Delete(s) \/ ShutdownClose(s)
      PROVE  server' = server
    BY <1>3 DEF Create, Send, Keepalive, Delete, ShutdownClose
<1>4. ASSUME NEW o \in Objects, Task(o) \/ Resume(o) \/ BecomeIdle(o) PROVE server' = server
    BY <1>4 DEF Task, LoopStart, LoopTake, LoopAnswer, LoopExit, BgStart, BgExit, Resume, BecomeIdle
<1>5. ASSUME NEW r \in Requests, RequestTimeout(r) PROVE server' = server
    BY <1>5 DEF RequestTimeout
<1>6. CASE Scan \/ EvictNext \/ UNCHANGED vars
    BY <1>6 DEF Scan, EvictNext, vars
<1> QED
    BY <1>1, <1>2, <1>3, <1>4, <1>5, <1>6 DEF Next

LEMMA PipeInit == Init => Pipe!Init
<1> SUFFICES ASSUME Init PROVE Pipe!Init
    OBVIOUS
<1>1. \A o \in Objects : OnTheWay(o) = << >>
    <2> SUFFICES ASSUME NEW o \in Objects PROVE OnTheWay(o) = << >>
        OBVIOUS
    <2>1. inbound[o] = << >> /\ outbound[o] = << >> /\ Hand(o) = << >>
        BY DEF Init, Hand
    <2> QED
        BY <2>1, EmptySeq, ConcatEmptySeq DEF OnTheWay
<1>2. (server = "up") = TRUE /\ sent = 0
    BY DEF Init
<1>3. request = [r \in Requests |-> [obj |-> 0, got |-> 0, status |-> "unsent"]]
    BY DEF Init, None
<1> QED
    BY <1>1, <1>2, <1>3 DEF Pipe!Init, Objects, Requests

LEMMA SendRefines ==
    ASSUME TypeInv, NEW s \in Sids, Send(s), UNCHANGED (server = "up")
    PROVE  Pipe!Next
<1>0. registry[s] \in Objects /\ sent + 1 \in Requests
    <2>1. sent + 1 \in Requests
        BY Numbers DEF Send, TypeInv, Requests
    <2> QED
        BY <2>1, RegisteredObject DEF Send
<1>1. PICK o \in Objects, n \in Requests : o = registry[s] /\ n = sent + 1
    BY <1>0
<1>2. /\ server = "up" /\ sent < MaxRequests /\ sent' = sent + 1
      /\ loop' = loop /\ inbound' = [inbound EXCEPT ![o] = Append(@, n)]
    BY <1>1 DEF Send
<1>3. /\ inbound'[o] = Append(inbound[o], n)
      /\ \A p \in Objects : p # o => inbound'[p] = inbound[p]
    BY <1>2 DEF TypeInv, Queues
<1>4. Hand(o)' = Hand(o)
    BY <1>2 DEF Hand
<1>5. /\ Pipes[o] = OnTheWay(o)
      /\ outbound[o] \in Seq(Requests) /\ inbound[o] \in Seq(Requests)
      /\ Hand(o) \in Seq(Requests) /\ Hand(o) \o inbound[o] \in Seq(Requests)
    BY PipeTypes
<1>6. CASE outbound[o] = << >>
    <2>1. /\ outbound' = outbound
          /\ request' = [request EXCEPT ![n] = [obj |-> o, got |-> 0, status |-> "waiting"]]
        BY <1>1, <1>6 DEF Send, None
    <2>2. OnTheWay(o)' = outbound[o] \o (Hand(o) \o Append(inbound[o], n))
        BY <1>3, <1>4, <2>1 DEF OnTheWay
    <2>3. OnTheWay(o)' = Append(Pipes[o], n)
        <3>1. AtEnd(outbound[o], Hand(o), inbound[o], n)
            BY <1>5, PutAtEnd
        <3> QED
            BY <1>5, <2>2, <3>1, Zenon DEF OnTheWay, AtEnd
    <2>4. Pipes' = [Pipes EXCEPT ![o] = Append(Pipes[o], n)]
        BY <1>2, <1>3, <2>1, <2>3, OnePipe
    <2>5. Pipe!Send(o)
        BY <1>1, <1>2, <2>1, <2>4 DEF Pipe!Send, Pipes
    <2> QED
        BY <2>5 DEF Pipe!Next, Objects
<1>7. CASE outbound[o] # << >>
    <2>1. /\ outbound' = [outbound EXCEPT ![o] = Tail(@)]
          /\ request' = [request EXCEPT ![n] =
                [obj |-> o, got |-> Head(outbound[o]), status |-> "ok"]]
        BY <1>1, <1>7 DEF Send, Answered
    <2>2. /\ outbound'[o] = Tail(outbound[o])
          /\ \A p \in Objects : p # o => outbound'[p] = outbound[p]
        BY <2>1 DEF TypeInv, Queues
    <2>3. /\ Pipes[o] # << >> /\ Head(Pipes[o]) = Head(outbound[o])
          /\ Tail(Pipes[o]) = Tail(outbound[o]) \o (Hand(o) \o inbound[o])
        <3>1. /\ OnTheWay(o) # << >> /\ Head(OnTheWay(o)) = Head(outbound[o])
              /\ Tail(OnTheWay(o)) = Tail(outbound[o]) \o (Hand(o) \o inbound[o])
            BY <1>5, <1>7, GotFromHead, Zenon DEF OnTheWay
        <3> QED
            BY <1>5, <3>1, Zenon
    <2>4. Tail(outbound[o]) \in Seq(Requests)
        BY <1>5, <1>7, HeadTailProperties
    <2>5. OnTheWay(o)' = Tail(outbound[o]) \o (Hand(o) \o Append(inbound[o], n))
        BY <1>3, <1>4, <2>2 DEF OnTheWay
    <2>6. OnTheWay(o)' = Append(Tail(Pipes[o]), n)
        <3>1. AtEnd(Tail(outbound[o]), Hand(o), inbound[o], n)
            BY <1>5, <2>4, PutAtEnd
        <3> QED
            BY <2>3, <2>5, <3>1, Zenon DEF AtEnd
    <2>7. Pipes' = [Pipes EXCEPT ![o] = Append(Tail(Pipes[o]), n)]
        BY <1>2, <1>3, <2>2, <2>6, OnePipe
    <2>8. request' = [request EXCEPT ![n] = [obj |-> o, got |-> Head(Pipes[o]), status |-> "ok"]]
        BY <2>1, <2>3
    <2>9. Pipe!SendAndTake(o)
        BY <1>1, <1>2, <2>3, <2>7, <2>8 DEF Pipe!SendAndTake, Pipes
    <2> QED
        BY <2>9 DEF Pipe!Next, Objects
<1> QED
    BY <1>6, <1>7

\* A woken get() that finds a reply takes the head of the pipe for its request.
LEMMA ResumeRefines ==
    ASSUME TypeInv, Waiters, NEW o \in Objects, Resume(o), UNCHANGED (server = "up")
    PROVE  Pipe!Next \/ UNCHANGED Pipe!vars
<1> DEFINE r == Head(woken[o])
<1>1. r \in Requests /\ request[r].status = "waiting" /\ request[r].obj = o
    <2>1. woken[o] \in Seq(Requests) /\ woken[o] # << >>
        BY DEF Resume, TypeInv, Queues
    <2>2. r \in Requests /\ Contains(woken[o], r)
        BY <2>1, ContainsHeadTail, HeadTailProperties
    <2> QED
        BY <2>2, WaitersOf
<1>2. UNCHANGED <<inbound, loop, sent>>
    BY DEF Resume
<1>3. CASE outbound[o] # << >>
    <2>1. /\ outbound'[o] = Tail(outbound[o])
          /\ \A p \in Objects : p # o => outbound'[p] = outbound[p]
          /\ request' = [request EXCEPT ![r] =
                [obj |-> o, got |-> Head(outbound[o]), status |-> "ok"]]
        BY <1>3 DEF Resume, Answered, TypeInv, Queues
    <2> HIDE DEF r
    <2>2. /\ OnTheWay(o) # << >> /\ Head(OnTheWay(o)) = Head(outbound[o])
          /\ Tail(OnTheWay(o)) = Tail(outbound[o]) \o (Hand(o) \o inbound[o])
        BY <1>3, PipeTypes, GotFromHead DEF OnTheWay
    <2>3. OnTheWay(o)' = Tail(OnTheWay(o))
        BY <1>2, <2>1, <2>2 DEF OnTheWay, Hand
    <2>4. Pipes' = [Pipes EXCEPT ![o] = Tail(Pipes[o])]
        BY <1>2, <2>1, <2>3, OnePipe, PipeTypes
    <2>5. /\ Pipes[o] # << >>
          /\ request' = [request EXCEPT ![r] = [obj |-> o, got |-> Head(Pipes[o]), status |-> "ok"]]
        BY <2>1, <2>2, PipeTypes
    <2>6. Pipe!Take(r)
        BY <1>1, <1>2, <2>4, <2>5 DEF Pipe!Take, Pipes
    <2> QED
        BY <1>1, <2>6 DEF Pipe!Next, Requests
<1>4. CASE outbound[o] = << >>
    <2>1. UNCHANGED <<outbound, request>>
        BY <1>4 DEF Resume
    <2>2. Pipes' = Pipes
        BY <1>2, <2>1, OnTheWaySame, PipesSame
    <2> QED
        BY <1>2, <2>1, <2>2 DEF Pipe!vars, Pipes
<1> QED
    BY <1>3, <1>4

\* The persona takes a message, or answers the one in hand: nothing moves.
LEMMA LoopKeepsPipe ==
    ASSUME TypeInv, NEW o \in Objects, LoopTake(o) \/ LoopAnswer(o)
    PROVE  Pipes' = Pipes
<1>1. \A p \in Objects : p # o => OnTheWay(p)' = OnTheWay(p)
    <2> SUFFICES ASSUME NEW p \in Objects, p # o
                 PROVE  /\ inbound'[p] = inbound[p] /\ outbound'[p] = outbound[p]
                        /\ loop'[p].msg = loop[p].msg
        BY OnTheWaySame
    <2>1. CASE LoopTake(o)
        BY <2>1 DEF LoopTake, TypeInv, Queues, LoopTypes
    <2>2. CASE LoopAnswer(o)
        BY <2>2 DEF LoopAnswer, TypeInv, Queues, LoopTypes
    <2> QED
        BY <2>1, <2>2
<1>2. CASE LoopTake(o)
    <2>1. /\ inbound[o] # << >> /\ inbound'[o] = Tail(inbound[o]) /\ outbound'[o] = outbound[o]
          /\ loop'[o].msg = Head(inbound[o]) /\ loop[o].msg = None
        BY <1>2 DEF LoopTake, TypeInv, Queues, LoopTypes
    <2>2. Head(inbound[o]) \in Requests /\ inbound[o] \in Seq(Requests)
        BY <2>1, PipeTypes, HeadTailProperties
    <2>3. Hand(o) = << >> /\ Hand(o)' = <<Head(inbound[o])>>
        BY <2>1, <2>2, Numbers DEF Hand
    <2>4. (Hand(o) \o inbound[o])' = Hand(o) \o inbound[o]
        BY <2>1, <2>2, <2>3, HeadAndTail, ConcatEmptySeq
    <2> QED
        BY <1>1, <2>1, <2>4, PipesSame DEF OnTheWay
<1>3. CASE LoopAnswer(o)
    <2>1. /\ loop[o].pc = "chat" /\ loop[o].msg # None /\ loop[o].msg \in Requests
          /\ inbound' = inbound /\ outbound'[o] = Append(outbound[o], loop[o].msg)
          /\ loop'[o].msg = None
        BY <1>3 DEF LoopAnswer, TypeInv, Queues, LoopTypes
    <2>2. Hand(o) = <<loop[o].msg>> /\ Hand(o)' = << >>
        BY <2>1 DEF Hand
    <2>3. Append(outbound[o], loop[o].msg) = outbound[o] \o <<loop[o].msg>>
        BY <2>1, PipeTypes, AppendIsConcat
    <2>4. << >> \o inbound[o] = inbound[o]
        BY PipeTypes, ConcatEmptySeq
    <2>5. (outbound[o] \o Hand(o)) \o inbound[o] = outbound[o] \o (Hand(o) \o inbound[o])
        <3>1. outbound[o] \in Seq(Requests) /\ Hand(o) \in Seq(Requests) /\ inbound[o] \in Seq(Requests)
            BY PipeTypes
        <3> QED
            BY <3>1, RequestsGroup, Zenon
    <2>6. OnTheWay(o)' = OnTheWay(o)
        BY <2>1, <2>2, <2>3, <2>4, <2>5 DEF OnTheWay
    <2> QED
        BY <1>1, <2>6, PipesSame
<1> QED
    BY <1>2, <1>3

\* The shutdown costs at most the message in the hand of one object.
LEMMA ShutdownRefines ==
    ASSUME TypeInv, ShutdownBegin
    PROVE  Pipe!Next
<1>1. /\ (server = "up") = TRUE /\ (server' = "up") = FALSE
      /\ \A r \in Requests : request[r].status # "waiting"
      /\ UNCHANGED <<inbound, outbound, sent, request>>
    BY DEF ShutdownBegin, Quiet, busVars, requestVars
<1>2. \/ Pipes' = Pipes
      \/ \E o \in Objects : \E i \in DOMAIN Pipes[o] :
            Pipes' = [Pipes EXCEPT ![o] = RemoveAt(Pipes[o], i)]
    <2>1. CASE cleaner.pc # "closing"
        <3>1. loop' = loop
            BY <2>1 DEF ShutdownBegin
        <3> QED
            BY <1>1, <3>1, OnTheWaySame, PipesSame
    <2>2. CASE cleaner.pc = "closing"
        <3>1. PICK o \in Objects : o = cleaner.obj
            BY <2>2 DEF TypeInv, CleanerTypes
        <3>2. /\ loop'[o].msg = None
              /\ \A p \in Objects : p # o => loop'[p] = loop[p]
            BY <2>2, <3>1 DEF ShutdownBegin, TypeInv, LoopTypes
        <3>3. CASE loop[o].msg = None
            <4>1. \A p \in Objects : loop'[p].msg = loop[p].msg
                BY <3>2, <3>3
            <4> QED
                BY <1>1, <4>1, OnTheWaySame, PipesSame
        <3>4. CASE loop[o].msg # None
            <4>1. loop[o].msg \in Requests
                BY <3>4 DEF TypeInv, LoopTypes
            <4>2. /\ outbound[o] \in Seq(Requests) /\ inbound[o] \in Seq(Requests)
                  /\ Pipes[o] = OnTheWay(o)
                BY PipeTypes
            <4>3. Pipes[o] = outbound[o] \o (<<loop[o].msg>> \o inbound[o])
                BY <3>4, <4>2 DEF OnTheWay, Hand
            <4>4. OnTheWay(o)' = outbound[o] \o inbound[o]
                <5>1. Hand(o)' = << >>
                    BY <3>2 DEF Hand
                <5>2. << >> \o inbound[o] = inbound[o]
                    BY <4>2, ConcatEmptySeq
                <5> QED
                    BY <1>1, <5>1, <5>2 DEF OnTheWay
            <4>5. PICK i \in DOMAIN Pipes[o] : RemoveAt(Pipes[o], i) = outbound[o] \o inbound[o]
                <5>1. /\ Len(outbound[o]) + 1 \in DOMAIN (outbound[o] \o (<<loop[o].msg>> \o inbound[o]))
                      /\ RemoveAt(outbound[o] \o (<<loop[o].msg>> \o inbound[o]), Len(outbound[o]) + 1)
                            = outbound[o] \o inbound[o]
                    BY <4>1, <4>2, LostFromHand, Zenon
                <5> QED
                    BY <4>3, <5>1, Zenon
            <4>6. Pipes' = [Pipes EXCEPT ![o] = RemoveAt(Pipes[o], i)]
                <5>1. OnTheWay(o)' = RemoveAt(Pipes[o], i)
                    BY <4>4, <4>5, Zenon
                <5>2. \A p \in Objects : p # o => /\ inbound'[p] = inbound[p] /\ outbound'[p] = outbound[p]
                                                 /\ loop'[p].msg = loop[p].msg
                    BY <1>1, <3>2
                <5> QED
                    BY <5>1, <5>2, OnePipe, Zenon
            <4> QED
                BY <4>6
        <3> QED
            BY <3>3, <3>4
    <2> QED
        BY <2>1, <2>2
<1>3. Pipe!Stop
    BY <1>1, <1>2, Zenon DEF Pipe!Stop, Pipe!RemoveAt, RemoveAt, Pipes, Objects, Requests
<1> QED
    BY <1>3 DEF Pipe!Next

LEMMA PipeStep ==
    ASSUME TypeInv, Waiters, [Next]_vars
    PROVE  [Pipe!Next]_Pipe!vars
<1>1. CASE ShutdownBegin
    BY <1>1, ShutdownRefines
<1>2. CASE ~ShutdownBegin
    <2>1. (server' = "up") = (server = "up")
        BY <1>2, ServerSteps
    <2>2. ASSUME NEW s \in Sids, Send(s) PROVE Pipe!Next
        BY <2>1, <2>2, SendRefines
    <2>3. ASSUME NEW o \in Objects, Resume(o) PROVE [Pipe!Next]_Pipe!vars
        BY <2>1, <2>3, ResumeRefines
    <2>4. ASSUME NEW o \in Objects, LoopTake(o) \/ LoopAnswer(o) PROVE UNCHANGED Pipe!vars
        <3>1. Pipes' = Pipes
            BY <2>4, LoopKeepsPipe
        <3>2. sent' = sent /\ request' = request
            BY <2>4 DEF LoopTake, LoopAnswer, requestVars
        <3> QED
            BY <2>1, <3>1, <3>2 DEF Pipe!vars, Pipes
    <2>5. ASSUME NEW r \in Requests, RequestTimeout(r) PROVE Pipe!Next
        <3>1. /\ request[r].status = "waiting"
              /\ request' = [request EXCEPT ![r].status = "timeout"]
              /\ UNCHANGED <<inbound, outbound, loop, sent>>
            BY <2>5 DEF RequestTimeout
        <3>2. Pipes' = Pipes
            BY <3>1, OnTheWaySame, PipesSame
        <3>3. Pipe!GiveUp(r)
            BY <2>1, <3>1, <3>2 DEF Pipe!GiveUp, Pipes
        <3> QED
            BY <3>3 DEF Pipe!Next, Requests
    <2>6. CASE /\ UNCHANGED <<inbound, outbound, getters, woken, sent, request, overlapped>>
               /\ \A o \in Objects : loop'[o].msg = loop[o].msg
        <3>1. Pipes' = Pipes
            BY <2>6, OnTheWaySame, PipesSame
        <3> QED
            BY <2>1, <2>6, <3>1 DEF Pipe!vars, Pipes
    <2> QED
        BY <1>2, <2>2, <2>3, <2>4, <2>5, <2>6, BusSteps
<1> QED
    BY <1>1, <1>2

-----------------------------------------------------------------------------
(* Whose reply a request returns. *)

LEMMA SentToFinite ==
    ASSUME NEW o, NEW a \in Nat, NEW b \in Nat
    PROVE  /\ IsFiniteSet(SentTo(o, a, b)) /\ Cardinality(SentTo(o, a, b)) \in Nat
           /\ \A S \in SUBSET SentTo(o, a, b) : IsFiniteSet(S) /\ Cardinality(S) \in Nat
<1>1. IsFiniteSet(a..b)
    BY FS_Interval
<1>2. SentTo(o, a, b) \in SUBSET (a..b)
    BY DEF SentTo
<1>3. \A S \in SUBSET (a..b) : IsFiniteSet(S)
    BY <1>1, FS_Subset
<1>4. \A S \in SUBSET SentTo(o, a, b) : IsFiniteSet(S)
    BY <1>2, <1>3
<1> QED
    BY <1>2, <1>3, <1>4, FS_CardinalityType

LEMMA RequestsFinite ==
    \A S \in SUBSET Requests : IsFiniteSet(S) /\ Cardinality(S) \in Nat
<1>1. IsFiniteSet(Requests)
    BY Numbers, FS_Interval DEF Requests
<1>2. \A S \in SUBSET Requests : IsFiniteSet(S)
    BY <1>1, FS_Subset
<1> QED
    BY <1>2, FS_CardinalityType

LEMMA InLineInit == Init => InLine
<1> SUFFICES ASSUME Init PROVE InLine
    OBVIOUS
<1> USE Numbers
<1>1. \A o \in Objects : OnTheWay(o) = << >>
    BY DEF Init, OnTheWay, Hand
<1>2. \A o \in Objects : Expired(o) = {} /\ Pending(o) = {}
    BY DEF Init, Expired, Pending
<1>3. \A o \in Objects : LastMessages(o)
    <2>1. Len(<< >>) = 0 /\ 1..0 = {}
        OBVIOUS
    <2>2. Cardinality({}) + Cardinality({}) = 0
        BY FS_EmptySet
    <2> QED
        BY <1>1, <1>2, <2>1, <2>2 DEF LastMessages
<1>4. \A r \in Requests : Late(r)
    BY DEF Init, Late
<1> QED
    BY <1>2, <1>3, <1>4 DEF Init, InLine, InLineAt

\* The requests to p that have been sent are left alone.
Aside(p) ==
    \A q \in Requests :
       \/ request'[q] = request[q]
       \/ (request[q].obj # p \/ request[q].status = "unsent") /\ request'[q].obj # p

LEMMA AsideSame ==
    ASSUME TypeInv, NEW p \in Objects, Aside(p)
    PROVE  /\ Pending(p)' = Pending(p) /\ Expired(p)' = Expired(p)
           /\ \A a, b \in Nat : 1 <= a /\ b <= sent =>
                 {q \in a..b : request'[q].obj = p} = SentTo(p, a, b)
<1>1. Pending(p)' = Pending(p)
    BY DEF Pending, Aside
<1>2. Expired(p)' = Expired(p)
    BY DEF Expired, Aside
<1>3. ASSUME NEW a \in Nat, NEW b \in Nat, 1 <= a, b <= sent
      PROVE  {q \in a..b : request'[q].obj = p} = SentTo(p, a, b)
    <2>1. \A q \in a..b : q \in Requests /\ q <= sent
        BY <1>3, Numbers DEF TypeInv, Requests
    <2>2. \A q \in a..b : request[q].status # "unsent"
        BY <2>1 DEF TypeInv
    <2> QED
        BY <2>1, <2>2 DEF SentTo, Aside
<1> QED
    BY <1>1, <1>2, <1>3

LEMMA OnTheWayTyped == ASSUME TypeInv, NEW o \in Objects PROVE OnTheWay(o) \in Seq(Requests)
<1>1. outbound[o] \in Seq(Requests) /\ Hand(o) \o inbound[o] \in Seq(Requests)
    BY PipeTypes
<1> QED
    BY <1>1, ConcatProperties DEF OnTheWay

\* An object the step has nothing to do with.
LEMMA InLineSame ==
    ASSUME TypeInv, NEW p \in Objects, InLineAt(p), Aside(p), OnTheWay(p)' = OnTheWay(p),
           p \in overlapped => p \in overlapped', (server' = "up") = (server = "up"),
           sent' = sent \/ (sent' = sent + 1 /\ request'[sent + 1].obj # p)
    PROVE  InLineAt(p)'
<1>0. sent \in Nat /\ OnTheWay(p) \in Seq(Requests)
    BY Numbers, OnTheWayTyped DEF TypeInv
<1>1. Pending(p)' = Pending(p) /\ Expired(p)' = Expired(p)
    BY AsideSame
<1>2. ASSUME NEW a \in Nat, 1 <= a PROVE SentTo(p, a, sent)' = SentTo(p, a, sent)
    <2>1. {q \in a..sent : request'[q].obj = p} = SentTo(p, a, sent)
        BY <1>0, <1>2, AsideSame
    <2>2. CASE sent' = sent
        BY <2>1, <2>2 DEF SentTo
    <2>3. CASE sent' = sent + 1 /\ request'[sent + 1].obj # p
        <3>1. \A q : q \in a..(sent + 1) <=> q \in a..sent \/ (q = sent + 1 /\ a <= sent + 1)
            BY <1>0, <1>2
        <3>2. {q \in a..(sent + 1) : request'[q].obj = p} = {q \in a..sent : request'[q].obj = p}
            BY <2>3, <3>1
        <3> QED
            BY <2>1, <2>3, <3>2 DEF SentTo
    <2> QED
        BY <2>2, <2>3
<1>3. \A w \in Pending(p) : w + 1 \in Nat /\ 1 <= w + 1
    BY Numbers DEF Pending, Requests
<1>4. LastMessages(p) => LastMessages(p)'
    <2> SUFFICES ASSUME LastMessages(p) PROVE LastMessages(p)'
        OBVIOUS
    <2>1. PICK P \in Seq(Requests) : P = OnTheWay(p) /\ P = OnTheWay(p)'
        BY <1>0
    <2>2. ASSUME NEW i \in 1..Len(P)
          PROVE  /\ P[i] <= sent' /\ request'[P[i]].obj = p
                 /\ Cardinality(SentTo(p, P[i], sent)') = Len(P) - i + 1
        <3>1. PICK m \in Requests : m = P[i]
            OBVIOUS
        <3>2. m <= sent /\ request[m].obj = p /\ Cardinality(SentTo(p, m, sent)) = Len(P) - i + 1
            BY <2>1, <3>1 DEF LastMessages
        <3>3. m \in Nat /\ 1 <= m /\ request[m].status # "unsent"
            BY <3>2, Numbers DEF TypeInv, Requests
        <3>4. request'[m].obj = p
            BY <3>2, <3>3 DEF Aside
        <3>5. SentTo(p, m, sent)' = SentTo(p, m, sent)
            BY <1>2, <3>3
        <3>6. m <= sent'
            BY <1>0, <3>2, <3>3
        <3>7. P[i] <= sent' /\ request'[P[i]].obj = p
            BY <3>1, <3>4, <3>6
        <3>8. SentTo(p, P[i], sent)' = SentTo(p, m, sent)
            BY <3>1, <3>5
        <3> QED
            BY <3>2, <3>7, <3>8
    <2>3. Len(P) = Cardinality(Expired(p)) + Cardinality(Pending(p))
        BY <2>1 DEF LastMessages
    <2> QED
        BY <1>1, <2>1, <2>2, <2>3 DEF LastMessages
<1> QED
    BY <1>1, <1>2, <1>3, <1>4 DEF InLineAt

\* A request that has returned, when none before it to its session changes.
LEMMA LateSame ==
    ASSUME TypeInv, NEW r \in Requests, NEW o, o = request[r].obj, Late(r), request'[r] = request[r],
           o \in overlapped => o \in overlapped',
           \A q \in 1..r : \/ request'[q] = request[q]
                           \/ request[q].obj # o /\ request'[q].obj # o
    PROVE  Late(r)'
<1> SUFFICES ASSUME request[r].status = "ok", o \notin overlapped PROVE Late(r)'
    BY DEF Late
<1>1. PICK g \in Requests : g = request[r].got /\ g = request'[r].got
    BY DEF TypeInv, RequestTypes
<1>2. /\ g <= r /\ request[g].obj = o
      /\ Cardinality(SentTo(o, g + 1, r)) =
             Cardinality({q \in SentTo(o, 1, r) : request[q].status = "timeout"})
    BY <1>1 DEF Late
<1>3. g \in 1..r /\ \A q \in (g + 1)..r : q \in 1..r
    BY <1>1, <1>2, Numbers DEF Requests
<1>4. SentTo(o, g + 1, r)' = SentTo(o, g + 1, r)
    BY <1>3 DEF SentTo
<1>5. {q \in SentTo(o, 1, r)' : request'[q].status = "timeout"}
        = {q \in SentTo(o, 1, r) : request[q].status = "timeout"}
    BY DEF SentTo
<1>6. request'[g].obj = o
    BY <1>2, <1>3
<1> QED
    BY <1>1, <1>2, <1>4, <1>5, <1>6 DEF Late

\* The requests to o among those from a to b, the first of them, and one more.
Of(f, o, a, b) == {q \in a..b : f[q].obj = o}

LEMMA CountedFinite ==
    ASSUME NEW f, NEW o, NEW a \in Nat, NEW b \in Nat
    PROVE  Cardinality(Of(f, o, a, b)) \in Nat
<1>1. IsFiniteSet(a..b)
    BY FS_Interval
<1> QED
    BY <1>1, FS_Subset, FS_CardinalityType DEF Of

LEMMA FirstCounted ==
    ASSUME NEW f, NEW o, NEW m \in Nat, NEW r \in Nat, m <= r, f[m].obj = o
    PROVE  Cardinality(Of(f, o, m, r)) = Cardinality(Of(f, o, m + 1, r)) + 1
<1> DEFINE S == {q \in (m + 1)..r : f[q].obj = o}
<1>1. IsFiniteSet((m + 1)..r)
    BY FS_Interval
<1>2. IsFiniteSet(S) /\ Cardinality(S) \in Nat
    BY <1>1, FS_Subset, FS_CardinalityType
<1>3. m \notin S
    OBVIOUS
<1>4. {q \in m..r : f[q].obj = o} = S \union {m}
    <2>1. \A q : q \in m..r <=> q = m \/ q \in (m + 1)..r
        OBVIOUS
    <2> QED
        BY <2>1
<1> HIDE DEF S
<1>5. Cardinality(S \union {m}) = Cardinality(S) + 1
    BY <1>2, <1>3, FS_AddElement
<1> QED
    BY <1>4, <1>5 DEF S, Of

LEMMA LastCounted ==
    ASSUME NEW f, NEW g, NEW o, NEW a \in Nat, NEW n \in Nat, a <= n + 1, g[n + 1].obj = o,
           \A q \in a..n : g[q] = f[q]
    PROVE  Cardinality(Of(g, o, a, n + 1)) = Cardinality(Of(f, o, a, n)) + 1
<1> DEFINE S == {q \in a..n : f[q].obj = o}
<1>1. IsFiniteSet(a..n)
    BY FS_Interval
<1>2. IsFiniteSet(S) /\ Cardinality(S) \in Nat
    BY <1>1, FS_Subset, FS_CardinalityType
<1>3. n + 1 \notin S
    OBVIOUS
<1>4. {q \in a..(n + 1) : g[q].obj = o} = S \union {n + 1}
    <2>1. \A q : q \in a..(n + 1) <=> q = n + 1 \/ q \in a..n
        OBVIOUS
    <2> QED
        BY <2>1
<1> HIDE DEF S
<1>5. Cardinality(S \union {n + 1}) = Cardinality(S) + 1
    BY <1>2, <1>3, FS_AddElement
<1> QED
    BY <1>4, <1>5 DEF S, Of

\* A message is put in by a request that waits, or takes an older one.
LEMMA SendLine ==
    ASSUME TypeInv, TypeInv', NEW o \in Objects, NEW n \in Requests, n = sent + 1, sent' = n,
           request'[n].obj = o, \A q \in Requests : q # n => request'[q] = request[q],
           InLineAt(o), server = "up", server' = "up",
           o \notin overlapped' => o \notin overlapped /\ Pending(o) = {},
           \/ request'[n].status = "waiting" /\ OnTheWay(o)' = Append(OnTheWay(o), n)
           \/ /\ OnTheWay(o) # << >>
              /\ request'[n].status = "ok" /\ request'[n].got = Head(OnTheWay(o))
              /\ OnTheWay(o)' = Append(Tail(OnTheWay(o)), n)
    PROVE  InLineAt(o)' /\ Late(n)'
<1> SUFFICES ASSUME o \notin overlapped', LastMessages(o), Pending(o) = {}
             PROVE  InLineAt(o)' /\ Late(n)'
    BY DEF InLineAt, Late
<1>0. sent \in Nat /\ n \in Nat /\ 1 <= n /\ request[n].status = "unsent"
    <2>1. sent \in Nat /\ n \in Nat /\ 1 <= n /\ ~(n <= sent)
        BY Numbers DEF TypeInv, Requests
    <2> QED
        BY <2>1 DEF TypeInv
<1>1. PICK P \in Seq(Requests) : P = OnTheWay(o)
    BY OnTheWayTyped
<1>2. PICK Q : Q = OnTheWay(o)'
    OBVIOUS
<1>3. Cardinality(Expired(o)) \in Nat /\ IsFiniteSet(Expired(o))
    BY RequestsFinite DEF Expired
<1>4. Len(P) = Cardinality(Expired(o))
    <2>1. Cardinality(Pending(o)) = 0
        BY FS_EmptySet
    <2> QED
        BY <1>1, <1>3, <2>1 DEF LastMessages
<1>5. Expired(o)' = Expired(o)
    BY <1>0 DEF Expired
<1>6. \A i \in 1..Len(P) : /\ P[i] \in Requests /\ P[i] <= sent /\ P[i] \in Nat /\ 1 <= P[i]
                           /\ request[P[i]].obj = o
                           /\ Cardinality(SentTo(o, P[i], sent)) = Len(P) - i + 1
    <2>1. \A i \in 1..Len(P) : /\ P[i] <= sent /\ request[P[i]].obj = o
                               /\ Cardinality(SentTo(o, P[i], sent)) = Len(P) - i + 1
        BY <1>1 DEF LastMessages
    <2>2. \A i \in 1..Len(P) : P[i] \in Requests
        OBVIOUS
    <2>3. \A m \in Requests : m \in Nat /\ 1 <= m
        BY Numbers DEF Requests
    <2> QED
        BY <2>1, <2>2, <2>3
<1>7. \A i \in 1..Len(P) : /\ P[i] <= n /\ request'[P[i]].obj = o
                           /\ Cardinality(Of(request', o, P[i], n)) = Len(P) - i + 2
    <2> SUFFICES ASSUME NEW i \in 1..Len(P)
                 PROVE  /\ P[i] <= n /\ request'[P[i]].obj = o
                        /\ Cardinality(Of(request', o, P[i], n)) = Len(P) - i + 2
        OBVIOUS
    <2>1. PICK m \in Requests : m = P[i]
        BY <1>6
    <2>2. m \in Nat /\ 1 <= m /\ m <= sent /\ request[m].obj = o
          /\ Cardinality(Of(request, o, m, sent)) = Len(P) - i + 1
        BY <1>6, <2>1 DEF SentTo, Of
    <2>3. \A q \in m..sent : request'[q] = request[q]
        <3>1. \A q \in m..sent : q \in Requests /\ q # n
            BY <1>0, <2>2, Numbers DEF TypeInv, Requests
        <3> QED
            BY <3>1
    <2>4. m <= sent + 1 /\ request'[sent + 1].obj = o
        BY <1>0, <2>2
    <2>5. Cardinality(Of(request', o, m, sent + 1)) = Cardinality(Of(request, o, m, sent)) + 1
        <3>1. m \in Nat /\ sent \in Nat
            BY <1>0, <2>2
        <3> QED
            BY <2>3, <2>4, <3>1, LastCounted
    <2>6. Len(P) - i + 1 + 1 = Len(P) - i + 2 /\ m <= n /\ request'[m].obj = o
        BY <1>0, <2>2, <2>3, LenProperties
    <2> QED
        BY <2>1, <2>2, <2>5, <2>6
<1>8. Of(request', o, n, n) = {n} /\ Cardinality({n}) = 1
    <2>1. Of(request', o, n, n) = {n}
        BY <1>0 DEF Of
    <2> QED
        BY <2>1, FS_Singleton
<1>9. \A w \in Pending(o)' : w = n
    BY DEF Pending
<1>10. \A w \in Pending(o)' : SentTo(o, w + 1, sent)' = {}
    BY <1>0, <1>9 DEF SentTo
<1>11. CASE request'[n].status = "waiting" /\ Q = Append(P, n)
    <2>1. Pending(o)' = {n}
        BY <1>9, <1>11 DEF Pending
    <2>2. Len(Q) = Cardinality(Expired(o)') + Cardinality(Pending(o)')
        BY <1>1, <1>4, <1>5, <1>8, <1>11, <2>1, AppendProperties
    <2>3. ASSUME NEW i \in 1..Len(Q)
          PROVE  /\ Q[i] <= n /\ request'[Q[i]].obj = o
                 /\ Cardinality(Of(request', o, Q[i], n)) = Len(Q) - i + 1
        <3>1. Len(Q) = Len(P) + 1 /\ Len(P) \in Nat
            BY <1>11, AppendProperties, LenProperties
        <3>2. CASE i = Len(P) + 1
            <4>1. Q[i] = n
                BY <1>11, <3>2, AppendProperties
            <4>2. Len(Q) - i + 1 = 1
                BY <3>1, <3>2
            <4>3. n <= n /\ request'[n].obj = o
                BY <1>0
            <4>4. Cardinality(Of(request', o, n, n)) = 1
                BY <1>8, Zenon
            <4> QED
                BY <4>1, <4>2, <4>3, <4>4
        <3>3. CASE i \in 1..Len(P)
            <4>1. Q[i] = P[i]
                BY <1>11, <3>3, AppendProperties
            <4>2. Len(Q) - i + 1 = Len(P) - i + 2
                BY <3>1, <3>3
            <4> QED
                BY <1>7, <3>3, <4>1, <4>2
        <3> QED
            BY <3>1, <3>2, <3>3
    <2>4. LastMessages(o)'
        BY <1>2, <2>2, <2>3 DEF LastMessages, SentTo, Of
    <2>5. Late(n)'
        BY <1>11 DEF Late
    <2> QED
        BY <1>10, <2>4, <2>5 DEF InLineAt
<1>12. CASE P # << >> /\ request'[n].status = "ok" /\ request'[n].got = Head(P)
            /\ Q = Append(Tail(P), n)
    <2>1. Len(P) \in Nat /\ Len(P) >= 1 /\ Head(P) = P[1] /\ Tail(P) \in Seq(Requests)
          /\ Len(Tail(P)) = Len(P) - 1 /\ \A i \in 1..(Len(P) - 1) : Tail(P)[i] = P[i + 1]
        BY <1>12, HeadTailProperties, LenProperties
    <2>2. Len(Q) = Len(P) /\ Q[Len(P)] = n /\ \A i \in 1..(Len(P) - 1) : Q[i] = P[i + 1]
        <3>1. Len(Q) = Len(Tail(P)) + 1 /\ Q[Len(Tail(P)) + 1] = n
              /\ \A i \in 1..Len(Tail(P)) : Q[i] = Tail(P)[i]
            BY <1>12, <2>1, AppendProperties
        <3> QED
            BY <2>1, <3>1
    <2>3. Pending(o)' = {}
        BY <1>9, <1>12 DEF Pending
    <2>4. Len(Q) = Cardinality(Expired(o)') + Cardinality(Pending(o)')
        BY <1>3, <1>4, <1>5, <2>2, <2>3, FS_EmptySet
    <2>5. ASSUME NEW i \in 1..Len(Q)
          PROVE  /\ Q[i] <= n /\ request'[Q[i]].obj = o
                 /\ Cardinality(Of(request', o, Q[i], n)) = Len(Q) - i + 1
        <3>1. CASE i = Len(P)
            <4>1. Q[i] = n /\ Len(Q) - i + 1 = 1
                BY <2>1, <2>2, <3>1
            <4>2. n <= n /\ request'[n].obj = o
                BY <1>0
            <4>3. Cardinality(Of(request', o, n, n)) = 1
                BY <1>8, Zenon
            <4> QED
                BY <4>1, <4>2, <4>3
        <3>2. CASE i \in 1..(Len(P) - 1)
            <4>1. Q[i] = P[i + 1] /\ i + 1 \in 1..Len(P) /\ Len(P) - (i + 1) + 2 = Len(Q) - i + 1
                BY <2>1, <2>2, <3>2
            <4> QED
                BY <1>7, <4>1
        <3> QED
            <4>1. Len(P) \in Nat /\ i \in 1..Len(P)
                BY <2>1, <2>2
            <4>2. i = Len(P) \/ i \in 1..(Len(P) - 1)
                BY <4>1
            <4> QED
                BY <3>1, <3>2, <4>2
    <2>6. LastMessages(o)'
        BY <1>2, <2>4, <2>5 DEF LastMessages, SentTo, Of
    <2>7. PICK g \in Requests : g = P[1] /\ g = request'[n].got
        BY <1>6, <1>12, <2>1
    <2>8. /\ g <= n /\ request'[g].obj = o /\ g \in Nat
          /\ Cardinality(Of(request', o, g, n)) = Len(P) + 1
        BY <1>6, <1>7, <2>1, <2>7
    <2>9. Cardinality(Of(request', o, g, n))
            = Cardinality(Of(request', o, g + 1, n)) + 1
        BY <1>0, <2>8, FirstCounted
    <2>10. Cardinality(Of(request', o, g + 1, n)) \in Nat
        <3>1. g + 1 \in Nat
            BY <2>8
        <3> QED
            BY <1>0, <3>1, CountedFinite
    <2>11. Cardinality(Of(request', o, g + 1, n)) = Len(P)
        BY <2>1, <2>8, <2>9, <2>10
    <2>12. {q \in SentTo(o, 1, n)' : request'[q].status = "timeout"} = Expired(o)
        <3>1. \A q \in Requests : request'[q].status = "timeout" => q \in 1..n
            BY <1>0, Numbers DEF TypeInv, Requests
        <3>2. 1..n \subseteq Requests
            BY <1>0, Numbers DEF Requests
        <3>3. {q \in SentTo(o, 1, n)' : request'[q].status = "timeout"} = Expired(o)'
            BY <3>1, <3>2 DEF SentTo, Expired
        <3> QED
            BY <1>5, <3>3
    <2>13. Late(n)'
        <3>1. request'[n].obj = o /\ request'[n].got = g
            BY <2>7
        <3>2. SentTo(o, g + 1, n)' = Of(request', o, g + 1, n)
            BY DEF SentTo, Of
        <3>3. Cardinality(SentTo(o, g + 1, n)')
                = Cardinality({q \in SentTo(o, 1, n)' : request'[q].status = "timeout"})
            BY <1>4, <2>11, <2>12, <3>2
        <3> QED
            BY <2>8, <3>1, <3>3 DEF Late
    <2> QED
        BY <1>10, <2>6, <2>13 DEF InLineAt
<1> QED
    BY <1>1, <1>2, <1>11, <1>12

\* The request that waits on an object is the last to it, and the only one.
LEMMA LastToWait ==
    ASSUME TypeInv, NEW o \in Objects, NEW r \in Requests, InLineAt(o), o \notin overlapped,
           request[r].status = "waiting", request[r].obj = o
    PROVE  /\ server = "up" /\ LastMessages(o) /\ Pending(o) = {r} /\ r <= sent
           /\ \A q \in Requests : request[q].obj = o /\ request[q].status # "unsent" => q <= r
<1>1. r \in Pending(o)
    BY DEF Pending
<1>2. server = "up" /\ LastMessages(o) /\ \A w \in Pending(o) : SentTo(o, w + 1, sent) = {}
    BY <1>1 DEF InLineAt
<1>3. \A q \in Requests : request[q].status # "unsent" => q <= sent
    BY DEF TypeInv
<1>4. ASSUME NEW w \in Pending(o), NEW q \in Requests, request[q].obj = o, request[q].status # "unsent"
      PROVE  q <= w
    <2>1. w \in Nat /\ q \in Nat /\ sent \in Nat /\ q <= sent
        BY <1>3, <1>4, Numbers DEF TypeInv, Pending
    <2>2. SUFFICES ASSUME ~(q <= w) PROVE FALSE
        OBVIOUS
    <2>3. q \in (w + 1)..sent
        BY <2>1, <2>2
    <2>4. q \in SentTo(o, w + 1, sent)
        BY <1>4, <2>3 DEF SentTo
    <2> QED
        BY <1>2, <2>4
<1>5. \A w \in Pending(o) : w \in Requests /\ w \in Nat /\ request[w].obj = o
                            /\ request[w].status # "unsent"
    BY Numbers DEF Pending
<1>6. \A w \in Pending(o) : w <= r /\ r <= w
    BY <1>1, <1>4, <1>5
<1>7. Pending(o) = {r}
    <2>1. \A w \in Pending(o) : w = r
        <3> SUFFICES ASSUME NEW w \in Pending(o) PROVE w = r
            OBVIOUS
        <3>1. w \in Nat /\ r \in Nat /\ w <= r /\ r <= w
            BY <1>1, <1>5, <1>6
        <3> QED
            BY <3>1
    <2> QED
        BY <1>1, <2>1
<1> QED
    BY <1>1, <1>2, <1>3, <1>4, <1>7

\* The requests that returned before it are not concerned.
LEMMA OthersLate ==
    ASSUME TypeInv, NEW o \in Objects, NEW r \in Requests, InLineAt(o),
           request[r].status = "waiting", request[r].obj = o, request'[r].obj = o,
           overlapped' = overlapped,
           \A q \in Requests : q # r => request'[q] = request[q]
    PROVE  \A q \in Requests : q # r /\ Late(q) => Late(q)'
<1> SUFFICES ASSUME NEW q \in Requests, q # r, Late(q) PROVE Late(q)'
    OBVIOUS
<1>1. PICK p : p = request[q].obj
    OBVIOUS
<1>2. request'[q] = request[q]
    OBVIOUS
<1>3. CASE request[q].status # "ok" \/ p \in overlapped
    BY <1>1, <1>2, <1>3 DEF Late
<1>4. CASE request[q].status = "ok" /\ p \notin overlapped
    <2>1. \A s \in 1..q : s \in Requests
        BY Numbers DEF Requests
    <2>2. ASSUME NEW s \in 1..q
          PROVE  request'[s] = request[s] \/ (request[s].obj # p /\ request'[s].obj # p)
        <3>1. CASE s # r
            BY <2>1, <3>1
        <3>2. CASE s = r /\ p # o
            BY <3>2
        <3>3. CASE s = r /\ p = o
            <4>1. q <= r
                BY <1>1, <1>4, <3>3, LastToWait
            <4>2. q \in Nat /\ r \in Nat /\ r <= q
                BY <3>3, Numbers
            <4> QED
                BY <4>1, <4>2
        <3> QED
            BY <3>1, <3>2, <3>3
    <2> QED
        BY <1>1, <1>2, <2>2, LateSame
<1> QED
    BY <1>3, <1>4

\* The request that waits takes the oldest message.
LEMMA TakeLine ==
    ASSUME TypeInv, NEW o \in Objects, NEW r \in Requests, InLineAt(o),
           request[r].status = "waiting", request[r].obj = o,
           OnTheWay(o) # << >>, OnTheWay(o)' = Tail(OnTheWay(o)),
           request'[r].obj = o, request'[r].status = "ok", request'[r].got = Head(OnTheWay(o)),
           \A q \in Requests : q # r => request'[q] = request[q],
           sent' = sent, overlapped' = overlapped, (server' = "up") = (server = "up")
    PROVE  InLineAt(o)' /\ Late(r)'
<1> SUFFICES ASSUME o \notin overlapped PROVE InLineAt(o)' /\ Late(r)'
    BY DEF InLineAt, Late
<1>0. /\ server = "up" /\ LastMessages(o) /\ Pending(o) = {r} /\ r <= sent
      /\ \A q \in Requests : request[q].obj = o /\ request[q].status # "unsent" => q <= r
    BY LastToWait
<1>1. PICK P \in Seq(Requests) : P = OnTheWay(o)
    BY OnTheWayTyped
<1>2. PICK Q : Q = OnTheWay(o)' /\ Q = Tail(P)
    BY <1>1
<1>3. Cardinality(Expired(o)) \in Nat
    BY RequestsFinite DEF Expired
<1>4. Len(P) = Cardinality(Expired(o)) + 1
    <2>1. Cardinality(Pending(o)) = 1
        <3>1. Cardinality({r}) = 1
            BY FS_Singleton
        <3> QED
            BY <1>0, <3>1, Zenon
    <2> QED
        BY <1>0, <1>1, <1>3, <2>1 DEF LastMessages
<1>5. Expired(o)' = Expired(o) /\ Pending(o)' = {}
    <2>1. Expired(o)' = Expired(o)
        BY DEF Expired
    <2>2. \A q \in Requests : q # r => q \notin Pending(o)
        BY <1>0
    <2> QED
        BY <2>1, <2>2 DEF Pending
<1>6. \A a \in Nat, b \in Nat : SentTo(o, a, b)' = SentTo(o, a, b) \/ ~(1 <= a /\ b <= sent)
    <2> SUFFICES ASSUME NEW a \in Nat, NEW b \in Nat, 1 <= a, b <= sent
                 PROVE  SentTo(o, a, b)' = SentTo(o, a, b)
        OBVIOUS
    <2>1. \A q \in a..b : q \in Requests
        BY Numbers DEF TypeInv, Requests
    <2>2. \A q \in Requests : (request'[q].obj = o) <=> (request[q].obj = o)
        OBVIOUS
    <2> QED
        BY <2>1, <2>2 DEF SentTo
<1>7. sent \in Nat /\ r \in Nat /\ 1 <= r /\ r + 1 \in Nat
    BY Numbers DEF TypeInv, Requests
<1>8. \A i \in 1..Len(P) : /\ P[i] \in Requests /\ P[i] <= sent /\ P[i] \in Nat /\ 1 <= P[i]
                           /\ request[P[i]].obj = o
                           /\ Cardinality(SentTo(o, P[i], sent)) = Len(P) - i + 1
    <2>1. \A i \in 1..Len(P) : /\ P[i] <= sent /\ request[P[i]].obj = o
                               /\ Cardinality(SentTo(o, P[i], sent)) = Len(P) - i + 1
        BY <1>0, <1>1 DEF LastMessages
    <2>2. \A i \in 1..Len(P) : P[i] \in Requests
        OBVIOUS
    <2>3. \A m \in Requests : m \in Nat /\ 1 <= m
        BY Numbers DEF Requests
    <2> QED
        BY <2>1, <2>2, <2>3
<1>9. Len(P) \in Nat /\ Len(P) >= 1 /\ Head(P) = P[1]
      /\ Len(Q) = Len(P) - 1 /\ \A i \in 1..Len(Q) : Q[i] = P[i + 1]
    BY <1>1, <1>2, HeadTailProperties, LenProperties
<1>10. ASSUME NEW i \in 1..Len(Q)
       PROVE  /\ Q[i] <= sent' /\ request'[Q[i]].obj = o
              /\ Cardinality(SentTo(o, Q[i], sent)') = Len(Q) - i + 1
    <2>1. Q[i] = P[i + 1] /\ i + 1 \in 1..Len(P) /\ Len(P) - (i + 1) + 1 = Len(Q) - i + 1
        BY <1>9
    <2>2. PICK m \in Requests : m = Q[i]
        BY <1>8, <2>1
    <2>3. m <= sent /\ request[m].obj = o /\ m \in Nat /\ 1 <= m
          /\ Cardinality(SentTo(o, m, sent)) = Len(Q) - i + 1
        BY <1>8, <2>1, <2>2
    <2>4. SentTo(o, m, sent)' = SentTo(o, m, sent)
        BY <1>6, <1>7, <2>3
    <2>5. SentTo(o, Q[i], sent)' = SentTo(o, m, sent)
        BY <2>2, <2>4
    <2>6. request'[m].obj = o
        BY <2>3
    <2> QED
        BY <2>2, <2>3, <2>5, <2>6
<1>11. LastMessages(o)'
    <2>1. Len(Q) = Cardinality(Expired(o)') + Cardinality(Pending(o)')
        BY <1>3, <1>4, <1>5, <1>9, FS_EmptySet
    <2> QED
        BY <1>2, <1>10, <2>1 DEF LastMessages
<1>12. InLineAt(o)'
    BY <1>5, <1>11 DEF InLineAt
<1>13. PICK g \in Requests : g = P[1] /\ g = request'[r].got
    BY <1>1, <1>8, <1>9
<1>14. g \in Nat /\ 1 <= g /\ g <= sent /\ request[g].obj = o
       /\ Cardinality(SentTo(o, g, sent)) = Len(P)
    BY <1>8, <1>9, <1>13
<1>15. g <= r
    BY <1>0, <1>14 DEF TypeInv
<1>16. SentTo(o, g, sent) = Of(request, o, g, r)
    <2>1. \A q \in g..sent : q \in Requests /\ q \in Nat /\ request[q].status # "unsent"
        BY <1>7, <1>14, Numbers DEF TypeInv, Requests
    <2>2. \A q \in g..sent : request[q].obj = o => q <= r
        BY <1>0, <2>1
    <2>3. \A q : q \in g..r => q \in g..sent
        BY <1>0, <1>7, <1>14
    <2>4. \A q : q \in g..sent /\ q <= r => q \in g..r
        BY <1>7, <1>14
    <2> QED
        BY <2>2, <2>3, <2>4 DEF SentTo, Of
<1>17. Cardinality(Of(request, o, g, r)) = Cardinality(Of(request, o, g + 1, r)) + 1
    BY <1>7, <1>14, <1>15, FirstCounted
<1>18. Cardinality(Of(request, o, g + 1, r)) \in Nat
    <2>1. g + 1 \in Nat
        BY <1>14
    <2> QED
        BY <1>7, <2>1, CountedFinite
<1>19. Cardinality(Of(request, o, g + 1, r)) = Cardinality(Expired(o))
    BY <1>3, <1>4, <1>14, <1>16, <1>17, <1>18
<1>20. SentTo(o, g + 1, r)' = Of(request, o, g + 1, r)
    <2>1. g + 1 \in Nat /\ 1 <= g + 1
        BY <1>14
    <2>2. SentTo(o, g + 1, r)' = SentTo(o, g + 1, r)
        BY <1>0, <1>6, <1>7, <2>1
    <2> QED
        BY <2>2 DEF SentTo, Of
<1>21. {q \in SentTo(o, 1, r)' : request'[q].status = "timeout"} = Expired(o)
    <2>1. \A q \in Requests : request'[q].obj = o /\ request'[q].status = "timeout" => q \in 1..r
        BY <1>0, <1>7, Numbers DEF Requests
    <2>2. 1..r \subseteq Requests
        BY <1>7, Numbers DEF Requests
    <2>3. {q \in SentTo(o, 1, r)' : request'[q].status = "timeout"} = Expired(o)'
        BY <2>1, <2>2 DEF SentTo, Expired
    <2> QED
        BY <1>5, <2>3
<1>22. Late(r)'
    <2>1. Cardinality(SentTo(o, g + 1, r)')
            = Cardinality({q \in SentTo(o, 1, r)' : request'[q].status = "timeout"})
        BY <1>19, <1>20, <1>21
    <2>2. request'[g].obj = o
        BY <1>14
    <2> QED
        BY <1>13, <1>15, <2>1, <2>2 DEF Late
<1> QED
    BY <1>12, <1>22

\* The request that waits gives up, its message stays.
LEMMA GiveUpLine ==
    ASSUME TypeInv, NEW o \in Objects, NEW r \in Requests, InLineAt(o),
           request[r].status = "waiting", request[r].obj = o, OnTheWay(o)' = OnTheWay(o),
           request'[r].obj = o, request'[r].status = "timeout",
           \A q \in Requests : q # r => request'[q] = request[q],
           sent' = sent, overlapped' = overlapped, (server' = "up") = (server = "up")
    PROVE  InLineAt(o)'
<1> SUFFICES ASSUME o \notin overlapped PROVE InLineAt(o)'
    BY DEF InLineAt
<1>0. /\ server = "up" /\ LastMessages(o) /\ Pending(o) = {r}
    BY LastToWait
<1>1. PICK P \in Seq(Requests) : P = OnTheWay(o) /\ P = OnTheWay(o)'
    BY OnTheWayTyped
<1>2. Cardinality(Expired(o)) \in Nat /\ IsFiniteSet(Expired(o))
    BY RequestsFinite DEF Expired
<1>3. Len(P) = Cardinality(Expired(o)) + 1
    <2>1. Cardinality(Pending(o)) = 1
        <3>1. Cardinality({r}) = 1
            BY FS_Singleton
        <3> QED
            BY <1>0, <3>1, Zenon
    <2> QED
        BY <1>0, <1>1, <1>2, <2>1 DEF LastMessages
<1>4. Pending(o)' = {}
    <2>1. \A q \in Requests : q # r => q \notin Pending(o)
        BY <1>0
    <2> QED
        BY <2>1 DEF Pending
<1>5. Cardinality(Expired(o)') = Cardinality(Expired(o)) + 1
    <2>1. Expired(o)' = Expired(o) \union {r}
        BY DEF Expired
    <2>2. r \notin Expired(o)
        BY DEF Expired
    <2> QED
        BY <1>2, <2>1, <2>2, FS_AddElement
<1>6. \A a \in Nat : 1 <= a => SentTo(o, a, sent)' = SentTo(o, a, sent)
    <2> SUFFICES ASSUME NEW a \in Nat, 1 <= a PROVE SentTo(o, a, sent)' = SentTo(o, a, sent)
        OBVIOUS
    <2>1. \A q \in a..sent : q \in Requests
        BY Numbers DEF TypeInv, Requests
    <2>2. \A q \in Requests : (request'[q].obj = o) <=> (request[q].obj = o)
        OBVIOUS
    <2> QED
        BY <2>1, <2>2 DEF SentTo
<1>7. ASSUME NEW i \in 1..Len(P)
      PROVE  /\ P[i] <= sent' /\ request'[P[i]].obj = o
             /\ Cardinality(SentTo(o, P[i], sent)') = Len(P) - i + 1
    <2>1. PICK m \in Requests : m = P[i]
        OBVIOUS
    <2>2. m <= sent /\ request[m].obj = o /\ Cardinality(SentTo(o, m, sent)) = Len(P) - i + 1
        BY <1>0, <1>1, <2>1 DEF LastMessages
    <2>3. m \in Nat /\ 1 <= m /\ request'[m].obj = o
        BY <2>2, Numbers DEF Requests
    <2>4. SentTo(o, m, sent)' = SentTo(o, m, sent)
        BY <1>6, <2>3
    <2>5. SentTo(o, P[i], sent)' = SentTo(o, m, sent)
        BY <2>1, <2>4
    <2> QED
        BY <2>1, <2>2, <2>3, <2>5
<1>8. LastMessages(o)'
    <2>1. Len(P) = Cardinality(Expired(o)') + Cardinality(Pending(o)')
        BY <1>2, <1>3, <1>4, <1>5, FS_EmptySet
    <2> QED
        BY <1>1, <1>7, <2>1 DEF LastMessages
<1> QED
    BY <1>4, <1>8 DEF InLineAt

\* The steps of the pipe, seen from its objects.
LEMMA PipesMove ==
    ASSUME NEW o \in Objects, NEW v, Pipes' = [Pipes EXCEPT ![o] = v]
    PROVE  OnTheWay(o)' = v /\ \A p \in Objects : p # o => OnTheWay(p)' = OnTheWay(p)
<1>1. Pipes' = [p \in Objects |-> OnTheWay(p)']
    BY DEF Pipes
<1>2. \A p \in Objects : Pipes'[p] = OnTheWay(p)'
    BY <1>1
<1>3. \A p \in Objects : Pipes'[p] = IF p = o THEN v ELSE OnTheWay(p)
    BY DEF Pipes
<1> QED
    BY <1>2, <1>3

LEMMA PutMoves ==
    ASSUME TypeInv, NEW o \in Objects, Pipe!Send(o) \/ Pipe!SendAndTake(o)
    PROVE  /\ server = "up" /\ server' = "up" /\ sent + 1 \in Requests /\ sent' = sent + 1
           /\ request'[sent + 1].obj = o
           /\ \A q \in Requests : q # sent + 1 => request'[q] = request[q]
           /\ \A p \in Objects : p # o => OnTheWay(p)' = OnTheWay(p)
           /\ \/ request'[sent + 1].status = "waiting" /\ OnTheWay(o)' = Append(OnTheWay(o), sent + 1)
              \/ /\ OnTheWay(o) # << >>
                 /\ request'[sent + 1].status = "ok" /\ request'[sent + 1].got = Head(OnTheWay(o))
                 /\ OnTheWay(o)' = Append(Tail(OnTheWay(o)), sent + 1)
<1>0. Pipes[o] = OnTheWay(o)
    BY PipeTypes
<1>1. /\ (server = "up") = TRUE /\ (server' = "up") = (server = "up")
      /\ sent < MaxRequests /\ sent' = sent + 1
    BY DEF Pipe!Send, Pipe!SendAndTake
<1>2. sent + 1 \in Requests
    BY <1>1, Numbers DEF TypeInv, Requests
<1>3. CASE Pipe!Send(o)
    <2>1. request' = [request EXCEPT ![sent + 1] = [obj |-> o, got |-> 0, status |-> "waiting"]]
        BY <1>3 DEF Pipe!Send
    <2>2. /\ request'[sent + 1].obj = o /\ request'[sent + 1].status = "waiting"
          /\ \A q \in Requests : q # sent + 1 => request'[q] = request[q]
        BY <1>2, <2>1 DEF TypeInv
    <2>3. Pipes' = [Pipes EXCEPT ![o] = Append(Pipes[o], sent + 1)]
        BY <1>3 DEF Pipe!Send, Pipes
    <2>4. /\ OnTheWay(o)' = Append(OnTheWay(o), sent + 1)
          /\ \A p \in Objects : p # o => OnTheWay(p)' = OnTheWay(p)
        BY <1>0, <2>3, PipesMove
    <2> QED
        BY <1>1, <1>2, <2>2, <2>4
<1>4. CASE Pipe!SendAndTake(o)
    <2>1. /\ Pipes[o] # << >>
          /\ request' = [request EXCEPT ![sent + 1] = [obj |-> o, got |-> Head(Pipes[o]), status |-> "ok"]]
        BY <1>4 DEF Pipe!SendAndTake, Pipes
    <2>2. /\ request'[sent + 1].obj = o /\ request'[sent + 1].status = "ok"
          /\ request'[sent + 1].got = Head(Pipes[o])
          /\ \A q \in Requests : q # sent + 1 => request'[q] = request[q]
        BY <1>2, <2>1 DEF TypeInv
    <2>3. Pipes' = [Pipes EXCEPT ![o] = Append(Tail(Pipes[o]), sent + 1)]
        BY <1>4 DEF Pipe!SendAndTake, Pipes
    <2>4. /\ OnTheWay(o)' = Append(Tail(OnTheWay(o)), sent + 1)
          /\ \A p \in Objects : p # o => OnTheWay(p)' = OnTheWay(p)
        BY <1>0, <2>3, PipesMove
    <2> QED
        BY <1>0, <1>1, <1>2, <2>1, <2>2, <2>4
<1> QED
    BY <1>3, <1>4

LEMMA TakeMoves ==
    ASSUME TypeInv, NEW r \in Requests, NEW o \in Objects, o = request[r].obj, Pipe!Take(r)
    PROVE  /\ request[r].status = "waiting" /\ OnTheWay(o) # << >>
           /\ request'[r].obj = o /\ request'[r].status = "ok"
           /\ request'[r].got = Head(OnTheWay(o)) /\ OnTheWay(o)' = Tail(OnTheWay(o))
           /\ \A q \in Requests : q # r => request'[q] = request[q]
           /\ \A p \in Objects : p # o => OnTheWay(p)' = OnTheWay(p)
           /\ sent' = sent /\ (server' = "up") = (server = "up")
<1>0. Pipes[o] = OnTheWay(o)
    BY PipeTypes
<1>1. /\ request[r].status = "waiting" /\ Pipes[o] # << >>
      /\ request' = [request EXCEPT ![r] = [obj |-> o, got |-> Head(Pipes[o]), status |-> "ok"]]
      /\ sent' = sent /\ (server' = "up") = (server = "up")
    BY DEF Pipe!Take, Pipes
<1>2. Pipes' = [Pipes EXCEPT ![o] = Tail(Pipes[o])]
    BY DEF Pipe!Take, Pipes
<1>3. /\ OnTheWay(o)' = Tail(OnTheWay(o))
      /\ \A p \in Objects : p # o => OnTheWay(p)' = OnTheWay(p)
    BY <1>0, <1>2, PipesMove
<1>4. /\ request'[r].obj = o /\ request'[r].status = "ok" /\ request'[r].got = Head(Pipes[o])
      /\ \A q \in Requests : q # r => request'[q] = request[q]
    BY <1>1 DEF TypeInv
<1> QED
    BY <1>0, <1>1, <1>3, <1>4

LEMMA PipesStay ==
    ASSUME Pipes' = Pipes
    PROVE  \A p \in Objects : OnTheWay(p)' = OnTheWay(p)
<1>1. Pipes' = [p \in Objects |-> OnTheWay(p)']
    BY DEF Pipes
<1>2. \A p \in Objects : Pipes'[p] = OnTheWay(p)'
    BY <1>1
<1>3. \A p \in Objects : Pipes[p] = OnTheWay(p)
    BY DEF Pipes
<1> QED
    BY <1>2, <1>3

LEMMA GiveUpMoves ==
    ASSUME TypeInv, NEW r \in Requests, Pipe!GiveUp(r)
    PROVE  /\ request[r].status = "waiting"
           /\ request'[r].obj = request[r].obj /\ request'[r].status = "timeout"
           /\ \A q \in Requests : q # r => request'[q] = request[q]
           /\ \A p \in Objects : OnTheWay(p)' = OnTheWay(p)
           /\ sent' = sent /\ (server' = "up") = (server = "up")
<1>1. /\ request[r].status = "waiting"
      /\ request' = [request EXCEPT ![r].status = "timeout"]
      /\ sent' = sent /\ (server' = "up") = (server = "up")
    BY DEF Pipe!GiveUp
<1>2. Pipes' = Pipes
    BY DEF Pipe!GiveUp, Pipes
<1>3. /\ request'[r].obj = request[r].obj /\ request'[r].status = "timeout"
      /\ \A q \in Requests : q # r => request'[q] = request[q]
    BY <1>1 DEF TypeInv, RequestTypes
<1> QED
    BY <1>1, <1>2, <1>3, PipesStay

\* Only a request that is sent finds another waiting.
LEMMA OverlapSteps ==
    ASSUME TypeInv, [Next]_vars
    PROVE  \/ overlapped' = overlapped /\ sent' = sent
           \/ \E o \in Objects : /\ request'[sent + 1].obj = o /\ sent' = sent + 1
                                 /\ overlapped \subseteq overlapped'
                                 /\ o \notin overlapped' => o \notin overlapped /\ Pending(o) = {}
<1>1. ASSUME NEW s \in Sids, Send(s)
      PROVE  \E o \in Objects : /\ request'[sent + 1].obj = o /\ sent' = sent + 1
                                /\ overlapped \subseteq overlapped'
                                /\ o \notin overlapped' => o \notin overlapped /\ Pending(o) = {}
    <2>1. PICK o \in Objects : o = registry[s]
        BY <1>1, RegisteredObject DEF Send
    <2>2. sent + 1 \in Requests
        BY <1>1, Numbers DEF Send, TypeInv, Requests
    <2>3. request'[sent + 1].obj = o
        BY <1>1, <2>1, <2>2 DEF Send, Answered, TypeInv
    <2>4. /\ sent' = sent + 1
          /\ overlapped' = IF Pending(o) = {} THEN overlapped ELSE overlapped \union {o}
        BY <1>1, <2>1 DEF Send
    <2> QED
        BY <2>3, <2>4
<1>2. ASSUME NEW o \in Objects, LoopTake(o) \/ LoopAnswer(o) \/ Resume(o)
      PROVE  overlapped' = overlapped /\ sent' = sent
    BY <1>2 DEF LoopTake, LoopAnswer, Resume, requestVars
<1>3. ASSUME NEW r \in Requests, RequestTimeout(r)
      PROVE  overlapped' = overlapped /\ sent' = sent
    BY <1>3 DEF RequestTimeout
<1>4. CASE ShutdownBegin
    BY <1>4 DEF ShutdownBegin, requestVars
<1> QED
    BY <1>1, <1>2, <1>3, <1>4, BusSteps

\* A request has an object when it waits.
LEMMA ObjectOf ==
    ASSUME TypeInv, NEW r \in Requests, request[r].status = "waiting"
    PROVE  request[r].obj \in Objects
<1>1. r <= sent
    BY DEF TypeInv
<1> QED
    BY <1>1 DEF TypeInv, RequestTypes

LEMMA InLinePut ==
    ASSUME TypeInv, TypeInv', InLine, [Next]_vars,
           NEW o \in Objects, Pipe!Send(o) \/ Pipe!SendAndTake(o)
    PROVE  InLine'
<1>0. PICK n \in Requests : n = sent + 1
    BY PutMoves
<1>1. /\ server = "up" /\ server' = "up" /\ sent' = n /\ request'[n].obj = o
      /\ \A q \in Requests : q # n => request'[q] = request[q]
      /\ \A p \in Objects : p # o => OnTheWay(p)' = OnTheWay(p)
      /\ \/ request'[n].status = "waiting" /\ OnTheWay(o)' = Append(OnTheWay(o), n)
         \/ /\ OnTheWay(o) # << >>
            /\ request'[n].status = "ok" /\ request'[n].got = Head(OnTheWay(o))
            /\ OnTheWay(o)' = Append(Tail(OnTheWay(o)), n)
    BY <1>0, PutMoves
<1>2. /\ overlapped \subseteq overlapped'
      /\ o \notin overlapped' => o \notin overlapped /\ Pending(o) = {}
    <2>1. sent' # sent
        BY <1>0, <1>1, Numbers DEF TypeInv
    <2> QED
        BY <1>0, <1>1, <2>1, OverlapSteps
<1>3. n \in Nat /\ sent \in Nat /\ request[n].status = "unsent"
      /\ \A q \in Requests : request[q].status # "unsent" => q \in Nat /\ q < n
    <2>1. n \in Nat /\ sent \in Nat /\ ~(n <= sent)
        BY <1>0, Numbers DEF TypeInv
    <2>2. \A q \in Requests : request[q].status # "unsent" => q \in Nat /\ q <= sent
        BY Numbers DEF TypeInv
    <2>3. request[n].status = "unsent"
        BY <2>1 DEF TypeInv
    <2>4. \A q \in Nat : q <= sent => q < n
        BY <1>0, <2>1
    <2> QED
        BY <2>1, <2>2, <2>3, <2>4
<1>4. InLineAt(o)' /\ Late(n)'
    <2>1. InLineAt(o)
        BY DEF InLine
    <2> QED
        BY <1>0, <1>1, <1>2, <2>1, SendLine
<1>5. ASSUME NEW p \in Objects, p # o PROVE InLineAt(p)'
    <2>1. Aside(p)
        BY <1>1, <1>3, <1>5 DEF Aside
    <2>2. InLineAt(p)
        BY DEF InLine
    <2>3. sent' = sent + 1 /\ request'[sent + 1].obj # p
        BY <1>0, <1>1, <1>5
    <2> QED
        BY <1>1, <1>2, <1>5, <2>1, <2>2, <2>3, InLineSame
<1>6. ASSUME NEW q \in Requests, q # n PROVE Late(q)'
    <2>1. request'[q] = request[q] /\ Late(q)
        BY <1>1, <1>6 DEF InLine
    <2>2. CASE request[q].status # "ok"
        BY <2>1, <2>2 DEF Late
    <2>3. CASE request[q].status = "ok"
        <3>1. q \in Nat /\ q < n
            BY <1>3, <2>3
        <3>2. \A s \in 1..q : s \in Requests /\ s # n
            BY <1>3, <3>1, Numbers DEF Requests
        <3>3. \A s \in 1..q : request'[s] = request[s]
            BY <1>1, <3>2
        <3>4. PICK p : p = request[q].obj
            OBVIOUS
        <3>5. \A s \in 1..q : request'[s] = request[s] \/ (request[s].obj # p /\ request'[s].obj # p)
            BY <3>3
        <3>6. p \in overlapped => p \in overlapped'
            BY <1>2
        <3> QED
            BY <2>1, <3>4, <3>5, <3>6, LateSame
    <2> QED
        BY <2>2, <2>3
<1> QED
    BY <1>4, <1>5, <1>6 DEF InLine

LEMMA InLineGot ==
    ASSUME TypeInv, InLine, overlapped' = overlapped, NEW r \in Requests, Pipe!Take(r) \/ Pipe!GiveUp(r)
    PROVE  InLine'
<1>0. request[r].status = "waiting"
    BY DEF Pipe!Take, Pipe!GiveUp
<1>1. PICK o \in Objects : o = request[r].obj
    BY <1>0, ObjectOf
<1>2. /\ request'[r].obj = o /\ sent' = sent /\ (server' = "up") = (server = "up")
      /\ \A q \in Requests : q # r => request'[q] = request[q]
      /\ \A p \in Objects : p # o => OnTheWay(p)' = OnTheWay(p)
    <2>1. CASE Pipe!Take(r)
        BY <1>1, <2>1, TakeMoves
    <2>2. CASE Pipe!GiveUp(r)
        BY <1>1, <2>2, GiveUpMoves
    <2> QED
        BY <2>1, <2>2
<1>3. InLineAt(o) /\ \A q \in Requests : Late(q)
    BY DEF InLine
<1>4. InLineAt(o)' /\ Late(r)'
    <2>1. CASE Pipe!Take(r)
        BY <1>0, <1>1, <1>2, <1>3, <2>1, TakeMoves, TakeLine
    <2>2. CASE Pipe!GiveUp(r)
        <3>1. request'[r].status = "timeout" /\ OnTheWay(o)' = OnTheWay(o)
            BY <2>2, GiveUpMoves
        <3>2. Late(r)'
            BY <3>1 DEF Late
        <3> QED
            BY <1>0, <1>1, <1>2, <1>3, <3>1, <3>2, GiveUpLine
    <2> QED
        BY <2>1, <2>2
<1>5. ASSUME NEW p \in Objects, p # o PROVE InLineAt(p)'
    <2>1. Aside(p)
        BY <1>1, <1>2, <1>5 DEF Aside
    <2>2. InLineAt(p) /\ OnTheWay(p)' = OnTheWay(p)
        BY <1>2, <1>5 DEF InLine
    <2> QED
        BY <1>2, <2>1, <2>2, InLineSame
<1>6. \A q \in Requests : q # r => Late(q)'
    BY <1>0, <1>1, <1>2, <1>3, OthersLate
<1> QED
    BY <1>4, <1>5, <1>6 DEF InLine

LEMMA InLineStep ==
    ASSUME TypeInv, TypeInv', Waiters, InLine, [Next]_vars
    PROVE  InLine'
<1>1. [Pipe!Next]_Pipe!vars
    BY PipeStep
<1>2. CASE \E o \in Objects : Pipe!Send(o) \/ Pipe!SendAndTake(o)
    BY <1>2, InLinePut
<1>3. CASE ~\E o \in Objects : Pipe!Send(o) \/ Pipe!SendAndTake(o)
    <2>1. \/ \E r \in Requests : Pipe!Take(r) \/ Pipe!GiveUp(r)
          \/ Pipe!Stop \/ UNCHANGED Pipe!vars
        BY <1>1, <1>3 DEF Pipe!Next, Objects, Requests
    <2>2. sent' = sent
        BY <2>1 DEF Pipe!Take, Pipe!GiveUp, Pipe!Stop, Pipe!vars
    <2>3. overlapped' = overlapped
        <3>1. sent' # sent + 1
            BY <2>2, Numbers DEF TypeInv
        <3> QED
            BY <3>1, OverlapSteps
    <2>4. ASSUME request' = request PROVE \A q \in Requests : Late(q)'
        <3>1. \A q \in Requests : Late(q)
            BY DEF InLine
        <3> QED
            BY <2>3, <2>4, <3>1 DEF Late, SentTo
    <2>5. CASE \E r \in Requests : Pipe!Take(r) \/ Pipe!GiveUp(r)
        BY <2>3, <2>5, InLineGot
    <2>6. CASE Pipe!Stop
        <3>1. request' = request /\ (server' = "up") = FALSE
              /\ \A r \in Requests : request[r].status # "waiting"
            BY <2>6 DEF Pipe!Stop, Requests
        <3>2. \A o \in Objects : Pending(o)' = {}
            BY <3>1 DEF Pending
        <3>3. \A o \in Objects : InLineAt(o)'
            BY <3>1, <3>2 DEF InLineAt
        <3> QED
            BY <2>4, <3>1, <3>3 DEF InLine
    <2>7. CASE UNCHANGED Pipe!vars
        <3>1. request' = request /\ (server' = "up") = (server = "up") /\ Pipes' = Pipes
            BY <2>7 DEF Pipe!vars, Pipes
        <3>2. \A p \in Objects : OnTheWay(p)' = OnTheWay(p)
            BY <3>1, PipesStay
        <3>3. ASSUME NEW p \in Objects PROVE InLineAt(p)'
            <4>1. Aside(p) /\ InLineAt(p)
                BY <3>1 DEF Aside, InLine
            <4> QED
                BY <2>2, <2>3, <3>1, <3>2, <4>1, InLineSame
        <3> QED
            BY <2>4, <3>1, <3>3 DEF InLine
    <2> QED
        BY <2>1, <2>5, <2>6, <2>7
<1> QED
    BY <1>2, <1>3

-----------------------------------------------------------------------------
(* The theorems. *)

IInv == TypeInv /\ Owned /\ Closing /\ Waiters /\ Pipeline /\ InLine

LEMMA Inductive == Spec => []IInv
<1>1. Init => IInv
    BY TypeInit, OwnedInit, ClosingInit, WaitersInit, PipelineInit, InLineInit DEF IInv
<1>2. IInv /\ [Next]_vars => IInv'
    BY TypeStep, OwnedStep, ClosingStep, WaitersStep, PipelineStep, InLineStep DEF IInv
<1> QED
    BY <1>1, <1>2, PTL DEF Spec

\* Every variable of the registry, of the two lanes' tasks and of the queues has
\* its type.
THEOREM TypeCorrect == Spec => []TypeOK
<1>1. TypeInv => TypeOK
    <2> SUFFICES ASSUME TypeInv PROVE TypeOK
        OBVIOUS
    <2>1. registry \in [Sids -> Objects \union {None}]
        BY Numbers DEF TypeInv, Objects, None
    <2> QED
        BY <2>1 DEF TypeInv, TypeOK, LoopTypes, BgTypes, RequestTypes, CleanerTypes, Closers, Queues
<1> QED
    BY <1>1, Inductive, PTL DEF IInv

\* No agent is left to itself: an object that was made is in the registry under
\* one id, or exactly one caller of close() has taken it out.
THEOREM EachIsOwned == Spec => []OwnedOnce
BY Inductive, PTL DEF IInv, Owned

\* When the application is down, no task of any session is left.
THEOREM NoneLeft == Spec => []ShutdownLeavesNone
<1>1. TypeInv /\ Owned /\ Closing => ShutdownLeavesNone
    <2> SUFFICES ASSUME TypeInv, Owned, Closing, server = "down", NEW o \in 1..created
                 PROVE  TasksDone(o)
        BY DEF ShutdownLeavesNone
    <2>1. o \in Objects /\ o # None
        BY Numbers DEF TypeInv, Objects
    <2>2. closer[o] # "nobody"
        BY <2>1 DEF Closing, Owned, OwnedOnce, Registered
    <2>3. closer[o] \in {"delete", "cleaner", "shutdown"}
        BY <2>1, <2>2 DEF TypeInv, Closers
    <2> QED
        BY <2>1, <2>3 DEF Closing, ShutdownIdle
<1> QED
    BY <1>1, Inductive, PTL DEF IInv

\* A message that was accepted is in exactly one place, from the inbound queue to
\* the one request that returned its reply.
THEOREM RepliesAreConserved == Spec => []RepliesConserved
<1>1. Pipeline => RepliesConserved
    BY DEF Pipeline, RepliesConserved, Total, Cancelled, Count, InHand, Returned
<1> QED
    BY <1>1, Inductive, PTL DEF IInv

\* On a session whose requests never overlapped, a request gets the reply to the
\* message that is as many messages back as requests to it have timed out: to its
\* own as long as none has.
THEOREM RepliesLateByTimeouts == Spec => []LateByTimeouts
<1>1. InLine => LateByTimeouts
    BY DEF InLine, Late, LateByTimeouts
<1> QED
    BY <1>1, Inductive, PTL DEF IInv

\* To its requests a session is a first-in first-out pipe, whoever overlaps,
\* gives up, is woken late or finds its reply taken, for any number of each.
THEOREM ImplementsPipe == Spec => PipeSpec
<1>1. IInv => TypeInv /\ Waiters
    BY DEF IInv
<1> QED
    BY <1>1, Inductive, PipeInit, PipeStep, PTL DEF Spec, PipeSpec, Pipe!Spec
=============================================================================
