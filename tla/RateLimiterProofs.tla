-------------------------- MODULE RateLimiterProofs --------------------------
(***************************************************************************)
(* What the rate limiter lets through, how long those wait that it does    *)
(* not, and which clients it forgets, for any number of goroutines and     *)
(* clients and any burst, rate, sweep period and time to live.             *)
(***************************************************************************)
EXTENDS RateLimiterBudget, TLAPS

-----------------------------------------------------------------------------
(* Arithmetic: what ticks are worth.                                       *)

\* More ticks are worth more units, and no ticks are worth less than none.
LEMMA TicksWorth ==
  ASSUME NEW a \in Int, NEW b \in Int, a <= b
  PROVE  a * Rate <= b * Rate /\ a * Rate \in Int
<1>1. Rate \in Nat
  BY NumbersAssumption
<1> QED BY <1>1, SMT

\* The worth of a sum of ticks.
LEMMA TicksAdd ==
  ASSUME NEW a \in Int, NEW b \in Int
  PROVE  (a + b) * Rate = a * Rate + b * Rate
<1>1. Rate \in Nat
  BY NumbersAssumption
<1> QED BY <1>1, SMT

LEMMA FullType == Full \in Nat /\ Cost \in Nat /\ Cost <= Full
<1>1. Burst \in Nat \ {0} /\ Cost \in Nat \ {0}
  BY NumbersAssumption
<1> QED BY <1>1 DEF Full

-----------------------------------------------------------------------------
(* The budget of one client.                                               *)

\* With a requests admitted since the window was opened at s and t units in a
\* bucket last touched at l, w ticks of it rewound: what was spent and what is
\* left is paid for by the burst and the refill since s.
InBudget(a, t, l, s, w) ==
  IF s <= l + w THEN a * Cost + t <= Full + (l + w - s) * Rate ELSE a = 0

\* A refill worth m ticks keeps the client in its budget, when LastSeen moves on
\* by those m ticks, or when it moves on less and the difference was rewound.
LEMMA RefillInBudget ==
  ASSUME NEW a \in Nat, NEW t \in Nat, NEW l \in Nat, NEW s \in Nat, NEW w \in Nat,
         NEW now \in Nat, NEW u \in Nat, NEW v \in Nat,
         InBudget(a, t, l, s, w), l + w <= now + v,
         u <= Full, u <= t + (now + v - (l + w)) * Rate
  PROVE  InBudget(a, u, now, s, v)
<1> DEFINE m == now + v - (l + w)
<1>0. m \in Nat /\ now + v = l + w + m /\ u <= t + m * Rate
  OBVIOUS
<1> HIDE DEF m
<1>1. Full \in Nat /\ a * Cost \in Nat
  BY FullType
<1>2. CASE s <= l + w
  <2>1. (now + v - s) * Rate = (l + w - s) * Rate + m * Rate
    <3>1. now + v - s = (l + w - s) + m
      BY <1>0
    <3>2. ((l + w - s) + m) * Rate = (l + w - s) * Rate + m * Rate
      BY <1>0, TicksAdd
    <3> QED BY <3>1, <3>2
  <2>2. (l + w - s) * Rate \in Int /\ m * Rate \in Int
    BY <1>0, TicksWorth
  <2>3. a * Cost + t <= Full + (l + w - s) * Rate
    BY <1>2 DEF InBudget
  <2>4. a * Cost + u <= Full + (now + v - s) * Rate
    BY <1>0, <1>1, <2>1, <2>2, <2>3
  <2> QED BY <1>0, <1>2, <2>4 DEF InBudget
<1>3. CASE ~(s <= l + w)
  <2>1. a = 0 /\ a * Cost = 0
    BY <1>3, FullType DEF InBudget
  <2>2. ASSUME s <= now + v PROVE u <= Full + (now + v - s) * Rate
    <3>1. now + v - s \in Nat
      BY <2>2
    <3>2. 0 * Rate <= (now + v - s) * Rate /\ (now + v - s) * Rate \in Int /\ 0 * Rate = 0
      BY <3>1, TicksWorth, NumbersAssumption
    <3> QED BY <3>2, <1>1
  <2> QED BY <2>1, <2>2 DEF InBudget
<1> QED BY <1>2, <1>3

\* A request that is let through pays for itself.
LEMMA AdmitInBudget ==
  ASSUME NEW a \in Nat, NEW t \in Nat, NEW l \in Nat, NEW s \in Nat, NEW w \in Nat,
         InBudget(a, t, l, s, w), Cost <= t
  PROVE  InBudget(IF l >= s THEN a + 1 ELSE a, t - Cost, l, s, w)
<1>1. Cost \in Nat /\ (a + 1) * Cost = a * Cost + Cost /\ a * Cost \in Nat
  BY FullType
<1>2. Full \in Nat /\ (l + w - s) * Rate \in Int
  BY FullType, TicksWorth
<1>3. CASE s <= l
  <2>1. s <= l + w /\ a * Cost + t <= Full + (l + w - s) * Rate
    BY <1>3 DEF InBudget
  <2>2. (a + 1) * Cost + (t - Cost) <= Full + (l + w - s) * Rate
    BY <1>1, <1>2, <2>1
  <2> QED BY <1>3, <2>1, <2>2 DEF InBudget
<1>4. CASE ~(s <= l) /\ s <= l + w
  <2>1. a * Cost + t <= Full + (l + w - s) * Rate
    BY <1>4 DEF InBudget
  <2>2. a * Cost + (t - Cost) <= Full + (l + w - s) * Rate
    BY <1>1, <1>2, <2>1
  <2> QED BY <1>4, <2>2 DEF InBudget
<1>5. CASE ~(s <= l + w)
  BY <1>5 DEF InBudget
<1> QED BY <1>3, <1>4, <1>5

\* A bucket that is dropped could have been refilled by then.
LEMMA DropInBudget ==
  ASSUME NEW a \in Nat, NEW t \in Nat, NEW l \in Nat, NEW s \in Nat, NEW w \in Nat,
         NEW now \in Nat, InBudget(a, t, l, s, w), now - l > ClientTTL,
         BurstRefillsInTime
  PROVE  InBudget(a, Full, now, s, w)
<1>1. ClientTTL \in Nat /\ Full \in Nat /\ ClientTTL <= now - l
  BY FullType, NumbersAssumption
<1>2. Full <= (now - l) * Rate
  <2>1. ClientTTL * Rate <= (now - l) * Rate /\ (now - l) * Rate \in Int
        /\ ClientTTL * Rate \in Int
    BY <1>1, TicksWorth
  <2> QED BY <1>1, <2>1 DEF BurstRefillsInTime
<1>3. now - l \in Nat /\ (now - l) * Rate \in Int /\ now + w = l + w + (now - l)
  BY <1>1, TicksWorth
<1>4. Full <= t + (now - l) * Rate
  BY <1>1, <1>2, <1>3
<1>5. now + w - (l + w) = now - l /\ l + w <= now + w
  BY <1>1
<1>6. Full <= t + (now + w - (l + w)) * Rate /\ Full <= Full
  BY <1>1, <1>4, <1>5
<1> QED BY <1>1, <1>5, <1>6, RefillInBudget

-----------------------------------------------------------------------------
(* Types.                                                                  *)

Buckets == [Tokens : 0 .. Full, LastSeen : 0 .. clock]

\* A bucket of the type has numbers, and is not None.
LEMMA BucketType ==
  ASSUME TypeOK, NEW c \in Clients, clients[c] # None
  PROVE  /\ clients[c] \in Buckets
         /\ clients[c].Tokens \in 0 .. Full
         /\ clients[c].LastSeen \in 0 .. clock
         /\ clients[c] = [Tokens |-> clients[c].Tokens, LastSeen |-> clients[c].LastSeen]
BY DEF TypeOK, Buckets

\* A bucket made of a legal number of tokens and a past stamp is one.
LEMMA NewBucketType ==
  ASSUME NEW t \in 0 .. Full, NEW now \in 0 .. clock, clock \in Nat
  PROVE  [Tokens |-> t, LastSeen |-> now] \in Buckets
         /\ [Tokens |-> t, LastSeen |-> now] # None
<1>1. [Tokens |-> t, LastSeen |-> now] \in Buckets
  BY DEF Buckets
<1>2. [Tokens |-> t, LastSeen |-> now] \in [Tokens : Int, LastSeen : Int]
  BY FullType
<1> QED BY <1>1, <1>2, NoneAssumption

\* A request that is pending has a client and a past stamp.
LEMMA PendingType ==
  ASSUME TypeOK, NEW g \in Goroutines, pending[g] # None
  PROVE  pending[g].client \in Clients /\ pending[g].stamp \in 0 .. clock
BY DEF TypeOK

\* There are between none and Burst tokens when a request is judged.
LEMMA AvailableType ==
  ASSUME TypeOK, NEW c \in Clients, NEW now \in 0 .. clock
  PROVE  Available(c, now) \in 0 .. Full
<1>0. Full \in Nat /\ clock \in Nat
  BY FullType DEF TypeOK
<1>1. CASE clients[c] = None \/ Swept(c, now)
  <2>1. Bucket(c, now) = [Tokens |-> Full, LastSeen |-> now]
    BY <1>1 DEF Bucket
  <2> QED BY <2>1, <1>0 DEF Available, Refilled
<1>2. CASE clients[c] # None /\ ~Swept(c, now)
  <2> DEFINE b == clients[c]
  <2>1. b.Tokens \in 0 .. Full /\ b.LastSeen \in 0 .. clock /\ Bucket(c, now) = b
    BY <1>2, BucketType DEF Bucket
  <2> HIDE DEF b
  <2>2. CASE now > b.LastSeen
    <3>1. now - b.LastSeen \in Nat
      BY <2>1, <2>2
    <3>2. 0 * Rate <= (now - b.LastSeen) * Rate /\ (now - b.LastSeen) * Rate \in Int
          /\ 0 * Rate = 0
      BY <3>1, TicksWorth, NumbersAssumption
    <3>3. Available(c, now) = Least(Full, b.Tokens + (now - b.LastSeen) * Rate)
      BY <2>1, <2>2 DEF Available, Refilled
    <3> QED BY <1>0, <2>1, <3>2, <3>3 DEF Least
  <2>3. CASE ~(now > b.LastSeen)
    BY <2>1, <2>3 DEF Available, Refilled
  <2> QED BY <2>2, <2>3
<1> QED BY <1>1, <1>2

\* What a request does to the map of buckets.
LEMMA ClientsAfterType ==
  ASSUME TypeOK, NEW c \in Clients, NEW now \in 0 .. clock, NEW t \in 0 .. Full,
         clock' = clock
  PROVE  ClientsAfter(c, now, t) \in [Clients -> Buckets' \union {None}]
<1>1. [Tokens |-> t, LastSeen |-> now] \in Buckets
  BY NewBucketType DEF TypeOK
<1>2. \A d \in Clients : clients[d] \in Buckets \union {None}
  BY DEF TypeOK, Buckets
<1>3. Buckets' = Buckets
  BY DEF Buckets
<1> QED BY <1>1, <1>2, <1>3 DEF ClientsAfter

\* A wait is a number.
LEMMA RetryAfterType ==
  ASSUME NEW t \in Int
  PROVE  RetryAfter(t) \in Int
<1>1. Cost \in Nat \ {0} /\ Rate \in Nat \ {0} /\ Second \in Nat \ {0}
  BY NumbersAssumption
<1>2. CeilDiv(Cost - t, Rate) \in Int
  BY <1>1 DEF CeilDiv
<1>3. CeilDiv(CeilDiv(Cost - t, Rate), Second) \in Int
  BY <1>1, <1>2 DEF CeilDiv
<1> QED BY <1>1, <1>3 DEF RetryAfter

LEMMA LimiterTypeInit == Init => TypeOK
BY DEF Init, TypeOK

LEMMA LimiterTypeStep == TypeOK /\ [Next]_vars => TypeOK'
<1> SUFFICES ASSUME TypeOK, [Next]_vars PROVE TypeOK'
  OBVIOUS
<1>1. CASE UNCHANGED vars
  BY <1>1 DEF vars, TypeOK
<1>2. CASE Tick
  <2>1. clock \in Nat /\ 0 .. clock \subseteq 0 .. clock'
    BY <1>2 DEF Tick, TypeOK
  <2>2. ASSUME NEW c \in Clients, clients[c] # None
        PROVE  clients[c] \in [Tokens : 0 .. Full, LastSeen : 0 .. clock']
    <3>1. /\ clients[c].Tokens \in 0 .. Full
          /\ clients[c].LastSeen \in 0 .. clock'
          /\ clients[c] = [Tokens |-> clients[c].Tokens, LastSeen |-> clients[c].LastSeen]
      BY <2>1, <2>2, BucketType
    <3> QED BY <3>1
  <2>3. \A g \in Goroutines : pending[g] # None =>
          pending[g] \in [client : Clients, stamp : 0 .. clock']
    BY <2>1 DEF TypeOK
  <2> QED BY <2>1, <2>2, <2>3, <1>2 DEF Tick, TypeOK
<1>3. ASSUME NEW g \in Goroutines, NEW c \in Clients, Arrive(g, c) PROVE TypeOK'
  <2>1. [client |-> c, stamp |-> clock] \in [client : Clients, stamp : 0 .. clock]
    BY DEF TypeOK
  <2> QED BY <2>1, <1>3 DEF Arrive, TypeOK
<1>4. ASSUME NEW g \in Goroutines, Admit(g) \/ Deny(g) PROVE TypeOK'
  <2> DEFINE c == pending[g].client
             now == pending[g].stamp
  <2>1. pending[g] # None /\ clock' = clock
        /\ pending' = [pending EXCEPT ![g] = None] /\ lastSweepAt' = NextSweepAt(now)
    BY <1>4 DEF Admit, Deny
  <2>2. c \in Clients /\ now \in 0 .. clock /\ clock \in Nat
    BY <2>1, PendingType DEF TypeOK
  <2>3. Available(c, now) \in 0 .. Full /\ Full \in Nat /\ Cost \in Nat
    BY <2>2, AvailableType, FullType
  <2>4. PICK t \in 0 .. Full : clients' = ClientsAfter(c, now, t)
    <3>1. CASE Admit(g)
      <4>1. Available(c, now) - Cost \in 0 .. Full
            /\ clients' = ClientsAfter(c, now, Available(c, now) - Cost)
        BY <3>1, <2>3 DEF Admit
      <4> QED BY <4>1
    <3>2. CASE Deny(g)
      BY <3>2, <2>3 DEF Deny
    <3> QED BY <3>1, <3>2, <1>4
  <2>5. clients' \in [Clients -> Buckets' \union {None}]
    BY <2>1, <2>2, <2>4, ClientsAfterType
  <2>6. promise' \in [Clients -> Int \union {None}]
    <3>1. CASE Admit(g)
      BY <3>1, <2>2 DEF Admit, TypeOK
    <3>2. CASE Deny(g)
      <4> DEFINE until == clock + RetryAfter(Available(c, now))
      <4>1. until \in Int
        BY <2>2, <2>3, RetryAfterType
      <4>2. promise' = [promise EXCEPT ![c] =
                          IF @ = None THEN until ELSE Least(@, until)]
        BY <3>2 DEF Deny
      <4> HIDE DEF until
      <4> QED BY <2>2, <4>1, <4>2 DEF TypeOK, Least
    <3> QED BY <3>1, <3>2, <1>4
  <2>7. lastSweepAt' \in Nat \union {None}
    BY <2>1, <2>2 DEF NextSweepAt, TypeOK
  <2> HIDE DEF c, now
  <2> QED BY <2>1, <2>5, <2>6, <2>7 DEF TypeOK, Buckets
<1> QED BY <1>1, <1>2, <1>3, <1>4 DEF Next

\* Buckets, stamps and counts keep their types: no bucket is overdrawn or
\* overfull, and none was last seen in the future.
THEOREM LimiterTypeCorrect == Spec => []TypeOK
BY LimiterTypeInit, LimiterTypeStep, PTL DEF Spec

-----------------------------------------------------------------------------
(* The budget of every client.                                             *)

Left(c) == IF clients[c] = None THEN Full ELSE clients[c].Tokens

\* Every watched client is in its budget in the window that is open for it.
BudgetInv ==
  /\ TypeOK
  /\ WatchTypeOK
  /\ \A c \in Watched : clients[c] # None => seen[c] = clients[c].LastSeen
  /\ BurstRefillsInTime =>
       \A c \in Watched : InBudget(admitted[c], Left(c), seen[c], start[c], rewound[c])

LEMMA WatchTypes ==
  ASSUME WatchTypeOK, TypeOK, NEW c \in Watched
  PROVE  /\ admitted[c] \in Nat /\ rewound[c] \in Nat
         /\ seen[c] \in 0 .. clock /\ seen[c] \in Nat
         /\ start[c] \in 0 .. clock /\ start[c] \in Nat
BY DEF WatchTypeOK, TypeOK

LEMMA LeftType ==
  ASSUME TypeOK, NEW c \in Clients
  PROVE  Left(c) \in 0 .. Full /\ Left(c) \in Nat
<1>1. Full \in Nat
  BY FullType
<1>2. CASE clients[c] = None
  BY <1>1, <1>2 DEF Left
<1>3. CASE clients[c] # None
  <2>1. Left(c) = clients[c].Tokens
    BY <1>3 DEF Left
  <2>2. clients[c].Tokens \in 0 .. Full
    BY <1>3, BucketType
  <2> QED BY <1>1, <2>1, <2>2
<1> QED BY <1>2, <1>3

LEMMA BudgetInit == WatchInit => BudgetInv
<1> SUFFICES ASSUME WatchInit PROVE BudgetInv
  OBVIOUS
<1>1. TypeOK
  BY LimiterTypeInit DEF WatchInit
<1>2. WatchTypeOK
  BY DEF WatchInit, WatchTypeOK, Init
<1>3. ASSUME NEW c \in Watched
      PROVE  InBudget(admitted[c], Left(c), seen[c], start[c], rewound[c])
  <2>1. admitted[c] = 0 /\ Left(c) = Full /\ seen[c] = 0 /\ start[c] = 0 /\ rewound[c] = 0
    BY WatchedAssumption DEF WatchInit, Init, Left
  <2>2. 0 * Cost = 0 /\ (0 + 0 - 0) * Rate = 0 /\ Full \in Nat
    BY FullType, NumbersAssumption
  <2> QED BY <2>1, <2>2 DEF InBudget
<1> QED BY <1>1, <1>2, <1>3, WatchedAssumption DEF BudgetInv, WatchInit, Init

\* A sweep keeps every client in its budget, seen last when it was dropped.
LEMMA SweepInBudget ==
  ASSUME BudgetInv, BurstRefillsInTime, NEW d \in Watched, NEW now \in 0 .. clock
  PROVE  /\ Swept(d, now) => InBudget(admitted[d], Full, now, start[d], rewound[d])
         /\ ~Swept(d, now) =>
              InBudget(admitted[d], Left(d), seen[d], start[d], rewound[d])
<1>1. d \in Clients /\ TypeOK /\ WatchTypeOK
      /\ InBudget(admitted[d], Left(d), seen[d], start[d], rewound[d])
      /\ (clients[d] # None => seen[d] = clients[d].LastSeen)
  BY WatchedAssumption DEF BudgetInv
<1>2. now \in Nat
  BY <1>1 DEF TypeOK
<1>3. CASE Swept(d, now)
  <2>1. now - seen[d] > ClientTTL
    BY <1>1, <1>3 DEF Swept
  <2> QED BY <1>1, <1>2, <1>3, <2>1, WatchTypes, LeftType, DropInBudget
<1> QED BY <1>1, <1>3

\* A request that is judged, and not yet charged, keeps its client in budget.
LEMMA JudgeInBudget ==
  ASSUME BudgetInv, BurstRefillsInTime, NEW c \in Watched, NEW now \in 0 .. clock
  PROVE  InBudget(admitted[c], Available(c, now), now, start[c],
                  IF now < SeenBefore(c, now)
                  THEN rewound[c] + (SeenBefore(c, now) - now) ELSE rewound[c])
<1> DEFINE l == SeenBefore(c, now)
           w == rewound[c]
           v == IF now < l THEN w + (l - now) ELSE w
           t == IF Swept(c, now) THEN Full ELSE Left(c)
           u == Available(c, now)
<1>1. c \in Clients /\ TypeOK /\ WatchTypeOK /\ (clients[c] # None => seen[c] = clients[c].LastSeen)
  BY WatchedAssumption DEF BudgetInv
<1>2. /\ now \in Nat /\ l \in Nat /\ w \in Nat /\ v \in Nat
      /\ admitted[c] \in Nat /\ start[c] \in Nat /\ Full \in Nat
  BY <1>1, WatchTypes, FullType DEF SeenBefore, TypeOK
<1>3. t \in Nat /\ u \in Nat /\ u <= Full
  BY <1>1, <1>2, LeftType, AvailableType
<1>4. InBudget(admitted[c], t, l, start[c], w)
  BY SweepInBudget DEF SeenBefore
<1>5. l + w <= now + v
  BY <1>2
<1>6. u <= t + (now + v - (l + w)) * Rate
  <2>1. 0 <= (now + v - (l + w)) * Rate /\ (now + v - (l + w)) * Rate \in Int
    <3>1. now + v - (l + w) \in Nat
      BY <1>2, <1>5
    <3> HIDE DEF v, l, w
    <3>2. 0 * Rate <= (now + v - (l + w)) * Rate /\ 0 * Rate = 0
          /\ (now + v - (l + w)) * Rate \in Int
      BY <3>1, TicksWorth, NumbersAssumption
    <3> QED BY <3>2
  <2>2. CASE clients[c] = None \/ Swept(c, now)
    <3>1. t = Full
      BY <2>2 DEF Left
    <3> HIDE DEF t, v, l, w, u
    <3> QED BY <3>1, <1>2, <1>3, <2>1
  <2>3. CASE clients[c] # None /\ ~Swept(c, now)
    <3>1. l = clients[c].LastSeen /\ t = clients[c].Tokens /\ Bucket(c, now) = clients[c]
      BY <2>3, <1>1 DEF SeenBefore, Left, Bucket
    <3>2. CASE now > l
      <4>1. u = Least(Full, t + (now - l) * Rate)
        BY <3>1, <3>2 DEF Available, Refilled
      <4>2. now + v - (l + w) = now - l
        BY <1>2, <3>2
      <4>3. u <= t + (now - l) * Rate
        <5> HIDE DEF t, v, l, w, u
        <5> QED BY <4>1, <4>2, <1>2, <1>3, <2>1 DEF Least
      <4> QED BY <4>2, <4>3
    <3>3. CASE ~(now > l)
      <4>1. u = t
        BY <3>1, <3>3 DEF Available, Refilled
      <4> HIDE DEF t, v, l, w, u
      <4> QED BY <4>1, <1>3, <2>1
    <3> QED BY <3>2, <3>3
  <2> QED BY <2>2, <2>3
<1>7. InBudget(admitted[c], u, now, start[c], v)
  <2> HIDE DEF t, v, l, w, u
  <2> QED BY <1>2, <1>3, <1>4, <1>5, <1>6, RefillInBudget
<1> QED BY <1>7

\* What a judged request leaves of the watch: t tokens and a requests for its
\* client, if it is watched, and the sweep for everybody else.
LEMMA ChargeInBudget ==
  ASSUME BudgetInv, TypeOK', WatchTypeOK',
         NEW c \in Clients, NEW now \in 0 .. clock, NEW t \in 0 .. Full,
         clients' = ClientsAfter(c, now, t),
         \A d \in Watched \ {c} : admitted'[d] = admitted[d],
         Observe(c, now),
         BurstRefillsInTime /\ c \in Watched =>
           InBudget(admitted'[c], t, now, start[c], rewound'[c])
  PROVE  BudgetInv'
<1>1. /\ start' = start
      /\ \A d \in Watched : seen'[d] = IF d = c THEN now ELSE SeenBefore(d, now)
      /\ \A d \in Watched \ {c} : rewound'[d] = rewound[d] /\ admitted'[d] = admitted[d]
  BY DEF Observe
<1>2. clients'[c] = [Tokens |-> t, LastSeen |-> now] /\ clients'[c] # None
      /\ \A d \in Clients \ {c} :
           clients'[d] = IF Swept(d, now) THEN None ELSE clients[d]
  <2>1. clock \in Nat
    BY DEF BudgetInv, TypeOK
  <2> QED BY <2>1, NewBucketType DEF ClientsAfter
<1>3. ASSUME NEW d \in Watched, clients'[d] # None
      PROVE  seen'[d] = clients'[d].LastSeen
  BY <1>1, <1>2, <1>3, WatchedAssumption DEF SeenBefore, BudgetInv
<1>4. ASSUME BurstRefillsInTime, NEW d \in Watched
      PROVE  InBudget(admitted'[d], Left(d)', seen'[d], start'[d], rewound'[d])
  <2>0. d \in Clients
    BY WatchedAssumption
  <2>1. CASE d = c
    <3>1. Left(d)' = t
      BY <1>2, <2>1 DEF Left
    <3> QED BY <1>1, <1>4, <2>1, <3>1
  <2>2. CASE d # c /\ Swept(d, now)
    <3>1. Left(d)' = Full /\ seen'[d] = now
      BY <1>1, <1>2, <2>0, <2>2 DEF Left, SeenBefore, Full
    <3> QED BY <1>1, <1>4, <2>2, <3>1, SweepInBudget
  <2>3. CASE d # c /\ ~Swept(d, now)
    <3>1. Left(d)' = Left(d) /\ seen'[d] = seen[d]
      BY <1>1, <1>2, <2>0, <2>3 DEF Left, SeenBefore, Full
    <3> QED BY <1>1, <1>4, <2>3, <3>1, SweepInBudget
  <2> QED BY <2>1, <2>2, <2>3
<1>5. BurstRefillsInTime' <=> BurstRefillsInTime
  BY DEF BurstRefillsInTime, Full
<1>6. \A d \in Watched : (InBudget(admitted[d], Left(d), seen[d], start[d], rewound[d]))'
                         <=> InBudget(admitted'[d], Left(d)', seen'[d], start'[d], rewound'[d])
  BY DEF InBudget, Full
<1> QED BY <1>3, <1>4, <1>5, <1>6 DEF BudgetInv

LEMMA BudgetStep == BudgetInv /\ [WatchNext]_<<vars, watch>> => BudgetInv'
<1> SUFFICES ASSUME BudgetInv, [WatchNext]_<<vars, watch>> PROVE BudgetInv'
  OBVIOUS
<1>0. TypeOK /\ WatchTypeOK /\ clock \in Nat
  BY DEF BudgetInv, TypeOK
<1>1. TypeOK'
  <2>1. [Next]_vars
    BY DEF WatchNext, OpenWindow, WatchAdmit, WatchDeny, Next, vars, watch
  <2> QED BY <1>0, <2>1, LimiterTypeStep
<1>2. CASE UNCHANGED <<vars, watch>>
  BY <1>2 DEF vars, watch, BudgetInv, TypeOK, WatchTypeOK, Left, InBudget, Full,
              BurstRefillsInTime
<1>3. ASSUME UNCHANGED <<clients, watch>>, clock' \in Nat, clock <= clock' PROVE BudgetInv'
  <2>1. WatchTypeOK'
    BY <1>0, <1>3 DEF watch, WatchTypeOK
  <2> QED BY <1>1, <1>3, <2>1
          DEF watch, BudgetInv, Left, InBudget, Full, BurstRefillsInTime
<1>4. ASSUME NEW c \in Watched, OpenWindow(c) PROVE BudgetInv'
  <2>1. WatchTypeOK'
    BY <1>0, <1>4 DEF OpenWindow, vars, WatchTypeOK
  <2>2. /\ clients' = clients /\ seen' = seen /\ clock' = clock
        /\ start'[c] = clock /\ admitted'[c] = 0 /\ rewound'[c] = 0
        /\ \A d \in Watched \ {c} : /\ start'[d] = start[d]
                                    /\ admitted'[d] = admitted[d]
                                    /\ rewound'[d] = rewound[d]
    BY <1>0, <1>4 DEF OpenWindow, vars, WatchTypeOK
  <2>3. InBudget(0, Left(c), seen[c], clock, 0)
    <3>1. Left(c) \in 0 .. Full /\ seen[c] \in 0 .. clock /\ Full \in Nat
      BY <1>0, LeftType, WatchTypes, FullType, WatchedAssumption
    <3>2. 0 * Cost = 0 /\ (clock <= seen[c] + 0 => (seen[c] + 0 - clock) * Rate = 0)
      <4>1. clock <= seen[c] + 0 => seen[c] + 0 - clock = 0
        BY <1>0, <3>1
      <4> QED BY <4>1, NumbersAssumption
    <3> QED BY <3>1, <3>2 DEF InBudget
  <2>4. \A d \in Clients : Left(d)' = Left(d)
    BY <2>2 DEF Left, Full
  <2>5. ASSUME BurstRefillsInTime, NEW d \in Watched
        PROVE  InBudget(admitted'[d], Left(d)', seen'[d], start'[d], rewound'[d])
    BY WatchedAssumption, <2>2, <2>3, <2>4, <2>5 DEF BudgetInv
  <2>6. BurstRefillsInTime' <=> BurstRefillsInTime
    BY DEF BurstRefillsInTime, Full
  <2>7. \A d \in Watched : (InBudget(admitted[d], Left(d), seen[d], start[d], rewound[d]))'
                           <=> InBudget(admitted'[d], Left(d)', seen'[d], start'[d], rewound'[d])
    BY DEF InBudget, Full
  <2> QED BY <1>1, <2>1, <2>2, <2>5, <2>6, <2>7 DEF BudgetInv
<1>5. ASSUME NEW g \in Goroutines, WatchAdmit(g) \/ WatchDeny(g) PROVE BudgetInv'
  <2> DEFINE c == pending[g].client
             now == pending[g].stamp
             u == Available(c, now)
  <2>1. pending[g] # None /\ clock' = clock /\ Observe(c, now)
    BY <1>5 DEF WatchAdmit, WatchDeny, Admit, Deny
  <2>2. c \in Clients /\ now \in 0 .. clock /\ now \in Nat
    BY <1>0, <2>1, PendingType
  <2>3. u \in 0 .. Full /\ u \in Nat /\ Full \in Nat /\ Cost \in Nat
    BY <1>0, <2>2, AvailableType, FullType
  <2>4. /\ \A d \in Clients : SeenBefore(d, now) \in 0 .. clock \/ d \notin Watched
        /\ c \in Watched => /\ admitted[c] \in Nat /\ start[c] \in Nat
                            /\ rewound[c] \in Nat /\ SeenBefore(c, now) \in Nat
    BY <1>0, <2>2, WatchTypes DEF SeenBefore
  <2>5. c \in Watched =>
          rewound'[c] = IF now < SeenBefore(c, now)
                        THEN rewound[c] + (SeenBefore(c, now) - now) ELSE rewound[c]
    BY <2>1 DEF Observe
  <2>6. c \in Watched => rewound'[c] \in Nat
    BY <2>2, <2>4, <2>5
  <2>7. BurstRefillsInTime /\ c \in Watched =>
          InBudget(admitted[c], u, now, start[c], rewound'[c])
    BY <2>2, <2>5, JudgeInBudget
  <2>8. /\ seen' \in [Watched -> 0 .. clock'] /\ start' \in [Watched -> 0 .. clock']
        /\ rewound' \in [Watched -> Nat]
    <3>1. start' = start
      BY <2>1 DEF Observe
    <3>2. ASSUME NEW d \in Watched
          PROVE  /\ SeenBefore(d, now) \in 0 .. clock /\ SeenBefore(d, now) \in Nat
                 /\ rewound[d] \in Nat
      BY <1>0, <2>2, WatchTypes DEF SeenBefore
    <3>3. rewound' = [d \in Watched |->
                        IF d = c /\ now < SeenBefore(d, now)
                        THEN rewound[d] + (SeenBefore(d, now) - now) ELSE rewound[d]]
      BY <2>1 DEF Observe
    <3>4. seen' = [d \in Watched |-> IF d = c THEN now ELSE SeenBefore(d, now)]
      BY <2>1 DEF Observe
    <3> HIDE DEF c, now, u
    <3>5. rewound' \in [Watched -> Nat]
      BY <2>2, <3>2, <3>3
    <3>6. seen' \in [Watched -> 0 .. clock']
      BY <2>1, <2>2, <3>2, <3>4
    <3> QED BY <1>0, <2>1, <3>1, <3>5, <3>6 DEF WatchTypeOK
  <2>9. CASE WatchAdmit(g)
    <3> DEFINE a == IF now >= start[c] THEN admitted[c] + 1 ELSE admitted[c]
    <3>1. /\ u >= Cost /\ clients' = ClientsAfter(c, now, u - Cost)
          /\ admitted' = [d \in Watched |->
                            IF d = c /\ now >= start[d] THEN admitted[d] + 1 ELSE admitted[d]]
      BY <2>9 DEF WatchAdmit, Admit
    <3>2. u - Cost \in 0 .. Full /\ (c \in Watched => a \in Nat /\ admitted'[c] = a)
      BY <2>3, <2>4, <3>1
    <3>3. admitted' \in [Watched -> Nat] /\ \A d \in Watched \ {c} : admitted'[d] = admitted[d]
      <4> HIDE DEF c, now, u
      <4> QED BY <1>0, <3>1 DEF WatchTypeOK
    <3>4. BurstRefillsInTime /\ c \in Watched =>
            InBudget(a, u - Cost, now, start[c], rewound'[c])
      BY <2>2, <2>3, <2>4, <2>6, <2>7, <3>1, AdmitInBudget
    <3>5. WatchTypeOK'
      BY <2>8, <3>3 DEF WatchTypeOK
    <3> HIDE DEF c, now, u, a
    <3> QED BY <1>1, <2>1, <2>2, <3>1, <3>2, <3>3, <3>4, <3>5, ChargeInBudget
  <2>10. CASE WatchDeny(g)
    <3>1. clients' = ClientsAfter(c, now, u) /\ admitted' = admitted
      BY <2>10 DEF WatchDeny, Deny
    <3>2. WatchTypeOK'
      BY <1>0, <2>8, <3>1 DEF WatchTypeOK
    <3> HIDE DEF c, now, u
    <3> QED BY <1>1, <2>1, <2>2, <2>3, <2>7, <3>1, <3>2, ChargeInBudget
  <2> QED BY <1>5, <2>9, <2>10
<1>6. CASE Tick /\ UNCHANGED watch
  BY <1>0, <1>3, <1>6 DEF Tick
<1>7. ASSUME NEW g \in Goroutines, NEW c \in Clients, Arrive(g, c), UNCHANGED watch
      PROVE  BudgetInv'
  BY <1>0, <1>3, <1>7 DEF Arrive
<1> QED BY <1>2, <1>4, <1>5, <1>6, <1>7 DEF WatchNext

LEMMA BudgetBounds == BudgetInv => AdmissionBound
<1> SUFFICES ASSUME BudgetInv, BurstRefillsInTime, NEW c \in Watched
             PROVE  admitted[c] * Cost <= Full + (clock - start[c] + rewound[c]) * Rate
  BY DEF AdmissionBound
<1>1. TypeOK /\ WatchTypeOK /\ clock \in Nat
      /\ c \in Clients /\ InBudget(admitted[c], Left(c), seen[c], start[c], rewound[c])
  BY WatchedAssumption DEF BudgetInv, TypeOK
<1>2. /\ admitted[c] \in Nat /\ rewound[c] \in Nat /\ seen[c] \in 0 .. clock
      /\ start[c] \in 0 .. clock /\ Left(c) \in Nat /\ Full \in Nat /\ Cost \in Nat
  BY <1>1, WatchTypes, LeftType, FullType
<1>3. CASE start[c] <= seen[c] + rewound[c]
  <2>1. admitted[c] * Cost + Left(c) <= Full + (seen[c] + rewound[c] - start[c]) * Rate
    BY <1>1, <1>3 DEF InBudget
  <2>2. seen[c] + rewound[c] - start[c] <= clock - start[c] + rewound[c]
    BY <1>1, <1>2
  <2>3. /\ (seen[c] + rewound[c] - start[c]) * Rate <= (clock - start[c] + rewound[c]) * Rate
        /\ (seen[c] + rewound[c] - start[c]) * Rate \in Int
        /\ (clock - start[c] + rewound[c]) * Rate \in Int
    BY <1>1, <1>2, <2>2, TicksWorth
  <2> QED BY <1>2, <2>1, <2>3
<1>4. CASE ~(start[c] <= seen[c] + rewound[c])
  <2>1. admitted[c] * Cost = 0
    BY <1>1, <1>2, <1>4 DEF InBudget
  <2>2. clock - start[c] + rewound[c] \in Nat
    BY <1>1, <1>2
  <2>3. 0 * Rate <= (clock - start[c] + rewound[c]) * Rate /\ 0 * Rate = 0
        /\ (clock - start[c] + rewound[c]) * Rate \in Int
    BY <2>2, TicksWorth, NumbersAssumption
  <2> QED BY <1>2, <2>1, <2>3
<1> QED BY <1>3, <1>4

\* A client, whichever is watched, never gets through more than the burst and the refill of a window
\* pay for, and the ticks that late stamps rewound in it.
THEOREM AdmissionIsBounded == WatchSpec => []AdmissionBound
<1>1. WatchSpec => []BudgetInv
  BY BudgetInit, BudgetStep, PTL DEF WatchSpec
<1> QED BY <1>1, BudgetBounds, PTL

-----------------------------------------------------------------------------
(* The waits that clients are told.                                        *)

LEMMA CeilDivCovers ==
  ASSUME NEW a \in Int, NEW b \in Nat \ {0}
  PROVE  CeilDiv(a, b) \in Int /\ b * CeilDiv(a, b) >= a
BY SMT DEF CeilDiv

LEMMA Gains ==
  ASSUME NEW t \in 0 .. Full, NEW a \in Int, NEW b \in Int, a <= b
  PROVE  t + a * Rate \in Int /\ t + b * Rate \in Int /\ t + a * Rate <= t + b * Rate
<1>1. a * Rate <= b * Rate /\ a * Rate \in Int /\ b * Rate \in Int
  BY TicksWorth
<1> QED BY <1>1, FullType

\* After the wait that is told there is a token.
LEMMA WaitIsEnough ==
  ASSUME NEW t \in 0 .. Full, t < Cost
  PROVE  RetryAfter(t) \in Int /\ t + RetryAfter(t) * Rate >= Cost
<1> DEFINE ticks == CeilDiv(Cost - t, Rate)
<1>1. Cost - t \in Int /\ Rate \in Nat \ {0} /\ Second \in Nat \ {0} /\ t \in Int /\ Cost \in Int
  BY FullType, NumbersAssumption
<1>2. ticks \in Int /\ Rate * ticks >= Cost - t
  BY <1>1, CeilDivCovers
<1>3. RetryAfter(t) \in Int /\ RetryAfter(t) >= ticks
  <2>1. RetryAfter(t) = Second * CeilDiv(ticks, Second)
    BY DEF RetryAfter
  <2> HIDE DEF ticks
  <2>2. CeilDiv(ticks, Second) \in Int /\ Second * CeilDiv(ticks, Second) >= ticks
    BY <1>1, <1>2, CeilDivCovers
  <2> QED BY <1>1, <2>1, <2>2
<1> HIDE DEF ticks
<1>4. ticks * Rate <= RetryAfter(t) * Rate /\ ticks * Rate \in Int /\ RetryAfter(t) * Rate \in Int
  BY <1>2, <1>3, TicksWorth
<1>5. Rate * ticks = ticks * Rate
  BY <1>1, <1>2
<1> QED BY <1>1, <1>2, <1>3, <1>4, <1>5

\* The bucket has a token at the latest at p.
HasTokenBy(bucket, p) ==
  \/ bucket = None
  \/ bucket.Tokens >= Cost
  \/ p > bucket.LastSeen /\ bucket.Tokens + (p - bucket.LastSeen) * Rate >= Cost

\* What each client was told is true, though another request may have come since.
PromiseInv == \A c \in Clients : promise[c] # None => HasTokenBy(clients[c], promise[c])

\* A client that asks when the wait is over finds the token.
LEMMA TokenIsThere ==
  ASSUME TypeOK, NEW c \in Clients, NEW p \in Int, NEW now \in 0 .. clock, p <= now,
         HasTokenBy(clients[c], p)
  PROVE  Available(c, now) >= Cost
<1>0. Full \in Nat /\ Cost \in Nat /\ Cost <= Full /\ clock \in Nat
  BY FullType DEF TypeOK
<1>1. CASE clients[c] = None \/ Swept(c, now)
  <2>1. Bucket(c, now) = [Tokens |-> Full, LastSeen |-> now]
    BY <1>1 DEF Bucket
  <2> QED BY <2>1, <1>0 DEF Available, Refilled
<1>2. CASE clients[c] # None /\ ~Swept(c, now)
  <2> DEFINE b == clients[c]
  <2>1. b.Tokens \in 0 .. Full /\ b.LastSeen \in 0 .. clock /\ Bucket(c, now) = b
    BY <1>2, BucketType DEF Bucket
  <2>2. b.Tokens >= Cost \/ (p > b.LastSeen /\ b.Tokens + (p - b.LastSeen) * Rate >= Cost)
    BY <1>2 DEF HasTokenBy
  <2> HIDE DEF b
  <2>3. CASE now > b.LastSeen
    <3>1. Available(c, now) = Least(Full, b.Tokens + (now - b.LastSeen) * Rate)
      BY <2>1, <2>3 DEF Available, Refilled
    <3>2. b.Tokens + (now - b.LastSeen) * Rate \in Int /\ b.Tokens + (now - b.LastSeen) * Rate >= Cost
      <4>1. now - b.LastSeen \in Int /\ p - b.LastSeen \in Int
            /\ 0 <= now - b.LastSeen /\ p - b.LastSeen <= now - b.LastSeen
        BY <1>0, <2>1, <2>3
      <4>2. /\ b.Tokens + (now - b.LastSeen) * Rate \in Int
            /\ b.Tokens + (p - b.LastSeen) * Rate \in Int
            /\ b.Tokens + (p - b.LastSeen) * Rate <= b.Tokens + (now - b.LastSeen) * Rate
        BY <2>1, <4>1, Gains
      <4>3. b.Tokens + 0 * Rate <= b.Tokens + (now - b.LastSeen) * Rate /\ 0 * Rate = 0
        BY <2>1, <4>1, Gains, NumbersAssumption
      <4> QED BY <1>0, <2>1, <2>2, <4>2, <4>3
    <3> QED BY <1>0, <3>1, <3>2 DEF Least
  <2>4. CASE ~(now > b.LastSeen)
    <3>1. Available(c, now) = b.Tokens
      BY <2>1, <2>4 DEF Available, Refilled
    <3>2. ~(p > b.LastSeen)
      BY <2>1, <2>4, <1>0
    <3> QED BY <2>2, <3>1, <3>2
  <2> QED BY <2>3, <2>4
<1> QED BY <1>1, <1>2

\* A refusal in between takes nothing from the token: the refill it saves and the
\* stamp it saves with it are of the same moment.
LEMMA RefusalKeepsToken ==
  ASSUME TypeOK, NEW c \in Clients, NEW p \in Int, NEW now \in 0 .. clock,
         HasTokenBy(clients[c], p), Available(c, now) < Cost
  PROVE  HasTokenBy([Tokens |-> Available(c, now), LastSeen |-> now], p)
<1>0. Full \in Nat /\ Cost \in Nat /\ Cost <= Full /\ clock \in Nat /\ Available(c, now) \in 0 .. Full
  BY FullType, AvailableType DEF TypeOK
<1>1. now < p
  BY <1>0, TokenIsThere
<1>2. clients[c] # None /\ ~Swept(c, now)
  <2>1. SUFFICES ASSUME clients[c] = None \/ Swept(c, now) PROVE FALSE
    OBVIOUS
  <2>2. Bucket(c, now) = [Tokens |-> Full, LastSeen |-> now]
    BY <2>1 DEF Bucket
  <2> QED BY <2>2, <1>0 DEF Available, Refilled
<1> DEFINE b == clients[c]
<1>3. b.Tokens \in 0 .. Full /\ b.LastSeen \in 0 .. clock /\ Bucket(c, now) = b
  BY <1>2, BucketType DEF Bucket
<1>4. b.Tokens >= Cost \/ (p > b.LastSeen /\ b.Tokens + (p - b.LastSeen) * Rate >= Cost)
  BY <1>2 DEF HasTokenBy
<1> HIDE DEF b
<1>5. Available(c, now) + (p - now) * Rate >= Cost
  <2>1. CASE now > b.LastSeen
    <3>1. Available(c, now) = Least(Full, b.Tokens + (now - b.LastSeen) * Rate)
      BY <1>3, <2>1 DEF Available, Refilled
    <3>2. now - b.LastSeen \in Int /\ p - now \in Int /\ 0 <= now - b.LastSeen
          /\ p - b.LastSeen = (now - b.LastSeen) + (p - now)
      BY <1>0, <1>3, <2>1
    <3>3. /\ (p - b.LastSeen) * Rate = (now - b.LastSeen) * Rate + (p - now) * Rate
          /\ (now - b.LastSeen) * Rate \in Int /\ (p - now) * Rate \in Int
          /\ (p - b.LastSeen) * Rate \in Int
      <4> DEFINE x == now - b.LastSeen
      <4> DEFINE y == p - now
      <4>1. x \in Int /\ y \in Int /\ p - b.LastSeen = x + y
        BY <3>2
      <4> HIDE DEF x, y
      <4>0. x <= x /\ y <= y
        BY <4>1
      <4>2. x * Rate \in Int /\ y * Rate \in Int /\ (x + y) * Rate = x * Rate + y * Rate
        BY <4>0, <4>1, TicksAdd, TicksWorth
      <4>3. (p - b.LastSeen) * Rate = x * Rate + y * Rate /\ (p - b.LastSeen) * Rate \in Int
        BY <4>1, <4>2
      <4> QED BY <4>2, <4>3 DEF x, y
    <3>4. Available(c, now) = b.Tokens + (now - b.LastSeen) * Rate
      BY <1>0, <1>3, <3>1, <3>3 DEF Least
    <3>5. ~(b.Tokens >= Cost)
      <4>1. b.Tokens + 0 * Rate <= b.Tokens + (now - b.LastSeen) * Rate /\ 0 * Rate = 0
        BY <1>3, <3>2, Gains, NumbersAssumption
      <4> QED BY <1>0, <1>3, <3>3, <3>4, <4>1
    <3> QED BY <1>0, <1>3, <1>4, <3>3, <3>4, <3>5
  <2>2. CASE ~(now > b.LastSeen)
    <3>1. Available(c, now) = b.Tokens
      BY <1>3, <2>2 DEF Available, Refilled
    <3>2. p - now \in Int /\ p - b.LastSeen \in Int /\ p - b.LastSeen <= p - now
      BY <1>0, <1>3, <2>2
    <3>3. /\ b.Tokens + (p - b.LastSeen) * Rate <= b.Tokens + (p - now) * Rate
          /\ b.Tokens + (p - b.LastSeen) * Rate \in Int /\ b.Tokens + (p - now) * Rate \in Int
      BY <1>3, <3>2, Gains
    <3> QED BY <1>0, <1>3, <1>4, <3>1, <3>3
  <2> QED BY <2>1, <2>2
<1> DEFINE next == [Tokens |-> Available(c, now), LastSeen |-> now]
<1>6. next.Tokens = Available(c, now) /\ next.LastSeen = now
  OBVIOUS
<1> HIDE DEF next
<1>7. HasTokenBy(next, p)
  BY <1>1, <1>5, <1>6 DEF HasTokenBy
<1> QED BY <1>7 DEF next

\* The wait that a refusal tells counts from its answer, which is not before its stamp.
LEMMA PromiseIsTrue ==
  ASSUME TypeOK, NEW t \in 0 .. Full, t < Cost, NEW now \in 0 .. clock
  PROVE  HasTokenBy([Tokens |-> t, LastSeen |-> now], clock + RetryAfter(t))
<1> DEFINE p == clock + RetryAfter(t)
<1>0. Full \in Nat /\ Cost \in Nat /\ clock \in Nat /\ t \in Nat /\ now \in Nat /\ now <= clock
  BY FullType DEF TypeOK
<1>1. RetryAfter(t) \in Int /\ t + RetryAfter(t) * Rate >= Cost
  BY WaitIsEnough
<1>2. RetryAfter(t) > 0
  <2>1. ASSUME RetryAfter(t) <= 0 PROVE FALSE
    <3>1. t + RetryAfter(t) * Rate <= t + 0 * Rate /\ 0 * Rate = 0 /\ t + RetryAfter(t) * Rate \in Int
      BY <1>1, <2>1, Gains, NumbersAssumption
    <3> QED BY <1>0, <1>1, <3>1
  <2> QED BY <1>1, <2>1
<1>3. p \in Int /\ p > now /\ RetryAfter(t) <= p - now
  BY <1>0, <1>1, <1>2
<1>4. t + RetryAfter(t) * Rate <= t + (p - now) * Rate
      /\ t + RetryAfter(t) * Rate \in Int /\ t + (p - now) * Rate \in Int
  <2> HIDE DEF p
  <2>1. p - now \in Int
    BY <1>0, <1>3
  <2> QED BY <1>1, <1>3, <2>1, Gains
<1>5. t + (p - now) * Rate >= Cost
  <2> HIDE DEF p
  <2> QED BY <1>0, <1>1, <1>4
<1> DEFINE next == [Tokens |-> t, LastSeen |-> now]
<1>6. next.Tokens = t /\ next.LastSeen = now
  OBVIOUS
<1> HIDE DEF next, p
<1>7. HasTokenBy(next, p)
  BY <1>3, <1>5, <1>6 DEF HasTokenBy
<1> QED BY <1>7 DEF next, p

LEMMA PromiseStep ==
  ASSUME TypeOK, PromiseInv, [Next]_vars
  PROVE  PromiseInv'
<1>1. CASE UNCHANGED <<clients, promise>>
  BY <1>1 DEF PromiseInv, HasTokenBy
<1>2. ASSUME NEW g \in Goroutines, Admit(g) \/ Deny(g) PROVE PromiseInv'
  <2> DEFINE c == pending[g].client
  <2> DEFINE now == pending[g].stamp
  <2> DEFINE left == Available(c, now)
  <2>1. c \in Clients /\ now \in 0 .. clock /\ pending[g] # None
    BY <1>2, PendingType DEF Admit, Deny
  <2>2. left \in 0 .. Full
    BY <2>1, AvailableType
  <2>3. ASSUME NEW d \in Clients \ {c}, promise'[d] # None
        PROVE  HasTokenBy(clients'[d], promise'[d])
    <3>1. promise'[d] = promise[d] /\ clients'[d] \in {None, clients[d]}
      BY <1>2, <2>1, <2>3 DEF Admit, Deny, ClientsAfter, TypeOK
    <3> QED BY <2>3, <3>1 DEF PromiseInv, HasTokenBy
  <2>4. ASSUME promise'[c] # None
        PROVE  HasTokenBy(clients'[c], promise'[c])
    <3>1. Deny(g)
      BY <1>2, <2>1, <2>4 DEF Admit, TypeOK
    <3> DEFINE until == clock + RetryAfter(left)
    <3>2. /\ left < Cost /\ clients'[c] = [Tokens |-> left, LastSeen |-> now]
          /\ promise'[c] = until \/ (promise[c] # None /\ promise'[c] = promise[c])
      BY <2>1, <3>1 DEF Deny, ClientsAfter, TypeOK, Least
    <3> HIDE DEF c, now, left, until
    <3>3. CASE promise'[c] = until
      <4>1. HasTokenBy([Tokens |-> left, LastSeen |-> now], until)
        BY <2>1, <2>2, <3>2, PromiseIsTrue DEF until
      <4> QED BY <3>2, <3>3, <4>1
    <3>4. CASE promise[c] # None /\ promise'[c] = promise[c]
      <4>1. promise[c] \in Int /\ HasTokenBy(clients[c], promise[c])
        BY <2>1, <3>4 DEF TypeOK, PromiseInv
      <4>2. HasTokenBy([Tokens |-> left, LastSeen |-> now], promise[c])
        BY <2>1, <3>2, <4>1, RefusalKeepsToken DEF left
      <4> QED BY <3>2, <3>4, <4>2
    <3> QED BY <3>2, <3>3, <3>4
  <2> HIDE DEF c
  <2> QED BY <2>1, <2>3, <2>4 DEF PromiseInv
<1>3. CASE Tick \/ (\E g \in Goroutines, c \in Clients : Arrive(g, c)) \/ UNCHANGED vars
  BY <1>1, <1>3 DEF Tick, Arrive, vars
<1> QED BY <1>2, <1>3 DEF Next

\* Retry-After is the truth, for any clients, burst, rate and order of the stamps:
\* what other requests of the same client do meanwhile does not move the moment.
THEOREM WaitsAreHonest == Spec => RetryAfterHonest
<1>1. Init => PromiseInv
  BY DEF Init, PromiseInv
<1>2. Spec => [](TypeOK /\ PromiseInv)
  BY <1>1, LimiterTypeInit, LimiterTypeStep, PromiseStep, PTL DEF Spec
<1>3. TypeOK /\ PromiseInv =>
        \A g \in Goroutines :
          Deny(g) => \/ promise[pending[g].client] = None
                     \/ pending[g].stamp < promise[pending[g].client]
  <2> SUFFICES ASSUME TypeOK, PromiseInv, NEW g \in Goroutines, Deny(g),
                      promise[pending[g].client] # None
               PROVE  pending[g].stamp < promise[pending[g].client]
    OBVIOUS
  <2> DEFINE c == pending[g].client
  <2> DEFINE now == pending[g].stamp
  <2>1. c \in Clients /\ now \in 0 .. clock /\ Available(c, now) < Cost
    BY PendingType DEF Deny
  <2>2. promise[c] \in Int /\ HasTokenBy(clients[c], promise[c])
    BY <2>1 DEF TypeOK, PromiseInv
  <2>3. Available(c, now) \in 0 .. Full /\ Full \in Nat /\ Cost \in Nat /\ now \in Int
    BY <2>1, AvailableType, FullType DEF TypeOK
  <2> HIDE DEF c, now
  <2>4. ~(promise[c] <= now)
    BY <2>1, <2>2, <2>3, TokenIsThere
  <2> QED BY <2>2, <2>3, <2>4 DEF c, now
<1> QED BY <1>2, <1>3, PTL DEF RetryAfterHonest

-----------------------------------------------------------------------------
(* The clients that are forgotten.                                         *)

\* A request waits for the mutex no longer than a client may be idle.
DelaysAreShort == MaxDelay <= ClientTTL

\* Whoever is there was seen at most its time to live before the last sweep: those
\* who were idle for longer went then, and who came since had a stamp not much older.
SweepInv ==
  /\ lastSweepAt = None => \A c \in Clients : clients[c] = None
  /\ lastSweepAt # None =>
       /\ lastSweepAt <= clock
       /\ \A c \in Clients : clients[c] # None => lastSweepAt - clients[c].LastSeen <= ClientTTL
  /\ \A g \in Goroutines : pending[g] # None => clock - pending[g].stamp <= MaxDelay

LEMMA SweepNumbers ==
  /\ ClientTTL \in Nat /\ SweepEvery \in Nat /\ SweepEvery > 0 /\ MaxDelay \in Nat
BY NumbersAssumption

\* What a request leaves of the other clients.
LEMMA SweepLeaves ==
  ASSUME TypeOK, SweepInv, NEW c \in Clients, NEW d \in Clients \ {c}, NEW now \in 0 .. clock,
         NEW t, ClientsAfter(c, now, t)[d] # None
  PROVE  /\ ClientsAfter(c, now, t)[d] = clients[d] /\ clients[d] # None /\ lastSweepAt # None
         /\ SweepIsDue(now) => now - clients[d].LastSeen <= ClientTTL
<1>1. ClientsAfter(c, now, t)[d] = IF Swept(d, now) THEN None ELSE clients[d]
  BY DEF ClientsAfter
<1>2. ~Swept(d, now) /\ clients[d] # None
  BY <1>1
<1>3. clients[d].LastSeen \in Int /\ now \in Int
  BY <1>2, BucketType DEF TypeOK
<1>4. SweepIsDue(now) => now - clients[d].LastSeen <= ClientTTL
  BY <1>2, <1>3, SweepNumbers DEF Swept
<1> QED BY <1>1, <1>2, <1>4 DEF SweepInv

LEMMA SweepStep ==
  ASSUME DelaysAreShort, TypeOK, SweepInv, [Next]_vars
  PROVE  SweepInv'
<1>0. clock \in Nat
  BY DEF TypeOK
<1>1. CASE UNCHANGED vars
  BY <1>1 DEF vars, SweepInv
<1>2. CASE Tick
  <2>1. clock' = clock + 1 /\ lastSweepAt' = lastSweepAt /\ clients' = clients /\ pending' = pending
    BY <1>2 DEF Tick
  <2>2. ASSUME NEW g \in Goroutines, pending[g] # None
        PROVE  clock' - pending'[g].stamp <= MaxDelay
    <3>1. clock < pending[g].stamp + MaxDelay /\ pending[g].stamp \in Int
      BY <1>2, <2>2, PendingType DEF Tick
    <3> QED BY <1>0, <2>1, <3>1, SweepNumbers
  <2>3. lastSweepAt # None => lastSweepAt <= clock'
    BY <1>0, <2>1 DEF SweepInv, TypeOK
  <2> QED BY <2>1, <2>2, <2>3 DEF SweepInv
<1>3. ASSUME NEW g \in Goroutines, NEW c \in Clients, Arrive(g, c) PROVE SweepInv'
  <2>1. /\ pending' = [pending EXCEPT ![g] = [client |-> c, stamp |-> clock]]
        /\ clock' = clock /\ lastSweepAt' = lastSweepAt /\ clients' = clients
    BY <1>3 DEF Arrive
  <2>2. pending'[g].stamp = clock /\ \A h \in Goroutines \ {g} : pending'[h] = pending[h]
    BY <2>1 DEF TypeOK
  <2>3. \A h \in Goroutines : pending'[h] # None => clock' - pending'[h].stamp <= MaxDelay
    BY <1>0, <2>1, <2>2, SweepNumbers DEF SweepInv
  <2> QED BY <2>1, <2>3 DEF SweepInv
<1>4. ASSUME NEW g \in Goroutines, Admit(g) \/ Deny(g) PROVE SweepInv'
  <2> DEFINE c == pending[g].client
  <2> DEFINE now == pending[g].stamp
  <2>1. c \in Clients /\ now \in 0 .. clock /\ pending[g] # None
    BY <1>4, PendingType DEF Admit, Deny
  <2>2. PICK t : clients' = ClientsAfter(c, now, t)
    BY <1>4 DEF Admit, Deny
  <2>3. /\ lastSweepAt' = NextSweepAt(now) /\ clock' = clock
        /\ pending' = [pending EXCEPT ![g] = None]
    BY <1>4 DEF Admit, Deny
  <2>4. clock - now <= MaxDelay
    BY <2>1 DEF SweepInv
  <2> HIDE DEF c, now
  <2>5. /\ lastSweepAt' # None /\ lastSweepAt' \in Nat /\ lastSweepAt' <= clock
        /\ SweepIsDue(now) => lastSweepAt' = now
        /\ ~SweepIsDue(now) /\ lastSweepAt # None => lastSweepAt' = lastSweepAt
    <3>1. now \in Nat /\ now # None /\ now <= clock
      BY <1>0, <2>1, NoneAssumption
    <3> QED BY <2>3, <3>1 DEF NextSweepAt, SweepInv, TypeOK
  <2>6. ASSUME NEW d \in Clients, clients'[d] # None
        PROVE  lastSweepAt' - clients'[d].LastSeen <= ClientTTL
    <3>1. CASE d = c
      <4>1. clients'[d].LastSeen = now
        BY <2>2, <3>1 DEF ClientsAfter
      <4>2. now \in Nat /\ MaxDelay <= ClientTTL
        BY <1>0, <2>1 DEF DelaysAreShort
      <4>3. lastSweepAt' - now <= ClientTTL
        <5> DEFINE swept == lastSweepAt'
        <5>1. swept \in Nat /\ swept <= clock
          BY <2>5
        <5> HIDE DEF swept
        <5>2. swept - now <= clock - now
          BY <1>0, <4>2, <5>1
        <5>3. MaxDelay \in Nat /\ ClientTTL \in Nat
          BY SweepNumbers
        <5>4. clock - now <= MaxDelay
          BY <2>4
        <5>5. swept - now <= ClientTTL
          BY <1>0, <4>2, <5>1, <5>2, <5>3, <5>4
        <5> QED BY <5>5 DEF swept
      <4> QED BY <4>1, <4>3
    <3>2. CASE d # c
      <4>1. /\ clients'[d] = clients[d] /\ clients[d] # None /\ lastSweepAt # None
            /\ SweepIsDue(now) => now - clients[d].LastSeen <= ClientTTL
        BY <2>1, <2>2, <2>6, <3>2, SweepLeaves
      <4>2. ~SweepIsDue(now) => lastSweepAt' - clients[d].LastSeen <= ClientTTL
        BY <2>5, <4>1 DEF SweepInv
      <4> QED BY <2>5, <4>1, <4>2
    <3> QED BY <3>1, <3>2
  <2>7. ASSUME NEW h \in Goroutines, pending'[h] # None
        PROVE  clock' - pending'[h].stamp <= MaxDelay
    BY <2>3, <2>7 DEF SweepInv, TypeOK
  <2> QED BY <2>3, <2>5, <2>6, <2>7 DEF SweepInv
<1> QED BY <1>1, <1>2, <1>3, <1>4 DEF Next

\* Where no request waits for the mutex for longer than a client may be idle, none that
\* was idle for longer than that and a sweep's period is still there after a request,
\* whatever client the request is of.
THEOREM IdleAreForgotten ==
  ASSUME DelaysAreShort
  PROVE  Spec => IdleClientsForgotten
<1>1. Init => SweepInv
  BY DEF Init, SweepInv
<1>2. DelaysAreShort /\ TypeOK /\ SweepInv /\ [Next]_vars => SweepInv'
  BY SweepStep
<1>3. Spec => [](TypeOK /\ SweepInv)
  BY <1>1, <1>2, LimiterTypeInit, LimiterTypeStep, PTL DEF Spec
<1>4. TypeOK /\ SweepInv =>
        \A g \in Goroutines :
          (Admit(g) \/ Deny(g)) =>
            \A c \in Clients :
              clients'[c] # None =>
                pending[g].stamp - clients'[c].LastSeen <= ClientTTL + SweepEvery
  <2> SUFFICES ASSUME TypeOK, SweepInv, NEW g \in Goroutines, Admit(g) \/ Deny(g),
                      NEW d \in Clients, clients'[d] # None
               PROVE  pending[g].stamp - clients'[d].LastSeen <= ClientTTL + SweepEvery
    OBVIOUS
  <2> DEFINE c == pending[g].client
  <2> DEFINE now == pending[g].stamp
  <2>1. c \in Clients /\ now \in 0 .. clock /\ clock \in Nat
    BY PendingType DEF Admit, Deny, TypeOK
  <2>2. PICK t : clients' = ClientsAfter(c, now, t)
    BY DEF Admit, Deny
  <2> HIDE DEF c, now
  <2>3. CASE d = c
    <3>1. clients'[d].LastSeen = now
      BY <2>2, <2>3 DEF ClientsAfter
    <3>2. now - clients'[d].LastSeen <= ClientTTL + SweepEvery
      BY <2>1, <3>1, SweepNumbers
    <3> QED BY <3>2 DEF now
  <2>4. CASE d # c
    <3>1. /\ clients'[d] = clients[d] /\ clients[d] # None /\ lastSweepAt # None
          /\ SweepIsDue(now) => now - clients[d].LastSeen <= ClientTTL
      BY <2>1, <2>2, <2>4, SweepLeaves
    <3>2. clients[d].LastSeen \in Int /\ lastSweepAt \in Int /\ now \in Int
      BY <2>1, <3>1, BucketType DEF TypeOK
    <3>3. ~SweepIsDue(now) =>
            now - lastSweepAt < SweepEvery /\ lastSweepAt - clients[d].LastSeen <= ClientTTL
      BY <3>1, <3>2, SweepNumbers DEF SweepIsDue, SweepInv
    <3>4. now - clients'[d].LastSeen <= ClientTTL + SweepEvery
      BY <3>1, <3>2, <3>3, SweepNumbers
    <3> QED BY <3>4 DEF now
  <2> QED BY <2>3, <2>4
<1> QED BY <1>3, <1>4, PTL DEF IdleClientsForgotten
=============================================================================
