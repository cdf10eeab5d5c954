----------------------------- MODULE RateLimiter -----------------------------
(***************************************************************************)
(* The token buckets of cmd/web/rate_limit.go, one for each client.        *)
(*                                                                         *)
(* A request reads the clock before it asks for the limiter's mutex, so    *)
(* requests enter Allow in another order than that of their stamps.        *)
(* Time is counted in ticks and tokens in units: a bucket gains Rate units *)
(* a tick and a request costs Cost of them, so that Rate / Cost is         *)
(* ratePerSec times the length of a tick and no fraction is left.          *)
(***************************************************************************)
EXTENDS Integers

CONSTANTS
    Goroutines,  \* requests that can be in the handler at the same time
    Clients,     \* client addresses, "unknown" for a blank one
    Burst,       \* tokens of a full bucket
    Cost,        \* units in a token
    Rate,        \* units gained in a tick
    Second,      \* ticks in a second: Retry-After is a number of seconds
    ClientTTL,   \* ticks after which an idle client may be forgotten
    SweepEvery,  \* ticks between two sweeps
    MaxTime,     \* bound: the clock stops there
    MaxDelay,    \* bound: ticks a request takes at most from stamp to mutex
    None

ASSUME NumbersAssumption ==
    /\ {Burst, Cost, Rate, Second, ClientTTL, SweepEvery} \subseteq Nat \ {0}
    /\ {MaxTime, MaxDelay} \subseteq Nat

ASSUME NoneAssumption ==
    /\ None \notin Int
    /\ None \notin [Tokens : Int, LastSeen : Int]
    /\ None \notin [client : Clients, stamp : Int]

Full == Burst * Cost

VARIABLES
    clock,        \* what time.Now() reads
    lastSweepAt,
    clients,      \* clients[c]: the bucket of c, or None
    pending,      \* pending[g]: the client and the stamp of a request, or None
    \* History variable, of no effect on the others:
    promise       \* promise[c]: the end of the wait asked of c, or None

vars == <<clock, lastSweepAt, clients, pending, promise>>

-----------------------------------------------------------------------------
Least(a, b) == IF a < b THEN a ELSE b

TypeOK ==
    /\ clock \in Nat
    /\ lastSweepAt \in Nat \union {None}
    /\ clients \in [Clients -> [Tokens : 0 .. Full, LastSeen : 0 .. clock] \union {None}]
    /\ pending \in [Goroutines -> [client : Clients, stamp : 0 .. clock] \union {None}]
    /\ promise \in [Clients -> Int \union {None}]

Init ==
    /\ clock = 0
    /\ lastSweepAt = None
    /\ clients = [c \in Clients |-> None]
    /\ pending = [g \in Goroutines |-> None]
    /\ promise = [c \in Clients |-> None]

\* Time passes, but not so far that a request has waited more than MaxDelay.
Tick ==
    /\ clock < MaxTime
    /\ \A g \in Goroutines : pending[g] # None => clock < pending[g].stamp + MaxDelay
    /\ clock' = clock + 1
    /\ UNCHANGED <<lastSweepAt, clients, pending, promise>>

\* The handler evaluates time.Now() and calls Allow.
Arrive(g, c) ==
    /\ pending[g] = None
    /\ pending' = [pending EXCEPT ![g] = [client |-> c, stamp |-> clock]]
    /\ UNCHANGED <<clock, lastSweepAt, clients, promise>>

-----------------------------------------------------------------------------
(* Allow, from Lock to the deferred Unlock, is one step.                   *)

SweepIsDue(now) == lastSweepAt # None /\ now - lastSweepAt >= SweepEvery

\* MUTANT: the time of the last sweep is set by every request.
NextSweepAtEveryRequest(now) == now

NextSweepAt(now) ==
    IF lastSweepAt = None \/ SweepIsDue(now) THEN now ELSE lastSweepAt

\* MUTANT: a sweep drops every bucket.
SweptAnyway(c, now) == SweepIsDue(now) /\ clients[c] # None

Swept(c, now) ==
    /\ SweepIsDue(now)
    /\ clients[c] # None
    /\ now - clients[c].LastSeen > ClientTTL

\* The bucket the request finds, or the full one that is made for it.
Bucket(c, now) ==
    IF clients[c] = None \/ Swept(c, now)
    THEN [Tokens |-> Full, LastSeen |-> now]
    ELSE clients[c]

\* MUTANT: time that went backwards is charged for.
RefilledBothWays(b, now) == Least(Full, b.Tokens + (now - b.LastSeen) * Rate)

Refilled(b, now) ==
    IF now > b.LastSeen
    THEN Least(Full, b.Tokens + (now - b.LastSeen) * Rate)
    ELSE b.Tokens

\* What is in the bucket when the request is judged.
Available(c, now) == Refilled(Bucket(c, now), now)

\* The map after a request of c, which leaves tokens in its bucket.
ClientsAfter(c, now, tokens) ==
    [d \in Clients |->
        IF d = c THEN [Tokens |-> tokens, LastSeen |-> now]
        ELSE IF Swept(d, now) THEN None ELSE clients[d]]

Admit(g) ==
    /\ pending[g] # None
    /\ LET c == pending[g].client
           now == pending[g].stamp
       IN  /\ Available(c, now) >= Cost
           /\ clients' = ClientsAfter(c, now, Available(c, now) - Cost)
           /\ lastSweepAt' = NextSweepAt(now)
           /\ promise' = [promise EXCEPT ![c] = None]
    /\ pending' = [pending EXCEPT ![g] = None]
    /\ UNCHANGED clock

CeilDiv(a, b) == (a + b - 1) \div b

\* The wait of the Retry-After header, in ticks but a whole number of seconds.
RetryAfter(tokens) == Second * CeilDiv(CeilDiv(Cost - tokens, Rate), Second)

\* MUTANT: Deny saves the new LastSeen and not the tokens refilled up to it.
DenyUnrefilled(g) ==
    /\ pending[g] # None
    /\ LET c == pending[g].client
           now == pending[g].stamp
           until == clock + RetryAfter(Available(c, now))
       IN  /\ Available(c, now) < Cost
           /\ clients' = ClientsAfter(c, now, Bucket(c, now).Tokens)
           /\ lastSweepAt' = NextSweepAt(now)
           /\ promise' = [promise EXCEPT ![c] = IF @ = None THEN until ELSE Least(@, until)]
    /\ pending' = [pending EXCEPT ![g] = None]
    /\ UNCHANGED clock

\* The client reads the answer now or later, and waits from then on.
Deny(g) ==
    /\ pending[g] # None
    /\ LET c == pending[g].client
           now == pending[g].stamp
           until == clock + RetryAfter(Available(c, now))
       IN  /\ Available(c, now) < Cost
           /\ clients' = ClientsAfter(c, now, Available(c, now))
           /\ lastSweepAt' = NextSweepAt(now)
           /\ promise' = [promise EXCEPT ![c] = IF @ = None THEN until ELSE Least(@, until)]
    /\ pending' = [pending EXCEPT ![g] = None]
    /\ UNCHANGED clock

Next ==
    \/ Tick
    \/ \E g \in Goroutines, c \in Clients : Arrive(g, c)
    \/ \E g \in Goroutines : Admit(g) \/ Deny(g)

Spec == Init /\ [][Next]_vars
-----------------------------------------------------------------------------
\* A client that waits as long as it was told, and none of whose requests was
\* admitted meanwhile, is not refused again: neither retries that come too early
\* nor other clients' requests and sweeps push the end of the wait back.
RetryAfterHonest ==
    [][\A g \in Goroutines :
         Deny(g) => \/ promise[pending[g].client] = None
                    \/ pending[g].stamp < promise[pending[g].client]]_vars

\* Under traffic of any client, every other client that is idle is forgotten at
\* most SweepEvery after its time to live: no rate of requests starves the sweep.
IdleClientsForgotten ==
    [][\A g \in Goroutines :
         (Admit(g) \/ Deny(g)) =>
           \A c \in Clients :
             clients'[c] # None =>
               pending[g].stamp - clients'[c].LastSeen <= ClientTTL + SweepEvery]_vars
=============================================================================
