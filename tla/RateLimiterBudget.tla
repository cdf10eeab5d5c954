-------------------------- MODULE RateLimiterBudget --------------------------
(***************************************************************************)
(* The rate limiter watched from outside: how many requests a client gets  *)
(* through in a window of time that may be opened at any moment.           *)
(***************************************************************************)
EXTENDS RateLimiter

CONSTANT Watched    \* the clients that are watched

ASSUME WatchedAssumption == Watched \subseteq Clients

VARIABLES
    start,        \* start[c]: when the window of c was opened
    admitted,     \* admitted[c]: requests of c stamped since, and let through
    seen,         \* seen[c]: the stamp that last set or dropped c's bucket
    rewound       \* rewound[c]: ticks seen[c] has moved back since start[c]

watch == <<start, admitted, seen, rewound>>

WatchTypeOK ==
    /\ start \in [Watched -> 0 .. clock]
    /\ admitted \in [Watched -> Nat]
    /\ seen \in [Watched -> 0 .. clock]
    /\ rewound \in [Watched -> Nat]

WatchInit ==
    /\ Init
    /\ start = [c \in Watched |-> 0]
    /\ admitted = [c \in Watched |-> 0]
    /\ seen = [c \in Watched |-> 0]
    /\ rewound = [c \in Watched |-> 0]

OpenWindow(c) ==
    /\ start' = [start EXCEPT ![c] = clock]
    /\ admitted' = [admitted EXCEPT ![c] = 0]
    /\ rewound' = [rewound EXCEPT ![c] = 0]
    /\ UNCHANGED <<vars, seen>>

\* A bucket that is dropped counts as one that is full when it is dropped.
SeenBefore(c, now) == IF Swept(c, now) THEN now ELSE seen[c]

Observe(c, now) ==
    /\ seen' = [d \in Watched |-> IF d = c THEN now ELSE SeenBefore(d, now)]
    /\ rewound' = [d \in Watched |->
                     IF d = c /\ now < SeenBefore(d, now)
                     THEN rewound[d] + (SeenBefore(d, now) - now) ELSE rewound[d]]
    /\ UNCHANGED start

WatchAdmit(g) ==
    /\ Admit(g)
    /\ LET c == pending[g].client
           now == pending[g].stamp
       IN  /\ Observe(c, now)
           /\ admitted' = [d \in Watched |->
                             IF d = c /\ now >= start[d] THEN admitted[d] + 1 ELSE admitted[d]]

WatchDeny(g) ==
    /\ Deny(g)
    /\ Observe(pending[g].client, pending[g].stamp)
    /\ UNCHANGED admitted

WatchNext ==
    \/ Tick /\ UNCHANGED watch
    \/ \E g \in Goroutines, c \in Clients : Arrive(g, c) /\ UNCHANGED watch
    \/ \E c \in Watched : OpenWindow(c)
    \/ \E g \in Goroutines : WatchAdmit(g) \/ WatchDeny(g)

WatchSpec == WatchInit /\ [][WatchNext]_<<vars, watch>>
-----------------------------------------------------------------------------
\* An idle bucket is full before it may be dropped, as it is with the defaults.
BurstRefillsInTime == Full <= ClientTTL * Rate

\* In any window of time a client gets through no more requests than the burst
\* and the refill of the window pay for, sweeps and new buckets included.
\* A stamp older than the bucket's moves LastSeen back, and the ticks it moves
\* back are paid for twice: they are the only excess.
AdmissionBound ==
    BurstRefillsInTime =>
      \A c \in Watched :
        admitted[c] * Cost <= Full + (clock - start[c] + rewound[c]) * Rate
=============================================================================
