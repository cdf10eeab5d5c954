----------------------------- MODULE MCPipeline ------------------------------
EXTENDS Pipeline, TLC

CONSTANTS r1, r2

AllAbsent == [name \in DOMAIN Defaults |-> Absent]
With(name, raw) == [AllAbsent EXCEPT ![name] = raw]
OutOfRange == {With("rateRPM", 0), With("rateBurst", MaxSetting + 1), With("readTimeout", 0)}
MalformedOnes == {With(name, Malformed) : name \in DOMAIN Defaults \ Texts}

\* The defaults; redirects behind a proxy, with another CACHE_DIR and values at the
\* ends of their ranges; and what no process serves with.
Enforcing ==
    [With("enforceHTTPS", TRUE) EXCEPT !["rateRPM"] = 1, !["rateBurst"] = MaxSetting,
                                       !["shutdownTimeout"] = 1, !["requireNonRoot"] = TRUE,
                                       !["cacheDir"] = "elsewhere"]
MCEnvironments ==
    {[env |-> e, root |-> FALSE] : e \in {AllAbsent, Enforcing} \union OutOfRange \union MalformedOnes}
      \union {[env |-> Enforcing, root |-> TRUE]}

\* Two scrapes, and what they can tell apart.
MCAsked == ("/metrics" :> 2) @@ ("/plan" :> 2) @@ ("/readyz" :> 1) @@ ("/partials/item-details" :> 1)
MCPages == ("item" :> 1) @@ ("machine" :> 2)
ConnectionSymmetry == Permutations(Connections)
=============================================================================
