---------------------------- MODULE MCRateLimiter ----------------------------
EXTENDS RateLimiterBudget, TLC

\* Goroutines differ in name only.
GoroutineSymmetry == Permutations(Goroutines)
=============================================================================
