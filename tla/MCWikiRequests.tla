--------------------------- MODULE MCWikiRequests ----------------------------
EXTENDS WikiRequests, TLC

CONSTANTS item, machine, h1, h2

\* An item, and a machine that makes it: together more pages than a timeout allows.
MCEntries == {item, machine}
MCMakers == (item :> {machine}) @@ (machine :> {})
MCPages == (item :> 1) @@ (machine :> 2)
=============================================================================
