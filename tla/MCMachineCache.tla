--------------------------- MODULE MCMachineCache ---------------------------
\* The details cache with machine entries, for runs with several workers.
EXTENDS DetailsCache, WikiEntries, FiniteSetsExt

\* One entry of each age a file can hold: before the flags were kept, before
\* the version was, and a current one.
MCDetails ==
    {d \in MachineWikiDetails :
        /\ d.DataParsed = d.ModuleSlotsParsed
        /\ d.CacheVersion = 1 => d.DataParsed
        /\ d.width = IF d.CacheVersion = 1 THEN 2 ELSE 1}

MCFetched == FetchedMachines \intersect MCDetails

\* Braces, and the text of each entry.
MCSize(m) == 1 + MapThenSumSet(LAMBDA k : IF m[k] = None THEN 0 ELSE m[k].width, Keys)
=============================================================================
