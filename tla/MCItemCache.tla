----------------------------- MODULE MCItemCache -----------------------------
\* The details cache with item entries, for runs with one worker at a time.
EXTENDS DetailsCache, WikiEntries, FiniteSetsExt

MCDetails == {d \in ItemWikiDetails : d.ProducersParsed \/ d.width = 1}

\* Braces, and the text of each entry.
MCSize(m) == 1 + MapThenSumSet(LAMBDA k : IF m[k] = None THEN 0 ELSE m[k].width, Keys)
=============================================================================
