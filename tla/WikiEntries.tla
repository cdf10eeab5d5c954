----------------------------- MODULE WikiEntries -----------------------------
(***************************************************************************)
(* The two kinds of entry the details cache is used with, reduced to what  *)
(* decides whether an entry is good enough, and to the length of its JSON  *)
(* text, which decides what two overlapping saves leave behind; and the    *)
(* fetches of cmd/web/wiki.go that build them.                             *)
(***************************************************************************)
EXTENDS Integers

Widths == 1 .. 2

machineDetailsCacheVersion == 1

\* MachineWikiDetails, in this format or in an older one, in which the missing
\* fields decode to false and 0.
MachineWikiDetails ==
    [DataParsed : BOOLEAN, ModuleSlotsParsed : BOOLEAN,
     CacheVersion : 0 .. machineDetailsCacheVersion, width : Widths]

\* The test in machineDetailsCache.GetOrFetch.
MachineIsCurrent(d) ==
    /\ d.DataParsed
    /\ d.ModuleSlotsParsed
    /\ d.CacheVersion = machineDetailsCacheVersion

\* The numbers of candidate pages: the infobox of the machine's own name and,
\* for two generic names, those of three machines that go by it.
machineInfoboxCandidates == {1, 4}

\* A page of the wiki as a fetch finds it: text says that the request succeeded
\* and brought a text that is not blank, the others what is written in it.
MachinePages == [text : BOOLEAN, speed : BOOLEAN, slots : BOOLEAN, width : Widths]
RecipePages  == [text : BOOLEAN, time : BOOLEAN, width : Widths]

\* fetchWikiWikitext returns no error.
fetchWikiWikitext(page) == page.text

\* The first page that a loop over the candidates does not skip, if there is one.
FirstOf(pages, usable) ==
    {pages[i] : i \in {n \in DOMAIN pages :
                         pages[n] \in usable /\ \A m \in 1 .. n - 1 : pages[m] \notin usable}}

\* Many generic pages have a speed and no number of slots: the search goes on.
UsableMachines ==
    {page \in MachinePages : fetchWikiWikitext(page) /\ page.speed /\ page.slots}

\* The other numbers are 0 when they are not in the text.
MachineEntry(page) ==
    [DataParsed |-> TRUE, ModuleSlotsParsed |-> page.slots,
     CacheVersion |-> machineDetailsCacheVersion, width |-> page.width]

\* What fetchMachineDetailsFromWiki returns, when it returns no error.
FetchedMachines ==
    UNION {{MachineEntry(page) : page \in FirstOf(pages, UsableMachines)} :
           pages \in UNION {[1 .. n -> MachinePages] : n \in machineInfoboxCandidates}}

\* ItemWikiDetails, with the producers or from before they were parsed.
ItemWikiDetails == [ProducersParsed : BOOLEAN, width : Widths]

\* The test in itemDetailsCache.GetOrFetch.
ItemIsCurrent(d) == d.ProducersParsed

\* parseRecipeFromWikitext needs the time; the amount is 1 when it is left out.
UsableRecipes == {page \in RecipePages : fetchWikiWikitext(page) /\ page.time}

\* The producers count as parsed even when the page names none.
ItemEntry(page) == [ProducersParsed |-> TRUE, width |-> page.width]

\* What fetchItemDetailsFromWiki returns, when it returns no error: an item has
\* one candidate.
FetchedItems ==
    UNION {{ItemEntry(page) : page \in FirstOf(<<p>>, UsableRecipes)} : p \in RecipePages}
=============================================================================
