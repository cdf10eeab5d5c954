---------------------------- MODULE WikiRequests -----------------------------
(***************************************************************************)
(* The requests of the life cycle that take time: those of an item's or a  *)
(* machine's details (/partials/item-details, machine-details and          *)
(* module-stats), which ask the wiki for one page after another            *)
(* (cmd/web/wiki.go), against the timeouts of config.go.                   *)
(*                                                                         *)
(* ServerLifecycle has the listener, main and the clocks; a handler of it  *)
(* is here a request that looks up an entry, of an item and then of the    *)
(* machine that makes it, and fetches one that is not current. A page      *)
(* takes as long as the client's timeout at most, a request as long as its *)
(* pages: nothing that the server does, or the end of its connection, is   *)
(* noticed by it before it writes its reply.                               *)
(***************************************************************************)
EXTENDS ServerLifecycle

CONSTANTS
    Entries,        \* items and machines
    Makers,         \* Makers[e]: the machines one of which is looked up after e
    Pages,          \* Pages[e]: pages of the wiki that are tried for e
    WikiTimeout     \* ticks that the client waits for a page

ASSUME RequestsAssumption ==
    /\ Makers \in [Entries -> SUBSET Entries]
    /\ \A e \in Entries : \A m \in Makers[e] : Makers[m] = {}
    /\ Pages \in [Entries -> Nat \ {0}]
    /\ WikiTimeout \in Nat \ {0}

VARIABLES
    known,      \* known[e]: the entry in its cache, "none", "older" or "current"
    at,         \* at[h]: the next step of a request, its entry, what it had of that, the page
    waited,     \* waited[h]: ticks that its page has taken
    \* History variables, of no effect on the others:
    tried,      \* tried[h]: pages that the request has asked for
    promised    \* promised[h]: entries that were current when it came

wiki == <<known, at, waited, tried, promised>>
all == <<vars, wiki>>

Levels == {"none", "older", "current"}

Nothing == [step |-> "idle", entry |-> None, had |-> "none", page |-> 0]

WikiInit ==
    /\ Init
    /\ known \in [Entries -> Levels]
    /\ at = [h \in Handlers |-> Nothing]
    /\ waited = [h \in Handlers |-> 0]
    /\ tried = [h \in Handlers |-> 0]
    /\ promised = [h \in Handlers |-> {}]

-----------------------------------------------------------------------------
Continue(h, step, entry) ==
    /\ at' = [at EXCEPT ![h] = [step |-> step, entry |-> entry, had |-> "none", page |-> 0]]
    /\ UNCHANGED <<waited, tried>>

Ask(h, e) ==
    /\ Accept(h)
    /\ Continue(h, "lookup", e)
    /\ promised' = [promised EXCEPT ![h] = {d \in Entries : known[d] = "current"}]
    /\ UNCHANGED known

ReplyNext(h) == Continue(h, "reply", None)

\* The details of e are had: those of a machine that makes it are next. A machine
\* has none, nor may an item from before producers were parsed.
GoOn(h, e, level) ==
    \/ \E m \in Makers[e] : Continue(h, "lookup", m)
    \/ (Makers[e] = {} \/ level = "older") /\ ReplyNext(h)

AskForPage(h, had, page) ==
    /\ at' = [at EXCEPT ![h] = [step |-> "fetch", entry |-> @.entry, had |-> had, page |-> page]]
    /\ waited' = [waited EXCEPT ![h] = 0]
    /\ tried' = [tried EXCEPT ![h] = @ + 1]

LookUp(h) ==
    /\ Running
    /\ at[h].step = "lookup"
    /\ IF known[at[h].entry] = "current" THEN GoOn(h, at[h].entry, "current")
       ELSE AskForPage(h, known[at[h].entry], 1)
    /\ UNCHANGED <<vars, known, promised>>

Fetching(h) == Running /\ at[h].step = "fetch" /\ UNCHANGED <<vars, promised>>

\* The page has the data, in time, and the entry is stored.
PageHasData(h) ==
    /\ Fetching(h)
    /\ waited[h] < WikiTimeout
    /\ known' = [known EXCEPT ![at[h].entry] = "current"]
    /\ GoOn(h, at[h].entry, "current")

LastPage(h) == at[h].page = Pages[at[h].entry]

\* MUTANT: what the request had is put back when its refresh fails.
PageFailsAndPutsBack(h) ==
    /\ Fetching(h)
    /\ IF LastPage(h)
       THEN /\ known' = [known EXCEPT ![at[h].entry] = at[h].had]
            /\ IF at[h].had = "none" THEN ReplyNext(h) ELSE GoOn(h, at[h].entry, "older")
       ELSE AskForPage(h, at[h].had, at[h].page + 1) /\ UNCHANGED known

\* MUTANT: one page too many is tried.
PageFailsOnceMore(h) ==
    /\ Fetching(h)
    /\ UNCHANGED known
    /\ IF at[h].page > Pages[at[h].entry]
       THEN IF at[h].had = "none" THEN ReplyNext(h) ELSE GoOn(h, at[h].entry, "older")
       ELSE AskForPage(h, at[h].had, at[h].page + 1)

\* MUTANT: a page that does not come is waited for in vain.
PageFailsInTime(h) ==
    /\ Fetching(h)
    /\ waited[h] < WikiTimeout
    /\ UNCHANGED known
    /\ IF ~LastPage(h) THEN AskForPage(h, at[h].had, at[h].page + 1)
       ELSE IF at[h].had = "none" THEN ReplyNext(h) ELSE GoOn(h, at[h].entry, at[h].had)

\* The page cannot be had, lacks the data or takes too long. After the last one the
\* entry that the request has had, if any, is used as it is.
PageFails(h) ==
    /\ Fetching(h)
    /\ UNCHANGED known
    /\ IF ~LastPage(h) THEN AskForPage(h, at[h].had, at[h].page + 1)
       ELSE IF at[h].had = "none" THEN ReplyNext(h)
       ELSE GoOn(h, at[h].entry, at[h].had)

\* The handler returns, whether or not its reply can still be written.
Return(h) ==
    /\ at[h].step = "reply"
    /\ Finish(h)
    /\ at' = [at EXCEPT ![h] = Nothing]
    /\ waited' = [waited EXCEPT ![h] = 0]
    /\ tried' = [tried EXCEPT ![h] = 0]
    /\ promised' = [promised EXCEPT ![h] = {}]
    /\ UNCHANGED known

\* MUTANT: the client waits for a page however long it takes.
EndlesslyPatient(h) == at[h].step = "fetch"

\* Nothing but a page takes time, and none more than the client waits.
Patient(h) == at[h].step = "fetch" /\ waited[h] < WikiTimeout

TimePasses ==
    /\ \A h \in Handlers : Active(h) => Patient(h)
    /\ Tick
    /\ waited' = [h \in Handlers |-> IF Active(h) THEN waited[h] + 1 ELSE 0]
    /\ UNCHANGED <<known, at, tried, promised>>

Step(h) == LookUp(h) \/ PageHasData(h) \/ PageFails(h) \/ Return(h)

WikiNext ==
    \/ (Listener \/ Main \/ Signal) /\ UNCHANGED wiki
    \/ \E h \in Handlers :
         \/ \E e \in Entries : Ask(h, e)
         \/ Step(h)
    \/ TimePasses

WikiSpec == WikiInit /\ [][WikiNext]_all

\* Goroutines run and time passes. A page ends because the client does not wait for
\* ever; nothing has to answer, to fail, to be signalled or to be asked for.
FairWikiSpec ==
    /\ WikiSpec
    /\ WF_all(Main /\ UNCHANGED wiki)
    /\ WF_all((Listen \/ ServeEnds \/ SendError \/ CloseChannel) /\ UNCHANGED wiki)
    /\ WF_all(TimePasses)
    /\ \A h \in Handlers : WF_all(Step(h))

-----------------------------------------------------------------------------
\* A connection is in use while its request has a next step, and a request asks for
\* no more pages than there are, and for none of an entry that it had.
RequestsTypeOK ==
    /\ known \in [Entries -> Levels]
    /\ \A h \in Handlers :
         /\ at[h].step \in {"idle", "lookup", "fetch", "reply"}
         /\ Active(h) <=> at[h].step # "idle"
         /\ at[h].step \in {"lookup", "fetch"} => at[h].entry \in Entries
         /\ at[h].step = "fetch" => at[h].page \in 1 .. Pages[at[h].entry] /\ at[h].had # "current"

\* What a request waits for is pages, for each as long as the client's timeout at
\* most. So its reply comes too late to be written only after more pages than fit in
\* the write timeout, and a shutdown cuts it off only after more than fit in that
\* one: with the defaults four and two. Four are tried for two generic names only.
OnlyManyPagesAreTooMuch ==
    \A h \in Handlers : Active(h) =>
      /\ work[h] <= WikiTimeout * tried[h]
      /\ main = "exit 0" => ShutdownTimeout <= WikiTimeout * tried[h]

\* What one request has fetched, no later one waits for, whether or not the reply
\* that it was fetched for came in time or was cut off.
FetchedForAll ==
    \A h \in Handlers : at[h].step = "fetch" => at[h].entry \notin promised[h]

\* Every request ends, on a wiki that need not answer and after a signal, or the
\* process does: nothing else can stop a handler.
HandlersReturn == \A h \in Handlers : Active(h) ~> (~Active(h) \/ ~Running)
=============================================================================
