------------------------- MODULE WikiRequestsProofs --------------------------
(***************************************************************************)
(* How long requests can take that fetch from the wiki, which pages they   *)
(* ask for, and what is left of them, for any entries, pages, handlers and *)
(* timeouts. What is proved of the life cycle holds for them, since they   *)
(* implement it.                                                           *)
(***************************************************************************)
EXTENDS WikiRequests, ServerLifecycleProofs

Place == [step : {"idle", "lookup", "fetch", "reply"}, entry : Entries \union {None},
          had : Levels, page : Nat]

Fetches(h) == at[h].step = "fetch"
Between(h) == at[h].step \in {"lookup", "reply"}

Places ==
    /\ at \in [Handlers -> Place]
    /\ waited \in [Handlers -> 0 .. WikiTimeout]
    /\ tried \in [Handlers -> Nat]
    /\ \A h \in Handlers : at[h].step \in {"lookup", "fetch"} => at[h].entry \in Entries

WikiTypes ==
    /\ Places
    /\ known \in [Entries -> Levels]
    /\ promised \in [Handlers -> SUBSET Entries]
    /\ \A h \in Handlers : Active(h) <=> at[h].step # "idle"

\* What is promised to a request stays current, and it fetches nothing of it.
Kept ==
    /\ \A h \in Handlers, e \in Entries : e \in promised[h] => known[e] = "current"
    /\ FetchedForAll

\* The time that the wiki's client takes for so many pages at most.
Allowed(pages) == WikiTimeout * pages

\* The page that a request waits for may take what is left of its timeout.
Timely(h) ==
    /\ Between(h) => work[h] <= Allowed(tried[h])
    /\ Fetches(h) => work[h] + (WikiTimeout - waited[h]) <= Allowed(tried[h])

InTime == \A h \in Handlers : Timely(h)

WikiInv == WikiTypes /\ Kept /\ InTime

\* A handler of the wiki's requests does one of these in a step of its own.
LEMMA OwnSteps ==
    ASSUME NEW h \in Handlers, Step(h)
    PROVE  \/ UNCHANGED vars
           \/ Finish(h)
BY DEF Step, LookUp, PageHasData, PageFails, Fetching, Return

LEMMA StepsOfLifecycle == [WikiNext]_all => [Next]_vars
<1> SUFFICES ASSUME [WikiNext]_all PROVE [Next]_vars
  OBVIOUS
<1>1. CASE Listener \/ Main \/ Signal
  BY <1>1 DEF Next
<1>2. ASSUME NEW h \in Handlers, NEW e \in Entries, Ask(h, e) PROVE [Next]_vars
  BY <1>2 DEF Ask, Next
<1>3. ASSUME NEW h \in Handlers, Step(h) PROVE [Next]_vars
  BY <1>3, OwnSteps DEF Next
<1>4. CASE TimePasses
  BY <1>4 DEF TimePasses, Next
<1>5. CASE UNCHANGED all
  BY <1>5 DEF all
<1> QED BY <1>1, <1>2, <1>3, <1>4, <1>5 DEF WikiNext

\* The requests are handlers of the life cycle: whatever is proved of that is true
\* of a server whose handlers fetch from the wiki (main.go:149-332, 548-582).
THEOREM RequestsImplementLifecycle == WikiSpec => Spec
<1>1. WikiInit => Init
  BY DEF WikiInit
<1> QED BY <1>1, StepsOfLifecycle, PTL DEF WikiSpec, Spec

-----------------------------------------------------------------------------
(* What a step does to the place of a request                              *)

OthersStay(h) == \A g \in Handlers \ {h} : at'[g] = at[g]

\* The request of h asks for its next page.
NextPage(h) ==
    /\ Fetches(h)' /\ at'[h].entry = at[h].entry
    /\ waited' = [waited EXCEPT ![h] = 0]
    /\ tried' = [tried EXCEPT ![h] = @ + 1]

\* The request of h is done with its pages, or with those of an entry.
NoPage(h) == Between(h)' /\ UNCHANGED <<waited, tried>>

LEMMA Continues ==
    ASSUME Places, NEW h \in Handlers, NEW step \in {"lookup", "reply"},
           NEW e \in Entries \union {None}, step = "lookup" => e \in Entries,
           Continue(h, step, e)
    PROVE  Places' /\ OthersStay(h) /\ NoPage(h)
<1> DEFINE place == [step |-> step, entry |-> e, had |-> "none", page |-> 0]
<1>1. at' = [at EXCEPT ![h] = place] /\ UNCHANGED <<waited, tried>>
  BY DEF Continue
<1>2. place \in Place
  BY DEF Place, Levels
<1>3. at' \in [Handlers -> Place] /\ at'[h] = place
  BY <1>1, <1>2 DEF Places
<1>4. OthersStay(h)
  BY <1>1 DEF OthersStay, Places
<1> QED BY <1>1, <1>3, <1>4 DEF Places, OthersStay, NoPage, Between

LEMMA AsksForPage ==
    ASSUME Places, NEW h \in Handlers, NEW had \in Levels, NEW page \in Nat,
           at[h].step \in {"lookup", "fetch"}, AskForPage(h, had, page)
    PROVE  Places' /\ OthersStay(h) /\ NextPage(h)
<1> DEFINE place == [step |-> "fetch", entry |-> at[h].entry, had |-> had, page |-> page]
<1>1. at[h] \in Place /\ at[h].entry \in Entries
  BY DEF Places
<1>3. at' = [at EXCEPT ![h] = place]
  BY DEF AskForPage, Places
<1>4. place \in Place
  BY <1>1 DEF Place
<1>5. at' \in [Handlers -> Place] /\ at'[h] = place
  BY <1>3, <1>4 DEF Places
<1>6. OthersStay(h)
  BY <1>3 DEF OthersStay, Places
<1>7. waited' \in [Handlers -> 0 .. WikiTimeout] /\ tried' \in [Handlers -> Nat]
  <2>1. 0 \in 0 .. WikiTimeout
    BY RequestsAssumption
  <2> QED BY <2>1 DEF AskForPage, Places
<1>8. Places'
  BY <1>1, <1>5, <1>6, <1>7 DEF Places, OthersStay
<1> QED BY <1>5, <1>6, <1>8 DEF NextPage, Fetches, AskForPage

LEMMA GoesOn ==
    ASSUME Places, NEW h \in Handlers, NEW e \in Entries, NEW level, GoOn(h, e, level)
    PROVE  Places' /\ OthersStay(h) /\ NoPage(h)
<1>1. ASSUME NEW m \in Makers[e], Continue(h, "lookup", m)
      PROVE  Places' /\ OthersStay(h) /\ NoPage(h)
  <2>1. m \in Entries
    BY RequestsAssumption
  <2> QED BY <1>1, <2>1, Continues
<1>2. CASE ReplyNext(h)
  BY <1>2, Continues DEF ReplyNext
<1> QED BY <1>1, <1>2 DEF GoOn

\* A step of h before its reply: another page, or none. What is current stays so.
LEMMA StepMoves ==
    ASSUME WikiTypes, NEW h \in Handlers, LookUp(h) \/ PageHasData(h) \/ PageFails(h)
    PROVE  /\ Places' /\ OthersStay(h)
           /\ NoPage(h) \/ (NextPage(h) /\ (Fetches(h) \/ known[at[h].entry] # "current"))
           /\ Between(h) \/ Fetches(h)
           /\ known' \in [Entries -> Levels]
           /\ \A e \in Entries : known[e] = "current" => known'[e] = "current"
           /\ UNCHANGED <<vars, promised>>
<1>1. Places /\ at[h] \in Place
  BY DEF WikiTypes, Places
<1>2. ASSUME at[h].step \in {"lookup", "fetch"}
      PROVE  at[h].entry \in Entries /\ known[at[h].entry] \in Levels /\ at[h].had \in Levels
             /\ at[h].page + 1 \in Nat
  BY <1>1, <1>2 DEF WikiTypes, Places, Place
<1>3. CASE LookUp(h)
  <2>1. at[h].step = "lookup" /\ UNCHANGED <<vars, known, promised>>
    BY <1>3 DEF LookUp
  <2>2. CASE known[at[h].entry] = "current"
    <3>1. GoOn(h, at[h].entry, "current")
      BY <1>3, <2>2 DEF LookUp
    <3> QED BY <3>1, <2>1, <1>1, <1>2, GoesOn DEF WikiTypes, Between
  <2>3. CASE known[at[h].entry] # "current"
    <3>1. AskForPage(h, known[at[h].entry], 1)
      BY <1>3, <2>3 DEF LookUp
    <3> QED BY <3>1, <2>1, <2>3, <1>1, <1>2, AsksForPage DEF WikiTypes, Between
  <2> QED BY <2>2, <2>3
<1>4. CASE PageHasData(h)
  <2>1. at[h].step = "fetch" /\ UNCHANGED <<vars, promised>>
    BY <1>4 DEF PageHasData, Fetching
  <2>2. known' = [known EXCEPT ![at[h].entry] = "current"] /\ GoOn(h, at[h].entry, "current")
    BY <1>4 DEF PageHasData
  <2>3. known' \in [Entries -> Levels] /\ \A e \in Entries : known[e] = "current" => known'[e] = "current"
    BY <2>2 DEF WikiTypes, Levels
  <2> QED BY <2>1, <2>2, <2>3, <1>1, <1>2, GoesOn DEF Fetches
<1>5. CASE PageFails(h)
  <2>1. at[h].step = "fetch" /\ UNCHANGED <<vars, promised, known>>
    BY <1>5 DEF PageFails, Fetching
  <2>2. CASE AskForPage(h, at[h].had, at[h].page + 1)
    BY <2>1, <2>2, <1>1, <1>2, AsksForPage DEF WikiTypes, Fetches
  <2>3. CASE ReplyNext(h)
    BY <2>1, <2>3, <1>1, Continues DEF WikiTypes, Fetches, ReplyNext
  <2>4. CASE GoOn(h, at[h].entry, at[h].had)
    BY <2>1, <2>4, <1>1, <1>2, GoesOn DEF WikiTypes, Fetches
  <2> QED BY <1>5, <2>2, <2>3, <2>4 DEF PageFails
<1> QED BY <1>3, <1>4, <1>5

-----------------------------------------------------------------------------
(* The invariant                                                           *)

LEMMA PageAfterPage ==
    ASSUME NEW n \in Nat
    PROVE  /\ Allowed(n) \in Nat /\ Allowed(n + 1) = Allowed(n) + WikiTimeout
           /\ WikiTimeout \in Nat
BY RequestsAssumption DEF Allowed

LEMMA WorkIsTime ==
    ASSUME TypeOK, NEW h \in Handlers, Active(h)
    PROVE  work[h] \in Nat
<1>1. work[h] \in 0 .. MaxWork \union {None}
  BY DEF TypeOK
<1>2. work[h] # None
  BY DEF Active
<1> QED BY <1>1, <1>2, Times

LEMMA WikiInvInitially == WikiInit => WikiInv
<1> SUFFICES ASSUME WikiInit PROVE WikiInv
  OBVIOUS
<1>1. Nothing \in Place /\ Nothing.step = "idle" /\ 0 \in 0 .. WikiTimeout
  BY RequestsAssumption DEF Nothing, Place, Levels
<1>2. Places
  BY <1>1 DEF WikiInit, Places
<1>3. WikiTypes
  BY <1>1, <1>2 DEF WikiInit, WikiTypes, Init, Active
<1>4. Kept /\ InTime
  BY <1>1 DEF WikiInit, Kept, FetchedForAll, InTime, Timely, Between, Fetches
<1> QED BY <1>3, <1>4 DEF WikiInv

\* What does not move a request leaves it as it was.
LEMMA StaysTimely ==
    ASSUME NEW h \in Handlers, Timely(h), at'[h] = at[h], work'[h] = work[h],
           tried'[h] = tried[h], waited'[h] = waited[h]
    PROVE  Timely(h)'
BY DEF Timely, Between, Fetches

LEMMA NothingMoves == WikiInv /\ UNCHANGED <<work, wiki>> => WikiInv'
BY DEF WikiInv, WikiTypes, Places, Kept, FetchedForAll, InTime, Timely, Between, Fetches,
       Active, wiki

LEMMA AskKeeps ==
    ASSUME WikiInv, TypeOK, NEW h \in Handlers, NEW e \in Entries, Ask(h, e)
    PROVE  WikiInv'
<1>1. Places' /\ OthersStay(h) /\ NoPage(h)
  BY Continues DEF Ask, WikiInv, WikiTypes
<1>2. /\ work' = [work EXCEPT ![h] = 0] /\ UNCHANGED known
      /\ promised' = [promised EXCEPT ![h] = {d \in Entries : known[d] = "current"}]
  BY DEF Ask, Accept
<1>3. work'[h] = 0 /\ 0 # None /\ \A g \in Handlers \ {h} : work'[g] = work[g]
  <2>1. work'[h] = 0 /\ \A g \in Handlers \ {h} : work'[g] = work[g]
    BY <1>2 DEF TypeOK
  <2>2. 0 # None
    BY Times
  <2> QED BY <2>1, <2>2
<1>4. WikiTypes'
  BY <1>1, <1>2, <1>3 DEF WikiInv, WikiTypes, OthersStay, NoPage, Between, Active
<1>5. Kept'
  BY <1>1, <1>2 DEF WikiInv, WikiTypes, Kept, FetchedForAll, OthersStay, NoPage, Between
<1>6. ASSUME NEW g \in Handlers PROVE Timely(g)'
  <2>1. CASE g = h
    <3>1. tried'[h] \in Nat
      BY <1>1 DEF Places
    <3>2. work'[h] <= Allowed(tried'[h])
      BY <3>1, <1>3, PageAfterPage
    <3>3. ~Fetches(h)'
      BY <1>1 DEF NoPage, Between, Fetches
    <3>4. Timely(h)'
      BY <3>2, <3>3 DEF Timely, Allowed
    <3> QED BY <2>1, <3>4
  <2>2. CASE g # h
    BY <2>2, <1>1, <1>3, StaysTimely DEF WikiInv, InTime, OthersStay, NoPage
  <2> QED BY <2>1, <2>2
<1> QED BY <1>4, <1>5, <1>6 DEF WikiInv, InTime

LEMMA StepKeeps ==
    ASSUME WikiInv, TypeOK, NEW h \in Handlers, LookUp(h) \/ PageHasData(h) \/ PageFails(h)
    PROVE  WikiInv'
<1>1. /\ Places' /\ OthersStay(h)
      /\ NoPage(h) \/ (NextPage(h) /\ (Fetches(h) \/ known[at[h].entry] # "current"))
      /\ Between(h) \/ Fetches(h)
      /\ known' \in [Entries -> Levels]
      /\ \A e \in Entries : known[e] = "current" => known'[e] = "current"
      /\ UNCHANGED <<vars, promised>>
  BY StepMoves DEF WikiInv
<1>2. work' = work /\ promised' = promised
  BY <1>1 DEF vars
<1>3. WikiTypes'
  BY <1>1, <1>2
     DEF WikiInv, WikiTypes, OthersStay, NoPage, NextPage, Between, Fetches, Active
<1>4. Kept'
  <2>1. \A g \in Handlers, e \in Entries : e \in promised'[g] => known'[e] = "current"
    BY <1>1, <1>2 DEF WikiInv, Kept
  <2>2. ASSUME NEW g \in Handlers, at'[g].step = "fetch"
        PROVE  at'[g].entry \notin promised'[g]
    <3>1. CASE g # h
      BY <3>1, <2>2, <1>1, <1>2 DEF OthersStay, WikiInv, Kept, FetchedForAll
    <3>2. CASE g = h
      <4>1. NextPage(h) /\ (Fetches(h) \/ known[at[h].entry] # "current")
        BY <3>2, <2>2, <1>1 DEF NoPage, Between
      <4>2. at'[h].entry = at[h].entry
        BY <4>1 DEF NextPage
      <4>3. CASE Fetches(h)
        BY <3>2, <4>2, <4>3, <1>2 DEF Fetches, WikiInv, Kept, FetchedForAll
      <4>4. CASE known[at[h].entry] # "current"
        <5>1. at'[h].entry \in Entries
          BY <2>2, <3>2, <1>1 DEF Places
        <5> QED BY <3>2, <4>2, <4>4, <5>1, <1>2 DEF WikiInv, Kept
      <4> QED BY <4>1, <4>3, <4>4
    <3> QED BY <3>1, <3>2
  <2> QED BY <2>1, <2>2 DEF Kept, FetchedForAll
<1>5. ASSUME NEW g \in Handlers PROVE Timely(g)'
  <2>1. CASE g # h
    BY <2>1, <1>1, <1>2, StaysTimely DEF WikiInv, InTime, OthersStay, NoPage, NextPage, WikiTypes,
       Places
  <2>2. CASE g = h
    <3>1. Timely(h) /\ work'[h] = work[h] /\ tried[h] \in Nat /\ waited[h] \in 0 .. WikiTimeout
      BY <1>2 DEF WikiInv, InTime, WikiTypes, Places
    <3>2. work[h] \in Nat
      <4>1. Active(h)
        BY <1>1 DEF WikiInv, WikiTypes, Between, Fetches
      <4> QED BY <4>1, WorkIsTime
    <3>3. work[h] <= Allowed(tried[h])
      <4>1. CASE Between(h)
        BY <4>1, <3>1 DEF Timely
      <4>2. CASE Fetches(h)
        <5>1. work[h] + (WikiTimeout - waited[h]) <= Allowed(tried[h])
          BY <4>2, <3>1 DEF Timely
        <5> QED BY <5>1, <3>1, <3>2, PageAfterPage
      <4> QED BY <1>1, <4>1, <4>2
    <3>4. CASE NoPage(h)
      <4>1. tried'[h] = tried[h] /\ Between(h)' /\ ~Fetches(h)'
        BY <3>4 DEF NoPage, Between, Fetches
      <4>2. work'[h] <= Allowed(tried'[h])
        BY <4>1, <3>1, <3>3
      <4>3. Timely(h)'
        BY <4>1, <4>2 DEF Timely, Allowed
      <4> QED BY <2>2, <4>3
    <3>5. CASE NextPage(h)
      <4>1. tried'[h] = tried[h] + 1 /\ waited'[h] = 0 /\ Fetches(h)' /\ ~Between(h)'
        BY <3>5 DEF NextPage, Between, Fetches, WikiInv, WikiTypes, Places
      <4>2. Allowed(tried'[h]) = Allowed(tried[h]) + WikiTimeout /\ Allowed(tried[h]) \in Nat
        BY <4>1, <3>1, PageAfterPage
      <4>3. work'[h] + (WikiTimeout - waited'[h]) <= Allowed(tried'[h])
        BY <4>1, <4>2, <3>1, <3>2, <3>3, PageAfterPage
      <4>4. Timely(h)'
        BY <4>1, <4>3 DEF Timely, Allowed
      <4> QED BY <2>2, <4>4
    <3> QED BY <1>1, <3>4, <3>5
  <2> QED BY <2>1, <2>2
<1> QED BY <1>3, <1>4, <1>5 DEF WikiInv, InTime

LEMMA ReturnKeeps ==
    ASSUME WikiInv, TypeOK, NEW h \in Handlers, Return(h)
    PROVE  WikiInv'
<1>1. Nothing \in Place /\ Nothing.step = "idle" /\ 0 \in 0 .. WikiTimeout
  BY RequestsAssumption DEF Nothing, Place, Levels
<1>2. /\ at' = [at EXCEPT ![h] = Nothing] /\ waited' = [waited EXCEPT ![h] = 0]
      /\ tried' = [tried EXCEPT ![h] = 0] /\ promised' = [promised EXCEPT ![h] = {}]
      /\ UNCHANGED known /\ work' = [work EXCEPT ![h] = None]
  BY DEF Return, Finish
<1>3. /\ at'[h].step = "idle" /\ work'[h] = None /\ promised'[h] = {}
      /\ \A g \in Handlers \ {h} :
           /\ at'[g] = at[g] /\ work'[g] = work[g] /\ promised'[g] = promised[g]
           /\ tried'[g] = tried[g] /\ waited'[g] = waited[g]
  BY <1>1, <1>2 DEF WikiInv, WikiTypes, Places, TypeOK
<1>4. Places'
  BY <1>1, <1>2, <1>3 DEF WikiInv, WikiTypes, Places
<1>5. WikiTypes'
  BY <1>2, <1>3, <1>4 DEF WikiInv, WikiTypes, Active
<1>6. Kept'
  BY <1>2, <1>3 DEF WikiInv, Kept, FetchedForAll
<1>7. ASSUME NEW g \in Handlers PROVE Timely(g)'
  <2>1. CASE g = h
    BY <2>1, <1>3 DEF Timely, Between, Fetches
  <2>2. CASE g # h
    BY <2>2, <1>3, StaysTimely DEF WikiInv, InTime
  <2> QED BY <2>1, <2>2
<1> QED BY <1>5, <1>6, <1>7 DEF WikiInv, InTime

LEMMA TimeKeeps == WikiInv /\ TypeOK /\ TimePasses => WikiInv'
<1> SUFFICES ASSUME WikiInv, TypeOK, TimePasses PROVE WikiInv'
  OBVIOUS
<1>1. /\ work' = [h \in Handlers |-> IF Active(h) THEN work[h] + 1 ELSE None]
      /\ waited' = [h \in Handlers |-> IF Active(h) THEN waited[h] + 1 ELSE 0]
      /\ UNCHANGED <<known, at, tried, promised>>
  BY DEF TimePasses, Tick
<1>2. ASSUME NEW h \in Handlers, Active(h)
      PROVE  /\ Fetches(h) /\ work[h] \in Nat /\ waited[h] \in Nat /\ waited[h] < WikiTimeout
             /\ work'[h] = work[h] + 1 /\ waited'[h] = waited[h] + 1
             /\ work[h] + 1 # None /\ waited[h] + 1 \in 0 .. WikiTimeout
  <2>1. Patient(h)
    BY <1>2 DEF TimePasses
  <2>2. work[h] \in Nat
    BY <1>2, WorkIsTime
  <2>3. waited[h] \in 0 .. WikiTimeout /\ WikiTimeout \in Nat
    BY RequestsAssumption DEF WikiInv, WikiTypes, Places
  <2>4. Fetches(h) /\ waited[h] < WikiTimeout
    BY <2>1 DEF Patient, Fetches
  <2>5. work[h] + 1 # None
    BY <2>2, Times
  <2>6. waited[h] \in Nat /\ waited[h] + 1 \in 0 .. WikiTimeout
    BY <2>3, <2>4
  <2> QED BY <1>1, <1>2, <2>2, <2>4, <2>5, <2>6
<1>3. ASSUME NEW h \in Handlers, ~Active(h)
      PROVE  work'[h] = None /\ waited'[h] = 0 /\ at[h].step = "idle" /\ 0 \in 0 .. WikiTimeout
  BY <1>1, <1>3, RequestsAssumption DEF WikiInv, WikiTypes
<1>4. Places'
  <2>1. waited' \in [Handlers -> 0 .. WikiTimeout]
    BY <1>1, <1>2, <1>3
  <2> QED BY <2>1, <1>1 DEF WikiInv, WikiTypes, Places
<1>5. ASSUME NEW h \in Handlers PROVE Active(h)' <=> at'[h].step # "idle"
  <2>1. CASE Active(h)
    BY <2>1, <1>1, <1>2 DEF Active, Fetches
  <2>2. CASE ~Active(h)
    BY <2>2, <1>1, <1>3 DEF Active
  <2> QED BY <2>1, <2>2
<1>6. WikiTypes'
  BY <1>1, <1>4, <1>5 DEF WikiInv, WikiTypes
<1>7. Kept'
  BY <1>1 DEF WikiInv, Kept, FetchedForAll
<1>8. ASSUME NEW h \in Handlers PROVE Timely(h)'
  <2>1. CASE ~Active(h)
    BY <2>1, <1>1, <1>3 DEF Timely, Between, Fetches
  <2>2. CASE Active(h)
    <3>1. Fetches(h) /\ work[h] + (WikiTimeout - waited[h]) <= Allowed(tried[h])
      BY <2>2, <1>2 DEF WikiInv, InTime, Timely
    <3>2. tried'[h] = tried[h] /\ tried[h] \in Nat
      BY <1>1 DEF WikiInv, WikiTypes, Places
    <3>3. work'[h] + (WikiTimeout - waited'[h]) <= Allowed(tried'[h])
      BY <3>1, <3>2, <2>2, <1>2, PageAfterPage
    <3>4. ~Between(h)'
      BY <3>1, <1>1 DEF Fetches, Between
    <3> QED BY <3>3, <3>4 DEF Timely, Allowed
  <2> QED BY <2>1, <2>2
<1> QED BY <1>6, <1>7, <1>8 DEF WikiInv, InTime

LEMMA WikiInvIsPreserved == WikiInv /\ TypeOK /\ [WikiNext]_all => WikiInv'
<1> SUFFICES ASSUME WikiInv, TypeOK, [WikiNext]_all PROVE WikiInv'
  OBVIOUS
<1>1. CASE (Listener \/ Main \/ Signal) /\ UNCHANGED wiki
  <2>1. UNCHANGED work
    BY <1>1 DEF Listener, Listen, ListenFails, ServeEnds, SendError, CloseChannel, Main,
       SelectError, SelectSignal, Drained, CloseServer, LastReceive, Signal
  <2> QED BY <1>1, <2>1, NothingMoves
<1>2. ASSUME NEW h \in Handlers, NEW e \in Entries, Ask(h, e) PROVE WikiInv'
  BY <1>2, AskKeeps
<1>3. ASSUME NEW h \in Handlers, Step(h) PROVE WikiInv'
  BY <1>3, StepKeeps, ReturnKeeps DEF Step
<1>4. CASE TimePasses
  BY <1>4, TimeKeeps
<1>5. CASE UNCHANGED all
  BY <1>5, NothingMoves DEF all, vars
<1> QED BY <1>1, <1>2, <1>3, <1>4, <1>5 DEF WikiNext

LEMMA WikiInvHolds == WikiSpec => []WikiInv
<1>1. WikiInit => WikiInv
  BY WikiInvInitially
<1>2. WikiInv /\ TypeOK /\ [WikiNext]_all => WikiInv'
  BY WikiInvIsPreserved
<1> QED BY <1>1, <1>2, RequestsImplementLifecycle, LifecycleTypeCorrect, PTL DEF WikiSpec

\* A request waits for no page of an entry that was current when it came: what one
\* of them fetched is there for all that come later, and a refresh that fails leaves
\* what there is, whatever the others do meanwhile (machine_cache.go:55-86).
THEOREM NothingIsFetchedAgain == WikiSpec => []FetchedForAll
<1>1. WikiInv => FetchedForAll
  BY DEF WikiInv, Kept
<1> QED BY <1>1, WikiInvHolds, PTL

\* A request has run no longer than the pages it has tried can take, and when main
\* ends while it runs, these can take the whole timeout of the shutdown
\* (wiki.go:52-56, main.go:570-577).
THEOREM TimeIsSpentOnPages == WikiSpec => []OnlyManyPagesAreTooMuch
<1>1. WikiInv /\ TypeOK /\ CutOffOnlyAfterTimeout => OnlyManyPagesAreTooMuch
  <2> SUFFICES ASSUME WikiInv, TypeOK, CutOffOnlyAfterTimeout, NEW h \in Handlers, Active(h)
               PROVE  /\ work[h] <= Allowed(tried[h])
                      /\ main = "exit 0" => ShutdownTimeout <= Allowed(tried[h])
    BY DEF OnlyManyPagesAreTooMuch, Allowed
  <2>1. /\ work[h] \in Nat /\ tried[h] \in Nat /\ waited[h] \in 0 .. WikiTimeout
        /\ Timely(h) /\ (Between(h) \/ Fetches(h))
    <3>1. work[h] \in Nat
      BY WorkIsTime
    <3>2. at[h].step \in {"lookup", "fetch", "reply"}
      BY DEF WikiInv, WikiTypes, Places, Place
    <3> QED BY <3>1, <3>2 DEF WikiInv, InTime, WikiTypes, Places, Between, Fetches
  <2>2. work[h] <= Allowed(tried[h])
    <3>1. CASE Between(h)
      BY <3>1, <2>1 DEF Timely
    <3>2. CASE Fetches(h)
      <4>1. work[h] + (WikiTimeout - waited[h]) <= Allowed(tried[h])
        BY <3>2, <2>1 DEF Timely
      <4> QED BY <4>1, <2>1, PageAfterPage
    <3> QED BY <2>1, <3>1, <3>2
  <2>3. ASSUME work[h] >= ShutdownTimeout PROVE ShutdownTimeout <= Allowed(tried[h])
    BY <2>1, <2>2, <2>3, PageAfterPage, Times
  <2>4. main = "exit 0" => work[h] >= ShutdownTimeout
    BY DEF CutOffOnlyAfterTimeout
  <2> QED BY <2>2, <2>3, <2>4
<1> QED BY <1>1, WikiInvHolds, RequestsImplementLifecycle, LifecycleTypeCorrect, ShutdownDrains, PTL

-----------------------------------------------------------------------------
(* The pages that are asked for                                            *)

\* The page that h waits for is one of those of its entry, which it asked for since
\* it had none that was current.
InPages(h) ==
    Fetches(h) => at[h].page \in 1 .. Pages[at[h].entry] /\ at[h].had # "current"

PagesInv == \A h \in Handlers : InPages(h)

LEMMA AskedPage ==
    ASSUME Places, NEW h \in Handlers, NEW had \in Levels, NEW page \in Nat,
           at[h].step \in {"lookup", "fetch"}, AskForPage(h, had, page),
           had # "current", page \in 1 .. Pages[at[h].entry]
    PROVE  InPages(h)'
<1> DEFINE place == [step |-> "fetch", entry |-> at[h].entry, had |-> had, page |-> page]
<1>1. at'[h] = place
  BY DEF AskForPage, Places
<1>2. at'[h].page = page /\ at'[h].had = had /\ at'[h].entry = at[h].entry
  BY <1>1
<1> QED BY <1>2 DEF InPages

LEMMA StepStaysInPages ==
    ASSUME WikiTypes, PagesInv, NEW h \in Handlers,
           LookUp(h) \/ PageHasData(h) \/ PageFails(h)
    PROVE  PagesInv'
<1>1. Places /\ at[h] \in Place /\ OthersStay(h) /\ (Between(h) \/ Fetches(h))
  BY StepMoves DEF WikiTypes, Places
<1>2. ASSUME at[h].step \in {"lookup", "fetch"}
      PROVE  /\ at[h].entry \in Entries /\ known[at[h].entry] \in Levels
             /\ at[h].had \in Levels /\ Pages[at[h].entry] \in Nat \ {0}
  BY <1>1, <1>2, RequestsAssumption DEF WikiTypes, Places, Place
<1>3. ASSUME NoPage(h) PROVE InPages(h)'
  BY <1>3 DEF NoPage, Between, InPages, Fetches
<1>4. ASSUME LookUp(h) PROVE InPages(h)'
  <2>1. at[h].step = "lookup"
    BY <1>4 DEF LookUp
  <2>2. CASE known[at[h].entry] = "current"
    <3>1. GoOn(h, at[h].entry, "current")
      BY <1>4, <2>2 DEF LookUp
    <3> QED BY <3>1, <2>1, <1>1, <1>2, <1>3, GoesOn
  <2>3. CASE known[at[h].entry] # "current"
    <3>1. AskForPage(h, known[at[h].entry], 1)
      BY <1>4, <2>3 DEF LookUp
    <3>2. 1 \in 1 .. Pages[at[h].entry]
      BY <2>1, <1>2
    <3> QED BY <3>1, <3>2, <2>1, <2>3, <1>1, <1>2, AskedPage
  <2> QED BY <2>2, <2>3
<1>5. ASSUME PageHasData(h) PROVE InPages(h)'
  <2>1. at[h].step = "fetch" /\ GoOn(h, at[h].entry, "current")
    BY <1>5 DEF PageHasData, Fetching
  <2> QED BY <2>1, <1>1, <1>2, <1>3, GoesOn
<1>6. ASSUME PageFails(h) PROVE InPages(h)'
  <2>1. at[h].step = "fetch"
    BY <1>6 DEF PageFails, Fetching
  <2>2. CASE ~LastPage(h)
    <3>1. AskForPage(h, at[h].had, at[h].page + 1)
      BY <1>6, <2>2 DEF PageFails
    <3>2. at[h].page \in 1 .. Pages[at[h].entry] /\ at[h].had # "current"
      BY <2>1 DEF PagesInv, InPages, Fetches
    <3>3. at[h].page # Pages[at[h].entry]
      BY <2>2 DEF LastPage
    <3>4. at[h].page + 1 \in 1 .. Pages[at[h].entry] /\ at[h].page + 1 \in Nat
      BY <3>2, <3>3, <2>1, <1>2
    <3> QED BY <3>1, <3>2, <3>4, <2>1, <1>1, <1>2, AskedPage
  <2>3. CASE LastPage(h)
    <3>1. ReplyNext(h) \/ GoOn(h, at[h].entry, at[h].had)
      BY <1>6, <2>3 DEF PageFails
    <3>2. ASSUME ReplyNext(h) PROVE NoPage(h)
      BY <3>2, <1>1, Continues DEF ReplyNext
    <3>3. ASSUME GoOn(h, at[h].entry, at[h].had) PROVE NoPage(h)
      BY <3>3, <2>1, <1>1, <1>2, GoesOn
    <3> QED BY <3>1, <3>2, <3>3, <1>3
  <2> QED BY <2>2, <2>3
<1>7. InPages(h)'
  BY <1>4, <1>5, <1>6
<1> QED BY <1>1, <1>7 DEF PagesInv, InPages, Fetches, OthersStay

LEMMA PagesArePreserved == WikiInv /\ TypeOK /\ PagesInv /\ [WikiNext]_all => PagesInv'
<1> SUFFICES ASSUME WikiInv, TypeOK, PagesInv, [WikiNext]_all PROVE PagesInv'
  OBVIOUS
<1>1. ASSUME UNCHANGED at PROVE PagesInv'
  BY <1>1 DEF PagesInv, InPages, Fetches
<1>2. ASSUME NEW h \in Handlers, NEW e \in Entries, Ask(h, e) PROVE PagesInv'
  <2>1. OthersStay(h) /\ NoPage(h)
    BY <1>2, Continues DEF Ask, WikiInv, WikiTypes
  <2> QED BY <2>1 DEF PagesInv, InPages, Fetches, OthersStay, NoPage, Between
<1>3. ASSUME NEW h \in Handlers, Step(h) PROVE PagesInv'
  <2>1. CASE Return(h)
    <3>1. at'[h] = Nothing /\ OthersStay(h)
      BY <2>1 DEF Return, WikiInv, WikiTypes, Places, OthersStay
    <3> QED BY <3>1 DEF PagesInv, InPages, Fetches, OthersStay, Nothing
  <2> QED BY <1>3, <2>1, StepStaysInPages DEF Step, WikiInv
<1> QED BY <1>1, <1>2, <1>3 DEF WikiNext, TimePasses, all, wiki

\* A handler takes one step after another while its connection is in use, and asks
\* only for pages that its entry has, of an entry it had no current details of
\* (wiki.go:65-97, machine_cache.go:55-86).
THEOREM RequestsTypeCorrect == WikiSpec => []RequestsTypeOK
<1>1. WikiInit => PagesInv
  BY DEF WikiInit, PagesInv, InPages, Fetches, Nothing
<1>2. WikiInv /\ PagesInv => RequestsTypeOK
  <2> SUFFICES ASSUME WikiInv, PagesInv PROVE RequestsTypeOK
    OBVIOUS
  <2>1. \A h \in Handlers : at[h].step \in {"idle", "lookup", "fetch", "reply"}
    BY DEF WikiInv, WikiTypes, Places, Place
  <2> QED BY <2>1 DEF RequestsTypeOK, WikiInv, WikiTypes, Places, PagesInv, InPages, Fetches
<1> QED BY <1>1, <1>2, PagesArePreserved, WikiInvHolds, RequestsImplementLifecycle,
           LifecycleTypeCorrect, PTL DEF WikiSpec
=============================================================================
