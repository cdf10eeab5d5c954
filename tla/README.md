# The upcycle calculator in TLA+

A formal model of the Factorio upcycle calculator: a Go web server
(`cmd/web`, `internal`) with a page driven by htmx. The modules translate the
code; TLC checks them on small instances, and TLAPS proves the properties that
matter most for every value of the constants. `PROJECT.json` lists the runs,
the properties, the source lines of every definition, and the hazards the
properties are for.

Inside this directory:

    tlc -config CacheConcurrent.cfg MCMachineCache   # a run
    tlapm DetailsCacheProofs.tla                     # the proofs of a module

## 1. The system

| component | state it keeps | operations |
| --- | --- | --- |
| Wiki details caches (`machine_cache.go`, `wiki_cache.go`) | a map behind an RWMutex; the file `path`, and `path.tmp` | `GetOrFetch` (`Get`, fetch, `Set`, `persist`), `load` |
| Wiki client (`wiki.go`) | none | fetch one page of the wiki after another, each with a timeout; parse recipe or machine data |
| Rate limiter (`rate_limit.go`) | token buckets and the time of the last sweep, behind a Mutex | `Allow`, with refill and sweep |
| Quality distribution (`machine.go`, `recycler.go`) | none | `qualityChance`, `qualityDistribution`, `Craft` |
| Loop solver (`planner.go`) | the amounts of the current iteration | `machineRatioForUpcycling` |
| Plan handler (`main.go` `/plan`, `planner.go`, `input_validation.go`, the page's boxes) | the counts the page shows | a plan by total, a plan by anchor |
| Process lifecycle (`main.go` 539-582) | listener, `serverErr`, signal context, running requests | listen, signal, shut down, exit |
| Metrics (`metrics.go`) | atomic counters | count, scrape |
| HTTP pipeline (`request_logging.go`, `https_redirect.go`, `security_headers.go`) | none | log, redirect, add headers |
| Health endpoints (`health.go`) | none | `healthz`, `readyz` |
| Machine and recycler statistics (`main.go` 21-103, 268-332, 1051-1123) | none | effects of modules and quality |
| Partials and planner page (`main.go` 135-358, `templates`, `static/js`) | the selects, fields and boxes of the form; per element, a delay, a request in flight and one kept for later | load an item or a machine, recompute, submit the form or a box, synchronise with the unlocked quality |
| Runtime configuration (`config.go`) | none after the start | parse the environment, or refuse to start |
| Static assets and rendering (`templates`, `static/css`) | none | write HTML and CSS |
| Deployment (`Dockerfile`, scripts) | none | build and run the image |

How they interact. A request passes logging, metrics, redirect, headers and the
rate limiter, and reaches a handler. `/partials/item-details`,
`/partials/machine-details` and `/partials/module-stats` call the two caches, which
call the wiki client on a miss and save the whole map after it. `/plan` calls the planner, which solves the
loop (twice for a plan by anchor) and turns ratios into counts; the answer
replaces the boxes on the page, whose values are the input of the next request.
`main` loads the caches, starts the listener, and waits for a signal. All handlers
of one process share the two caches, the limiter and the counters; nothing else
is shared.

What is hard. (a) The caches: three critical sections and four system calls per
miss, by any number of goroutines, on one map and one temporary file, with a
process that can end at any of them. (b) The limiter: requests read the clock
before they queue for the mutex. (c) The solver: an iteration with no fixed point
for part of its inputs, in arithmetic that overflows. (d) The counts: rounded up
after floating-point steps that are rounded themselves, and fed back. (e) The end
of the process: signal, listen error, slow requests and a timeout, over a channel
that must be closed for `main` to return. (f) The page: a dozen elements, each with
a request of its own in flight, whose replies replace each other's fields in the
order they arrive, while the user goes on. (g) The pipeline: five layers that see
a request in an order, counters that no two of are read together, and a probe of a
directory that changes. (h) The requests that fetch: nothing tells a handler that its
connection is gone, so the sum of the wiki's timeouts meets the server's own two.

## 2. The modules

### Details caches

`DetailsCache` is both caches: they are the same program but for the type of an
entry and the test for "this entry needs no refresh", which are the constants
`Details`, `Fetched` and `IsCurrent`. `WikiEntries` gives those of each cache, and
derives what a fetch can return from the candidate pages it finds on the wiki: a page
that cannot be had, or lacks a number the record needs, is skipped, and the next
one is tried. That what it returns never needs a refresh is an assumption of
`DetailsCache`, which TLC evaluates for both caches.

* `mem` is `c.entries`, `path` and `tmp` the two files. A file is its content
  and its length: a text written over a longer one leaves its tail, and then it
  no longer decodes.
* A worker is a goroutine in `GetOrFetch`. `Hit` and `Miss` are `Get` and the
  test on its result; `FetchFails`, `FetchSucceeds` the return of the fetch, the
  latter with the critical section of `Set`; `TakeSnapshot` the critical section of
  `persist`; `OpenTmp`, `WriteTmp`, `WriteFails` are `os.WriteFile`;
  `RenameTmp`, `RenameFindsNothing` and `SaveRefused` end the save.
* A handle refers to a file and not to a name: after a rename, `fd` says that an
  open `path.tmp` is now `path`, and a replaced `path` has no name.
* `Restart` is the end of a process at any step and the next one's `load`;
  `RestartUnreadable` the same with a file that cannot be read.

`ReadThroughStore` is what the cache promises under any concurrency: an entry's
level (absent, older format, current) never falls while the process lives, and
the file is never ahead of memory. `DurableStore` is what it promises when requests come
one at a time: a save replaces the file by the map, in one step. Both are checked
by refinement: `level <- Levels(mem)`, `saved <- Levels(Load(path))`.

### The requests that fetch

`WikiRequests` extends `ServerLifecycle`: a handler of that is here a request for
the details of an item, and of a machine that makes it, or of a machine alone. `Ask`
is its arrival, `LookUp` the cache's `Get` with its test, `PageHasData` and
`PageFails` the end of a page of `fetchItemDetailsFromWiki` or
`fetchMachineDetailsFromWiki`, `Return` the reply, and `TimePasses` a tick of all clocks:
only pages take time, none more than `http.Client.Timeout`. Two variables are history:
`tried` (the pages a request has asked for) and `promised` (what was current when it
came).

### Rate limiter

`RateLimiter` has one action for each way through `Allow` (`Admit`, `Deny`), which
is one critical section, and `Arrive` for the `time.Now()` that comes before it. Time is
counted in ticks and tokens in units so that no fraction is left: a tick earns
`Rate` units and a request costs `Cost`. `RateLimiterBudget` adds an observer who
opens a window of time at any moment and counts what is let through, and how far
the bucket's stamp was moved back.

### Planner

* `QualityTiers`: `qualityChance` and `qualityDistribution`, in exact parts.
* `LoopSolver`: `machineRatioForUpcycling`. `Call` starts it, `Iterate` is a pass
  of the loop with its tolerance test, `GiveUp` the iteration limit, `Return` the
  end. Amounts are parts of `Scale` rounded down, `Inf` beyond `MaxFinite`, and
  `NaN` as float64 makes it (zero times `Inf`, and any sum with it).
* `Floats`: quotients and products rounded to `Precision` bits, ties to even, with
  exponents of any size: what is next to an exact result in float64 is next to it here.
* `Planner`: the handler of `/plan` and the boxes, around `LoopSolver`.
  `SubmitTyped` and `SubmitShown` are the requests (a keystroke in a box submits
  it, and any change of the form submits the Normal box as it is shown), `Answer`
  and `Refuse` the replies; htmx leaves the page alone on a reply of status 400.

### Page

`ModuleStats` has the pure part: `scaledModuleBonus`, `parseModuleValues`, the
effects of modules and quality on a machine, and `calculateRecyclerStats` (twice:
from the exact recycling time and from the rounded one that the page sends back).
Its values are thousandths, cut or rounded where `FormatFloat` and the fields do it.

`PlannerPage` is the page with htmx and the handlers behind it.

* `quality`, `slots`, `target`, `maxUnlocked`, `item`, `craft` are the selects; `stats`,
  `recipe` and `source` what replies have filled in; `boxes[b]` says which count
  typed in which box the number shown goes back to; `plan` is what the plan shown
  was computed from.
* `Trigger` is htmx's `issueAjaxRequest`: an element with a request in flight keeps
  one more (`queued`), which is made of what the page holds when it is sent.
  `timers` are the delays of 300 ms, `Finish` the end of a request, with the
  elements its reply has replaced; those lose what they kept, and the reply they
  wait for is still applied.
* An action of the user (`ChooseItem` ... `TypeInBox`) has the scripts that run on
  its event in it, before its request is made: `ModulesFrom` and `QualitiesFrom`
  are the cascades of the module slots, `ChooseMaxUnlocked` is
  `syncFromMaxUnlocked`. `ItemReply` ... `PlanReply` are the handlers and their
  out-of-band swaps, `EmptyReply` every reply that replaces no field.
* `orderly`, `alone` and `watched` are history: they say when a property of what
  the page shows can be asked for.
* For an item that no machine makes the page selects none. Locking the quality that is
  selected for the machine then asks for nothing (`machine-stats.js:3`), and its fields
  stay those of a quality that is locked: `FieldsMatchSelects` says so (`ShownTiers`).

### Pipeline, metrics, health, configuration

`RuntimeConfig` is `loadAppConfigFromEnv` on raw values that are absent, malformed
or a value. `Pipeline` starts a process with an environment and sends requests
through `Chain`, the layers in the order of `main`: `Enter` is the way in, up to the layer
that answers; `LookUp`, `BeginFetch` and `EndFetch` are the handlers that count
lookups and fetches; `MakeDir`, `CreateTemp` and `CloseAndRemove` are `readyz`;
`Load` is one atomic load of a scrape; `CountRequest`, `Count429` and `Log` are the
way out, and `Panic` a handler that has none. `DirChanges` is the world's. `lookups`,
`logged`, `entered`, `came` and `aborted` are history: what the counters are compared with.

### Process lifecycle

`ServerLifecycle` has the goroutine of `ListenAndServe` (`Listen`, `ListenFails`,
`ServeEnds`, `SendError`, `CloseChannel`), `main` (`SelectError`, `SelectSignal`,
`Drained`, `CloseServer`, `LastReceive`), signals, requests and time. It is checked
with the requests of `WikiRequests`, which take the time they do for a reason.
`serverErr` is the channel of capacity one, with what can be in it and whether it
is closed; `work[h]` counts the ticks since a request was read. Of net/http it has what `main` relies on: `Shutdown` refuses to listen
and accept, waits for requests and gives up at the timeout; `Close` does not stop
handlers. The requests that outlive `main` are the workers of `DetailsCache` that
`Restart` cuts off.

### Which module uses which

    MCMachineCache, MCItemCache -> DetailsCache (ReadThroughStore, DurableStore), WikiEntries
    RateLimiterBudget -> RateLimiter
    MCRateLimiter -> RateLimiterBudget
    MCWikiRequests -> WikiRequests -> ServerLifecycle
    MCPlannerPage -> PlannerPage -> ModuleStats
    MCPipeline -> Pipeline -> RuntimeConfig
    MCPlanner -> Planner -> LoopSolver -> QualityTiers
                 Planner -> Floats
    MCLoopSolver -> LoopSolver
    DetailsCacheProofs, RateLimiterProofs (the budget), ServerLifecycleProofs,
    LoopSolverProofs (the distribution too), PlannerPageProofs, PipelineProofs
        -> the module they prove about, TLAPS
    WikiRequestsProofs -> WikiRequests, ServerLifecycleProofs
    PlannerProofs -> Planner, LoopSolverProofs, WellFoundedInduction

## 3. The runs

| run | module | question and answer |
| --- | --- | --- |
| `cache_concurrent` | MCMachineCache | Do overlapping requests, failures and crashes ever take back an entry, or put one on disk that nobody fetched? No: `DeliveredIsCached`, `NothingUnknownOnDisk`, and the refinement `StoreSpec`. Does every call return? Yes: `CallsReturn`. |
| `cache_one_writer` | MCItemCache | Is a save atomic and durable when requests come one at a time? Yes: `PersistedSurvives`, `PublishedFileDecodes`, `DurableSpec`. |
| `cache_lost_save` (violation) | MCMachineCache | Does an intact file have every entry whose `Set` returned nil? No. |
| `cache_torn_file` (violation) | MCMachineCache | Does the published file always decode? No, with two saves at a time. |
| `limiter` | MCRateLimiter | What can a client get through in any window? Burst, refill, and the ticks that stamps were moved back: `AdmissionBound`. Is `Retry-After` always enough, and are idle clients forgotten? Yes. |
| `solver` | MCLoopSolver | Does the solver approach its fixed point from below, settle, and return ratios that add up to one? Yes, up to 300 % productivity, unless a loop loses next to nothing (`EndsBySettling`). |
| `solver_overflow` (violation) | MCLoopSolver | And up to the 1000 % the handler admits? No. |
| `planner_boxes` | MCPlanner | How far are the counts from what was asked, from their total and from the plan before? At most one machine a tier (`AnchorWithinOne`, `BoxesCoverTotal`, `ResubmitCostsAtMostOne`). Are there recyclers enough? Yes, and hardly one too many (`RecyclersMatchLoop`). |
| `wiki` | MCWikiRequests | Does the process end after a signal or a failure, with the right status (`ProcessEnds`, `ListenErrorIsReported`), and every handler return, whatever the wiki does (`HandlersReturn`)? Yes. Which requests are cut off, or answered too late? Those that outlast the timeout (`CutOffOnlyAfterTimeout`) because they need more pages than fit in it (`OnlyManyPagesAreTooMuch`), and what they fetch is there for the next (`FetchedForAll`). |
| `page` | MCPlannerPage | Do the selects, fields and plan of the page agree, whatever replies arrive when? The slots always (`SlotsAgree`); the fields if each partial was asked for alone (`FieldsMatchSelects`); the plan if plans came one at a time (`PlanIsForTheForm`). |
| `page_first_edit` (violation) | MCPlannerPage | Is the first count that is given to the page answered? Not always. |
| `pipeline` | MCPipeline | What does a request meet, in which order (`LayersInOrder`)? Do the counters and what is scraped of them add up (`CountersAddUp`, `ScrapesAgree`)? What does "ready" prove (`ReadyIsProven`)? When does a process start (`ServesAsTold`)? |

### Bounds

* Caches: two workers, two keys (`cache_one_writer`: one worker). Every hazard of the shared files is between two saves, and two keys are
  what lets a snapshot lack an entry another has. Two lengths of text are
  enough for one to be written over a longer and over a shorter one. Entries are one of
  each age a file can hold.
* Limiter: two clients, of which one is watched, and two goroutines that differ in
  name only. A burst of one, `MaxTime` 5, `MaxDelay` 1 (how long a request waits
  between stamp and mutex) and a time to live of 2 let a bucket be emptied,
  refilled, swept and made again, and a stamp be moved back. The burst refills in
  the time to live, so the premise of `AdmissionBound` holds.
* Solver: chances in tenths, targets up to Epic (TLC's integers have 32 bits),
  `Scale` 155 and 320 iterations. A loop that meets the limit must return all that is
  put into its lowest tier but for `LostPartsAtLimit` parts in as many as the limit: here
  that is less than 10 % lost, and only the inputs with 0 % quality and 300 %
  productivity do that. With the code's 1e-9 and 10000 passes the limit is met by loops
  that lose up to 21, 24, 27 and 29 parts of 10000, for targets one to four tiers up.
* Planner: 8-bit floats show at a few machines what float64 shows at a few more. A
  plan by anchor can show one machine more (24.8 % quality in both, 3 Legendary asked
  for, 4 shown). With productivity 50 %, machine quality 50.256007962787095 %, recycler
  quality 17.73238146922832 % and Rare for a target, 25 Normal are answered with 25, 5
  and 1 below a total of 32, which is one more than they are. So `BoxesCoverTotal` has a
  range. The inputs are no loop, loops of two and three tiers, one that never settles and
  one without recycler throughput. Counts are typed from {0, 1, 7} and clamped to 20;
  resubmission reaches every other.
* Lifecycle and the requests that fetch: two connections, an item of one page and a
  machine of two, a tick for each and two for the shutdown: fewer pages fit into it
  than a request can need, as with 8 s and 15 s, and a request can end before, at
  and after the timeout. `MaxWork` is more than all pages take. For other times and
  numbers of pages there are the proofs.
* Page: three actions of the user, with every request, delay and reply between
  them. Two is what a race needs (an edit and another while its reply is on its
  way), three adds one that makes the situation (a machine with slots, a plan).
  Three items, made by two machines, by one and by none, machines with two slots and with one, counts 1 and 2 in two boxes, two
  limits of quality, and a crafting time whose recycling time is rounded for the page.
* Pipeline: two connections, three requests, of each path as many as two scrapes with
  something to tell them apart need; one change of a directory, only while a probe
  is under way, since nothing else looks at it. The environments are the defaults, one
  that changes all that matters to requests, and one for each reason not to start.

Runs with CHECK_DEADLOCK FALSE are those in which the program really stops: the
process ends (`wiki`), the user has nothing left to do
(`page`, `page_first_edit`), all requests are answered (`pipeline`).

### Fairness

`DetailsCache!FairSpec`: a goroutine that can take a step takes one. The Go
scheduler justifies it for the steps under locks and the system calls, and the
client's timeout of eight seconds for the fetch. `WikiRequests!FairWikiSpec`: main,
the listener's steps, time and the steps of a handler are fair, and a page that has
used up the client's timeout is over, so that nothing is assumed of the wiki, and no
request, signal or failure has to come: `Signal`, `ListenFails` and `Ask` have no
fairness. That handlers return, which a server's end rests on, is not assumed but
checked (`HandlersReturn`). The other modules have safety properties only; of the page, that it comes
to rest is not one: a proxy can hold a reply for as long as it likes, and htmx sets
no timeout.

## 4. The proofs

Each theorem holds for every value of the constants under the module's named
assumptions. Of the 40 properties of the passing runs 36 are theorems.

### Caches

`DetailsCacheProofs`, any workers, keys and entries. `TypeCorrect` is inductive with
the ranges of what a write can leave in a file. `AnswersStayCached` needs that what
a worker is about to answer is in the map: it stored it, and entries only improve.
`DiskNeverAhead` needs, besides, that the content of every file a handle or a name
refers to and every snapshot is below the map; a text patched together from two
snapshots is below it key by key. `CacheImplementsStore` maps steps to steps:
`FetchSucceeds` to `Fill`, the steps that change `path` to `Save`, the restarts to
`Restart`, the rest to stutters.

`SavedOnceSurvives`, `PublishedWhole` and `CacheImplementsDurableStore` assume
`OneAtATime`, as their run does: with two requests at once they are false, which
`cache_lost_save` and `cache_torn_file` show. Their invariant `AloneInv` says that
what the one worker writes is the map as it is, that `path.tmp` is whole once it is
written, and that `path` always decodes; `WriteFails` spoils only `path.tmp`.

### Limiter

`RateLimiterProofs`, any clients, requests and configuration. `LimiterTypeCorrect` is
the range of a bucket. `AdmissionIsBounded` carries an account for every client: what
was let through and what is left in the bucket is paid for by the burst, the refill
since the window was opened up to the stamp last seen, and the ticks moved back. A
dropped bucket counts as a full one, which is where `BurstRefillsInTime` is needed.
`WaitsAreHonest` rests on `PromiseInv`: the bucket of a client that was told to wait
has a token by then, whether another request took one first (the promise is then a new
one), was refused, or had an older stamp. `IdleAreForgotten` rests on `SweepInv`: who
is in the map was seen no longer than the time to live before the last sweep. A request
that waits for the mutex for longer than that would bring back a client with a stamp
that old; `DelaysAreShort` excludes it (the time to live is ten minutes).

### Solver

`LoopSolverProofs`, any inputs, tolerance, limits and `Scale`. Before the loop come
the shares of `qualityDistribution`, for any chance: they lie in the unit and add up to
exactly it, by cases on the distance of the tiers, which is finite. The code's pass is
compared with `ExactNext`, a pass without a largest amount: amounts that are numbers
are those of it (`NumbersAreExact`), because Inf and NaN never become numbers again.

* `SupplyIsPaidFor` from `SupplyInv`. `PassPays`: what is mixed by shares of a whole
  and rounded down is no more than what there was (`SpreadIsNoMore`), once for
  the machines and once for the recyclers; so with `T` in the loop the next pass has
  at most `Scale` and `OutputPercent / 400` of `T`, and the bound is kept.
* `MaterialsOnlyGrow` from `GrowInv`: the next pass makes no less of any tier than
  there is. It holds of the first amounts, which are the least, and `PassGrows`, the
  monotonicity of a pass, carries it on.
* `RatiosAreShares` from `RoomInv`, under `AmountsFit`: productivity up to the
  300 % of a recipe, and room for one unit for every iteration (10001 units, of the
  10^308 a float64 holds). `SmallIsExact` says that no pass then overflows,
  `FloorsMakeTheWhole` what rounding the ratios down takes. Without `AmountsFit` it
  is false, which `solver_overflow` shows.

### Counts

`PlannerProofs`, any inputs, tolerance, `Scale`, precision and counts. Its theorems
assume `AmountsFit`, which the constants of `planner_boxes` satisfy, and that a count is
at most a third of what a mantissa holds (`RoomForCounts`: a million, and 2^53).

* Floats. `Near` says that two numbers differ by at most one part in
  `PowerOfTwo[Precision]`. `ExponentIs` proves that an exponent exists that gives a
  mantissa of the right length, so `QuotientIsNear`, `DivisionIsNear` and
  `ProductIsNear` hold of every quotient and product. A box's count is two such steps and
  a Ceil away from the exact one (`BoxIs`).
* `AnchorComesBack` from `CountComesBack`: a whole count divided by its share and
  multiplied by it again is off by less than one, so Ceil gives it or the next.
* `BoxesAddUp` from `BoxesAdd`: what the boxes hold, with the errors of all tiers, lies
  between two multiples of the total, which are less than a machine from it as long as
  the total is a third of the mantissa.
* `PlannerTypeCorrect` from the invariant `PlannerInv`: the solver's invariants while
  a call is under way, and for a plan that is shown, that it was made of them and of
  a request that has a share. A call that is refused at once has no amounts, which is why
  `CallInv` leaves it out.
* `RecyclersAreEnough` needs `LoadInv`: when the loop has settled, what is in it beyond
  the unit is `OutputPercent / 400` of the load, but for `Slack`. From below it is
  `PassPays`, with the load as what was crafted. From above (`SettledLoad`) a pass loses at most
  a part a tier to each rounding (`MixesLoseLittle`), and grows by less than
  `Tolerance` in the last pass (`CraftedGrowsLittle`).
* `ResubmittedPlanLosesOne` relates the plan of one request with that of another, so
  it needs that the loop computes the same again. `RunOf` is a run of the loop as a
  function of an input, `Complete` one that ends where the code ends it. `CallRuns`
  says that a call follows one, `PageRuns` that the plan shown was made of the
  end of one, and `SameRun` that two complete runs of an input end in the same amounts.
  Then both plans have the same shares, the new total is one box over its share, and
  `ResubmittedBoxes` bounds what three more roundings take.

The library's induction rule takes a predicate as a parameter, which the provers cannot
instantiate. Where an induction over numbers is needed (powers of two, the passes of a
run) it is done on a set of numbers: a set that has zero and every successor is all of
`Nat` (`AllNumbersAreIn`), since otherwise what is missing has a least element.

### Lifecycle and the requests that fetch

`ServerLifecycleProofs`, any requests and timeouts. The invariant `Ending` adds to
the types who shuts down (`ShutdownByMain`), why the channel is closed
(`ClosedByListener`), where an error is until main has it (`ErrorOnItsWay`), what is
left of the requests past `Shutdown` (`QuietPastShutdown`), and that what a request
has run and what is left of the timeout make up the whole of it
(`RunningSinceShutdown`). From it: `NoListenErrorIsLost`, `ShutdownDrains`,
`LifecycleTypeCorrect`.

`WikiRequestsProofs`, any entries, makers, pages, handlers and timeouts.
`RequestsImplementLifecycle` maps every step to one of the life cycle or a stutter,
so `CutOffOnlyAfterTimeout` holds for requests that fetch. `NothingIsFetchedAgain`
needs `Kept`: what is promised to a request stays current, because a refresh that
fails stores nothing. `TimeIsSpentOnPages` needs `InTime`: the time a request has run,
with what is left of its page's timeout, is within what the pages it has tried can
take. `RequestsTypeCorrect` needs `PagesInv`: the page that is asked for is one of the
entry's, and of an entry that is not current.

### Page

`PlannerPageProofs`, any items, machines, producers, modules and number of actions.

* `SlotsAlwaysAgree` from `IInv`: the limit bounds every slot's options and what a
  request carries of them; a reply makes slots for the limit that was sent, which may
  be an old one.
* `PageTypeCorrect` from `PageInv`, which adds `NetInv` (which elements can wait, and
  for what; an element that was replaced waits for nothing) and `ValuesInv`.
* `PlanFollowsTheForm` from `AloneInv` and `WatchInv`: while plans come one at a time,
  what is under way is for the target and the counts that are selected, or an element
  has a delay or a kept request that will ask for them.
* `FieldsFollowTheSelects` from `FieldsInv`: while each partial is asked for alone
  (`orderly`), every request under way carries what is selected now (`Current`), none
  is kept behind another, and what is not awaited is as the selects have it
  (`Shown`). With two requests at a time the first of these is false, which is why the
  property is not promised then.

The assumptions say that the counts are natural numbers for boxes that exist
(`EditsAssumption`), and that the recycler's fields in the page as it is loaded are
those that the handler would compute (`LoadedAssumption`), which TLC evaluates and
no prover does: it is a sum over slots without modules.

### Pipeline

`PipelineProofs`, any finite set of connections, any mix of requests, any environments
whose variables are text of their kind (`RawAssumption`, `PipelineAssumption`). `FlowInv`
is where a request can be at each step and with which status; `PipelineTypes` is part of it. Beside it:

* `ServedAsTold` from `ConfigInv`: the settings are what the environment denotes.
* `LayersAreInOrder` from `LayersInv`: which layers a request with a given status has
  passed.
* `EachIsCountedOnce` from `TallyInv` and `FetchInv`: each counter is what was logged
  and those requests that are counted and not yet logged, as a cardinality of a set of
  connections; a lookup's fetches and pages left make up its entry's pages.
* `ScrapesNeverGoBack` from `ScrapeInv`: counters only grow, so a number loaded later
  is no smaller than one that was loaded before, and no part exceeds the whole that was loaded
  earlier by the scrape before.
* `ReadyWasProven` from `ProbeInv`: a probe that is past `CreateTemp` has seen its
  directory writable, and leaves a file only at the cost of its answer.

### Model-checked only

* Liveness (`CallsReturn`, `HandlersReturn`, `ProcessEnds`) and everything with
  ENABLED, which the prover does not reach.
* `EndsBySettling`: how fast repeated passes converge. It is a statement about the
  size of the constants (a tolerance of 1e-9 and ten thousand passes) and not about all
  values of them: with few passes and a fine `Scale` a loop that loses half of its input
  is cut off too.

The proofs changed some models. `FieldsMatchSelects` was false with an item that no
machine makes, which no run had; there is one now, and the property says what the page
shows then. `RuntimeConfig` and `Pipeline` say which texts a variable can have, and count the requests that
came apart from those of each path. `SolverAssumption` says that all
percentages are integers. The counts' properties were first stated as 8-bit floats
show them, and the proofs found what larger ones do: `BoxesCoverTotal` had no -1, and
`ResubmitCostsAtMostOne` held beyond the mantissa, where a count cannot be kept.
`RecyclersMatchLoop` lost its slack from below, where there is none. `EndsBySettling`
had taken the limit to be met only by loops that lose nothing; the constants of the code
meet it with a little loss. No module here has a RECURSIVE operator.

## 5. What the violations show

* `cache_lost_save`: two workers fetch two keys; the first takes its snapshot before the
  second stores its entry, and renames after it. Both `Set` calls returned nil,
  and the file lacks the second key. The next process fetches it again, which
  `machine_cache_test.go:58` says does not happen.
* `cache_torn_file`: both workers open `path.tmp`; the first writes and renames; the
  second, whose handle is now `path`, writes a shorter text over it. The next start cannot
  decode the file (`machine_cache_test.go:54`), and begins with an empty cache.
* `solver_overflow`: above 300 % productivity a loop can return more than it was
  given, and the amounts double until they overflow. The notes in `docs` give
  300 % as the cap of a recipe; `input_validation.go:5` admits 1000 %. In float64
  1000 % productivity and 10 % quality give five ratios that are NaN.
* `page_first_edit`: the form listens (`from:input`) to the elements that are there when
  the page is loaded, the boxes among them. The first edit of a box submits the box,
  and 300 ms later the form, for the Normal box; when the second answer is the last, it is
  a plan for 0 Normal machines, and the edit is gone (`index.html:25`, `index.html:300`).

## 6. What is abstracted, and what is left out

* Files: no loss of power; a rename is atomic and durable. Neither cache has an empty
  path, which would turn saving off. Two texts of one layout can be merged by a
  short write, which is why a partly written file can still decode; a short write
  over a damaged file leaves it damaged.
* Which of two fetched values is newer is not told apart: no code can.
* A wiki page is what can be parsed from it: whether its text arrived, and which of
  the numbers that a record cannot do without are in it. The names of producers and
  the values are left out. In `DetailsCache` a fetch is one step, however many pages
  it tries; the pages are in `WikiRequests` and `Pipeline`.
* With a wiki that hangs, a request for a machine of a generic name ("assembling
  machine", "furnace": four pages, 32 s) always takes longer than the write timeout,
  so not even its error message arrives. `OnlyManyPagesAreTooMuch` says that it takes
  so many pages to be that late; no document says that a reply comes in any case.
* The limiter's fractions are exact, and so are the solver's but for rounding down
  to 1/`Scale`; float64's rounding is modelled where it decides something, in the
  counts (`Floats`). `int()` of NaN is what amd64 makes of it.
* A plan's `Craft` enters as rates: `craftRate` for the machine and
  `recyclerPerSecond`. Fields of the form that do not parse are refused without a
  trace on the page, and are left out. In `Planner` requests to `/plan` are answered
  one at a time; `PlannerPage` has them overlap, and a plan there is what it was computed from.
* The page has one recycler slot count, no recipe fields beyond the item they belong
  to, no Enter key and no list of suggestions. A machine's numbers are those of the
  wiki or the defaults of `resolveMachineDetails`. `base_recycle_input_per_cycle` is left out.
* The pipeline's limiter refuses any limited request (`RateLimiter` says which), and
  its caches answer anything. The sum of latencies, request ids, the text of
  responses and the address of a client are left out, and of `/readyz` the methods
  it does not take. With ENFORCE_HTTPS the probe of the Docker image
  gets a redirect from `/healthz`, as every other request that is not forwarded HTTPS.

Not modelled:

* Static assets and rendering: files and templates are written out as they are; what
  of them is behaviour (the scripts, the triggers of htmx) is in `PlannerPage`.
* Deployment: a Dockerfile and scripts with no state of the program.
* The text of wiki pages: regular expressions over markup; whether they find
  what they look for is an input of `WikiEntries`.

## 7. Plan

Done, in this order: the caches with their two abstract stores and proofs; the
limiter with its budget and proofs; the distribution, the solver and the counts;
the lifecycle with its proofs; module statistics and the page; configuration, pipeline,
metrics and health; the requests that fetch, composed with the lifecycle; then the proofs
of section 4, for every module with a specification. Left:

1. `EndsBySettling` for the constants of the code: a rate of convergence for the
   amounts of all tiers together, with floors, from `PassPays` and `MixesLoseLittle`.
2. `ModuleStats`: that a better module or quality never makes a field worse. The sum
   over slots is a fold of the library, which the provers cannot expand.
3. The choice of the client's address, and the parsing of the form.
