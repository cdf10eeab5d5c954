------------------------------ MODULE Pipeline -------------------------------
(***************************************************************************)
(* A request on its way through the layers of the handler that main puts   *)
(* together, what it does to the counters of metrics.go, and what a scrape *)
(* of /metrics or a probe of /readyz can see while others do the same.     *)
(*                                                                         *)
(* Each counter is atomic, and no two are read or written together. The    *)
(* limiter's answer is any (RateLimiter is its model), and so are the      *)
(* caches' and the wiki's (DetailsCache and WikiEntries).                  *)
(***************************************************************************)
EXTENDS RuntimeConfig, Sequences, FiniteSets, Functions

CONSTANTS
    Connections,    \* each has one request at a time
    Environments,   \* what the process can be started with
    Asked,          \* bound: Asked[p] requests for the path p at most
    Pages,          \* Pages[c]: pages of the wiki that are tried for an entry of c
    MaxRequests,    \* bound: requests in all
    MaxChanges,     \* bound: changes of what can be done in a directory
    NoConfig

ASSUME PipelineAssumption ==
    /\ IsFiniteSet(Connections)
    /\ \A e \in Environments :
         e.root \in BOOLEAN /\ \A name \in DOMAIN Defaults : e.env[name] \in Raws(name)
    /\ Pages \in [{"item", "machine"} -> Nat \ {0}]
    /\ Asked \in [DOMAIN Asked -> Nat] /\ MaxRequests \in Nat /\ MaxChanges \in Nat

Caches == DOMAIN Pages
Unlimited == {"/static/", "/healthz", "/readyz", "/metrics"}
CacheOf ==
    [path \in {"/partials/item-details", "/partials/machine-details", "/partials/module-stats"} |->
        IF path = "/partials/item-details" THEN "item" ELSE "machine"]
CachesDir == "docs/cache"

Hits(cache) == IF cache = "item" THEN "item hits" ELSE "machine hits"
Misses(cache) == IF cache = "item" THEN "item misses" ELSE "machine misses"

\* What metricsHandler loads, in its order.
Loads == <<"requests", "429", "fetches", "errors",
           "item hits", "item misses", "machine hits", "machine misses">>

VARIABLES
    start,          \* what the process was started with
    config,         \* the settings, when it serves
    phase,          \* "starting", "serving" or "refused"
    at,             \* at[r]: the path of r's request, its next step, and what that needs
    status,         \* status[r]: the writer's statusCode
    passed,         \* passed[r]: the layers that have seen the request
    count,          \* the counters
    logged,         \* lines in the log: all, and those of two codes
    report,         \* report[r]: the numbers that a scrape has loaded
    dir,            \* dir[d]: what can be done in a directory
    probing,        \* connections whose probe has a file
    filesLeft,      \* files that probes have left behind
    changes,        \* number of changes of dir from outside
    \* History variables, of no effect on the others:
    entered,        \* entered[p]: requests for p that have come
    came,           \* requests that have come
    aborted,        \* requests that have ended in a panic
    found,          \* found[r][c]: what r has found in a cache, and fetched for it
    lookups,        \* lookups[c]: how often a cache was asked
    shown,          \* the largest numbers that scrapes have shown
    earlier,        \* earlier[r]: what had been shown when the scrape of r began
    savable         \* probes that saw the directory of the caches writable

process == <<start, config, phase>>
files == <<dir, probing, filesLeft, changes, savable>>
fetching == <<found, lookups, count>>
scraping == <<report, shown, earlier>>
log == <<logged, entered, came, aborted>>
vars == <<process, at, status, passed, fetching, scraping, log, files>>

NothingFound == [cache \in Caches |-> [entry |-> "unasked", fetches |-> 0]]
NothingShown == [counter \in Range(Loads) |-> 0]
Idle == [path |-> "", step |-> "idle", cache |-> "item", left |-> 0]

Init ==
    /\ start \in Environments
    /\ config = NoConfig
    /\ phase = "starting"
    /\ at = [r \in Connections |-> Idle]
    /\ status = [r \in Connections |-> 0]
    /\ passed = [r \in Connections |-> {}]
    /\ count = NothingShown
    /\ logged = [all |-> 0, refused |-> 0, unready |-> 0]
    /\ report = [r \in Connections |-> <<>>]
    /\ dir = [d \in {CachesDir, "elsewhere"} |-> IF d = CachesDir THEN "writable" ELSE "missing"]
    /\ probing = {} /\ filesLeft = 0
    /\ changes = 0
    /\ entered = [path \in DOMAIN Asked |-> 0] /\ came = 0 /\ aborted = 0
    /\ found = [r \in Connections |-> NothingFound]
    /\ lookups = [cache \in Caches |-> 0]
    /\ shown = NothingShown /\ earlier = [r \in Connections |-> NothingShown]
    /\ savable = {}

Start ==
    /\ phase = "starting"
    /\ LET loaded == loadAppConfigFromEnv(start.env)
       IN  IF Refused(loaded, start.root)
           THEN phase' = "refused" /\ UNCHANGED config
           ELSE phase' = "serving" /\ config' = loaded
    /\ UNCHANGED <<start, at, status, passed, fetching, scraping, log, files>>

-----------------------------------------------------------------------------
(* The layers on the way in                                                *)

\* MUTANT: the limiter judges requests before they are redirected.
ChainLimitingFirst == <<"logging", "metrics", "limit", "redirect", "headers", "mux">>

\* From the outermost layer to the handler.
Chain == <<"logging", "metrics", "redirect", "headers", "limit", "mux">>

\* The listener itself has no TLS.
requestIsHTTPS(forwarded) == config["httpsTrustProxy"] /\ forwarded

Limits(path) == config["rateEnabled"] /\ path \notin Unlimited

\* The outermost layer that answers.
Answers(layer, forwarded, refused) ==
    \/ layer = "redirect" /\ config["enforceHTTPS"] /\ ~requestIsHTTPS(forwarded)
    \/ layer = "limit" /\ refused
    \/ layer = "mux"

Enter(r, path, forwarded, refused) ==
    /\ phase = "serving"
    /\ at[r].step = "idle"
    /\ entered[path] < Asked[path] /\ came < MaxRequests
    /\ entered' = [entered EXCEPT ![path] = @ + 1] /\ came' = came + 1
    /\ refused => Limits(path)
    /\ \E last \in DOMAIN Chain :
         /\ Answers(Chain[last], forwarded, refused)
         /\ \A i \in 1 .. last - 1 : ~Answers(Chain[i], forwarded, refused)
         /\ passed' = [passed EXCEPT ![r] = {Chain[i] : i \in 1 .. last}]
         /\ status' = [status EXCEPT ![r] = IF Chain[last] = "redirect" THEN 308
                                              ELSE IF Chain[last] = "limit" THEN 429 ELSE 0]
         /\ at' = [at EXCEPT ![r] =
                     [path |-> path, step |-> IF Chain[last] = "mux" THEN "handle" ELSE "count",
                      cache |-> Idle.cache, left |-> Idle.left]]
    /\ UNCHANGED <<process, fetching, scraping, logged, aborted, files>>

-----------------------------------------------------------------------------
(* Handlers                                                                *)

Handles(r, path) == at[r].step = "handle" /\ at[r].path = path

Goto(r, step, cache, left) ==
    at' = [at EXCEPT ![r] = [path |-> at[r].path, step |-> step, cache |-> cache, left |-> left]]

GotoStep(r, step) == Goto(r, step, at[r].cache, at[r].left)

Reply(r, code) ==
    /\ status' = [status EXCEPT ![r] = code]
    /\ GotoStep(r, "count")

\* A method that the handler does not take, a form that is not valid, no item to
\* look up; or a page, a plan or /healthz. 200 stands for every status of theirs.
\* A method that /readyz does not take is left out, so that its 200 is "ready".
AnswerAtOnce(r) ==
    /\ at[r].step = "handle" /\ report[r] = <<>>
    /\ at[r].path # "/readyz"
    /\ Reply(r, 200)
    /\ UNCHANGED <<process, passed, fetching, scraping, log, files>>

\* The connection is ready for another request.
Free(r) ==
    /\ at' = [at EXCEPT ![r] = Idle]
    /\ status' = [status EXCEPT ![r] = 0]
    /\ passed' = [passed EXCEPT ![r] = {}]
    /\ report' = [report EXCEPT ![r] = <<>>]
    /\ earlier' = [earlier EXCEPT ![r] = NothingShown]
    /\ found' = [found EXCEPT ![r] = NothingFound]
    /\ savable' = savable \ {r}

\* net/http gives up the request, and none of the layers goes on.
Panic(r) ==
    /\ at[r].step \in {"handle", "lookup", "fetch", "fetching"}
    /\ aborted' = aborted + 1
    /\ Free(r)
    /\ UNCHANGED <<process, lookups, count, shown, logged, entered, came>>
    /\ UNCHANGED <<dir, probing, filesLeft, changes>>

\* The item's details are had: those of a machine are next, if one makes the item.
Resolved(r, cache) ==
    IF cache = "item"
    THEN Goto(r, "lookup", "machine", at[r].left) /\ UNCHANGED status
    ELSE Reply(r, 200)

\* MUTANT: an entry that must be fetched again counts as a miss too.
CountLookupTwice(cache, entry) ==
    count' = [count EXCEPT ![Hits(cache)] = @ + (IF entry = "none" THEN 0 ELSE 1),
                           ![Misses(cache)] = @ + (IF entry = "current" THEN 0 ELSE 1)]

CountLookup(cache, entry) ==
    count' = [count EXCEPT ![Hits(cache)] = @ + (IF entry = "none" THEN 0 ELSE 1),
                           ![Misses(cache)] = @ + (IF entry = "none" THEN 1 ELSE 0)]

LookUp(r, cache, entry) ==
    /\ \/ at[r].step = "handle" /\ at[r].path \in DOMAIN CacheOf /\ cache = CacheOf[at[r].path]
       \/ at[r].step = "lookup" /\ cache = at[r].cache
    /\ found' = [found EXCEPT ![r][cache] = [entry |-> entry, fetches |-> @.fetches]]
    /\ lookups' = [lookups EXCEPT ![cache] = @ + 1]
    /\ CountLookup(cache, entry)
    /\ IF entry = "current"
       THEN Resolved(r, cache)
       ELSE Goto(r, "fetch", cache, Pages[cache]) /\ UNCHANGED status
    /\ UNCHANGED <<process, passed, scraping, log, files>>

\* No machine makes the item.
NothingToLookUp(r) ==
    /\ at[r].step = "lookup"
    /\ Reply(r, 200)
    /\ UNCHANGED <<process, passed, fetching, scraping, log, files>>

BeginFetch(r) ==
    /\ at[r].step = "fetch"
    /\ Goto(r, "fetching", at[r].cache, at[r].left - 1)
    /\ found' = [found EXCEPT ![r][at[r].cache] = [entry |-> @.entry, fetches |-> @.fetches + 1]]
    /\ count' = [count EXCEPT !["fetches"] = @ + 1]
    /\ UNCHANGED <<process, lookups, status, passed, scraping, log, files>>

\* A page cannot be had, which is an error, or it can, and has the data or not.
EndFetch(r, outcome) ==
    /\ at[r].step = "fetching"
    /\ count' = [count EXCEPT !["errors"] = @ + (IF outcome = "error" THEN 1 ELSE 0)]
    /\ IF outcome = "data" THEN Resolved(r, at[r].cache)
       ELSE IF at[r].left > 0
       THEN GotoStep(r, "fetch") /\ UNCHANGED status
       ELSE IF at[r].cache = "item" /\ found[r]["item"].entry = "none"
       THEN Reply(r, 200)
       ELSE Resolved(r, at[r].cache)
    /\ UNCHANGED <<process, passed, found, lookups, scraping, log, files>>

Larger(a, b) == IF a > b THEN a ELSE b

\* The scrape of r goes on, or ends with the number that it loads next.
ReportNext(r) ==
    /\ report' = [report EXCEPT ![r] = Append(@, count[Loads[Len(@) + 1]])]
    /\ earlier' = IF report[r] = <<>> THEN [earlier EXCEPT ![r] = shown] ELSE earlier
    /\ IF Len(report'[r]) = Len(Loads)
       THEN /\ Reply(r, 200)
            /\ shown' = [counter \in Range(Loads) |->
                            LET i == CHOOSE i \in DOMAIN Loads : Loads[i] = counter
                            IN  Larger(shown[counter], report'[r][i])]
       ELSE UNCHANGED <<at, status, shown>>

\* MUTANT: a scrape takes what it reports out of the counters.
LoadAndReset(r) ==
    /\ Handles(r, "/metrics")
    /\ ReportNext(r)
    /\ count' = [count EXCEPT ![Loads[Len(report[r]) + 1]] = 0]
    /\ UNCHANGED <<process, passed, found, lookups, log, files>>

Load(r) ==
    /\ Handles(r, "/metrics")
    /\ ReportNext(r)
    /\ UNCHANGED <<process, passed, fetching, log, files>>

-----------------------------------------------------------------------------
(* readyz: ensureWritableDir                                               *)

ProbeDir == config["cacheDir"]
Unready(r) == Reply(r, 503) /\ UNCHANGED <<dir, savable>>
Continue(r, step) == GotoStep(r, step) /\ UNCHANGED status
ProbeKeeps == UNCHANGED <<process, passed, fetching, scraping, log, changes>>

MakeDir(r) ==
    /\ Handles(r, "/readyz")
    /\ \/ /\ dir[ProbeDir] = "missing"
          /\ \/ /\ dir' = [dir EXCEPT ![ProbeDir] = "writable"]
                /\ Continue(r, "create")
                /\ UNCHANGED savable
             \/ Unready(r)
       \/ /\ dir[ProbeDir] # "missing"
          /\ Continue(r, "create")
          /\ UNCHANGED <<dir, savable>>
    /\ UNCHANGED <<probing, filesLeft>>
    /\ ProbeKeeps

\* MUTANT: a directory that is there is taken for one that can be written.
CreateNothing(r) ==
    /\ at[r].step = "create"
    /\ Reply(r, 200)
    /\ UNCHANGED <<dir, probing, filesLeft, savable>>
    /\ ProbeKeeps

CreateTemp(r) ==
    /\ at[r].step = "create"
    /\ \/ /\ dir[ProbeDir] = "writable"
          /\ probing' = probing \union {r}
          /\ savable' = IF dir[CachesDir] = "writable" THEN savable \union {r} ELSE savable
          /\ Continue(r, "remove")
          /\ UNCHANGED dir
       \/ dir[ProbeDir] # "writable" /\ Unready(r) /\ UNCHANGED probing
    /\ UNCHANGED filesLeft
    /\ ProbeKeeps

\* The file is closed, which may fail and leave it there, and removed.
CloseAndRemove(r) ==
    /\ at[r].step = "remove"
    /\ probing' = probing \ {r}
    /\ \/ /\ dir[ProbeDir] = "writable"
          /\ Reply(r, 200)
          /\ UNCHANGED <<dir, filesLeft, savable>>
       \/ Unready(r) /\ filesLeft' = filesLeft + 1
    /\ ProbeKeeps

\* A volume is mounted read-only, is full, or can be written again. Only probes look
\* at it here, and at no change before their first step: there are none without one.
DirChanges(d) ==
    /\ \E r \in Connections : at[r].path = "/readyz" /\ at[r].step \in {"create", "remove"}
    /\ changes < MaxChanges
    /\ changes' = changes + 1
    /\ \E now \in {"writable", "readonly"} \ {dir[d]} :
         dir[d] # "missing" /\ dir' = [dir EXCEPT ![d] = now]
    /\ UNCHANGED <<process, at, status, passed, fetching, scraping, log>>
    /\ UNCHANGED <<probing, filesLeft, savable>>

-----------------------------------------------------------------------------
(* The layers on the way out                                               *)

\* MUTANT: every request that returns is taken for one that was refused.
CountRequestAs429(r) ==
    /\ at[r].step = "count"
    /\ count' = [count EXCEPT !["requests"] = @ + 1]
    /\ GotoStep(r, "count429")
    /\ UNCHANGED <<process, status, passed, found, lookups, scraping, log, files>>

CountRequest(r) ==
    /\ at[r].step = "count"
    /\ count' = [count EXCEPT !["requests"] = @ + 1]
    /\ GotoStep(r, IF status[r] = 429 THEN "count429" ELSE "log")
    /\ UNCHANGED <<process, status, passed, found, lookups, scraping, log, files>>

Count429(r) ==
    /\ at[r].step = "count429"
    /\ count' = [count EXCEPT !["429"] = @ + 1]
    /\ GotoStep(r, "log")
    /\ UNCHANGED <<process, status, passed, found, lookups, scraping, log, files>>

Log(r) ==
    /\ at[r].step = "log"
    /\ logged' = [all |-> logged.all + 1,
                  refused |-> logged.refused + (IF status[r] = 429 THEN 1 ELSE 0),
                  unready |-> logged.unready + (IF status[r] = 503 THEN 1 ELSE 0)]
    /\ Free(r)
    /\ UNCHANGED <<process, lookups, count, shown, entered, came, aborted>>
    /\ UNCHANGED <<dir, probing, filesLeft, changes>>

Handler(r) ==
    \/ AnswerAtOnce(r) \/ Panic(r)
    \/ \E cache \in Caches, entry \in {"none", "stale", "current"} : LookUp(r, cache, entry)
    \/ NothingToLookUp(r)
    \/ BeginFetch(r)
    \/ \E outcome \in {"error", "useless", "data"} : EndFetch(r, outcome)
    \/ Load(r)
    \/ MakeDir(r) \/ CreateTemp(r) \/ CloseAndRemove(r)

Next ==
    \/ Start
    \/ \E r \in Connections :
         \/ \E path \in DOMAIN Asked, forwarded, refused \in BOOLEAN : Enter(r, path, forwarded, refused)
         \/ Handler(r)
         \/ CountRequest(r) \/ Count429(r) \/ Log(r)
    \/ \E d \in DOMAIN dir : DirChanges(d)

Spec == Init /\ [][Next]_vars
-----------------------------------------------------------------------------
Handling == {"handle", "lookup", "fetch", "fetching", "create", "remove"}
Returning == {"count", "count429", "log"}

\* A request has a status when its handler has returned, and not before; only
\* refusals are counted as such; and a scrape has no more numbers than there are.
TypeOK ==
    /\ phase \in {"starting", "serving", "refused"}
    /\ \A r \in Connections :
         /\ at[r].step \in {"idle"} \union Handling \union Returning
         /\ status[r] # 0 <=> at[r].step \in Returning
         /\ at[r].step = "count429" => status[r] = 429
         /\ Len(report[r]) <= Len(Loads)
    /\ count \in [Range(Loads) -> Nat]
    /\ probing \subseteq Connections

\* A process serves only as the environment tells it to, with the defaults for
\* what it does not tell, and refuses to start only when a variable is not a value
\* or out of range, or root is not to run it.
ServesAsTold ==
    /\ phase = "serving" =>
         /\ \A name \in DOMAIN config :
              config[name] = IF start.env[name] = Absent THEN Defaults[name] ELSE start.env[name]
         /\ \A name \in Counters : config[name] \in 1 .. MaxSetting
         /\ \A name \in Durations : config[name] > 0
         /\ ~(config["requireNonRoot"] /\ start.root)
    /\ phase = "refused" =>
         \/ start.root /\ start.env["requireNonRoot"] = TRUE
         \/ \E name \in DOMAIN Defaults : start.env[name] = Malformed
         \/ \E name \in Durations \union Counters :
              start.env[name] # Absent /\ start.env[name] \notin 1 .. MaxSetting

\* The limiter judges no request that is sent to HTTPS, and refuses no probe and no
\* scrape; every answer that is not a redirect carries the security headers; and
\* with the defaults nothing is redirected.
LayersInOrder ==
    \A r \in Connections : at[r].step \in Returning =>
      /\ status[r] = 308 => {"headers", "limit", "mux"} \intersect passed[r] = {}
      /\ status[r] = 429 => at[r].path \notin Unlimited /\ "mux" \notin passed[r]
      /\ status[r] # 308 => "headers" \in passed[r]
      /\ status[r] = 308 => start.env["enforceHTTPS"] = TRUE

InProgress == {r \in Connections : at[r].step # "idle"}

\* A page is fetched only for an entry that was looked up and not current, as often
\* as there are pages at most; each lookup is one hit or one miss; no more refusals
\* and errors are counted than requests and fetches; and when no request is in
\* progress, each that came was counted and logged, refusals as refusals, or ended
\* in a panic.
CountersAddUp ==
    /\ count["429"] <= count["requests"] /\ count["errors"] <= count["fetches"]
    /\ \A cache \in Caches :
         /\ count[Hits(cache)] + count[Misses(cache)] = lookups[cache]
         /\ \A r \in Connections :
              LET entry == found[r][cache].entry
                  fetches == found[r][cache].fetches
              IN  /\ fetches <= Pages[cache]
                  /\ fetches > 0 => entry \in {"none", "stale"}
                  /\ at[r].step \in Returning /\ entry \in {"none", "stale"} => fetches > 0
    /\ InProgress = {} =>
         /\ came = logged.all + aborted
         /\ count["requests"] = logged.all /\ count["429"] = logged.refused

Loaded(r, counter) == report[r][CHOOSE i \in DOMAIN Loads : Loads[i] = counter]

\* A scrape shows no number smaller than one before it did, no fewer requests than
\* one before it showed refusals, and no fewer fetches than that one showed errors.
ScrapesAgree ==
    \A r \in Connections : Len(report[r]) = Len(Loads) =>
      /\ \A counter \in Range(Loads) : earlier[r][counter] <= Loaded(r, counter)
      /\ earlier[r]["429"] <= Loaded(r, "requests")
      /\ earlier[r]["errors"] <= Loaded(r, "fetches")

\* A probe that is answered ready leaves no file, and has seen the directory of the
\* caches writable, if CACHE_DIR names that directory; there are no more files left
\* than probes that were not answered ready.
ReadyIsProven ==
    /\ \A r \in Connections : at[r].path = "/readyz" /\ status[r] = 200 =>
         /\ r \notin probing
         /\ config["cacheDir"] = CachesDir => r \in savable
    /\ filesLeft <= logged.unready + Cardinality({r \in Connections : status[r] = 503})
=============================================================================
