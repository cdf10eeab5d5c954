--------------------------- MODULE PipelineProofs ---------------------------
(***************************************************************************)
(* What holds of the layers, the counters, the scrapes and the probes for  *)
(* any number of connections, any mix of paths, any environment and wikis  *)
(* of any number of pages: every invariant of Pipeline.                    *)
(*                                                                         *)
(* FlowInv says where a request can be, and the lemmas ...Goes where each  *)
(* step leads; ConfigInv, LayersInv, TallyInv, ProbeInv, FetchInv and      *)
(* ScrapeInv are what the properties lack to be inductive beside it.       *)
(***************************************************************************)
EXTENDS Pipeline, FiniteSetTheorems, TLAPS

-----------------------------------------------------------------------------
(* What a process is told.                                                 *)

LEMMA NamesApart ==
  /\ DOMAIN Defaults = Texts \union Durations \union Counters \union Switches
  /\ Texts \intersect Switches = {} /\ Counters \intersect Switches = {}
  /\ Durations \intersect Switches = {} /\ Texts \intersect Counters = {}
  /\ Texts \intersect Durations = {} /\ Durations \intersect Counters = {}
BY SMT DEF Defaults, Texts, Durations, Counters, Switches

LEMMA DefaultsType ==
  /\ \A name \in Durations : Defaults[name] \in Nat \ {0}
  /\ \A name \in Counters : Defaults[name] \in 1 .. MaxSetting
  /\ \A name \in Switches : Defaults[name] \in BOOLEAN
  /\ MaxSetting \in Nat \ {0}
  /\ Defaults["requireNonRoot"] = FALSE /\ Defaults["enforceHTTPS"] = FALSE
<1>1. Defaults["rateRPM"] = 300 /\ Defaults["rateBurst"] = 80
  BY SMT DEF Defaults
<1>2. /\ Defaults["rateEnabled"] = TRUE /\ Defaults["rateTrustProxy"] = FALSE
      /\ Defaults["httpsTrustProxy"] = TRUE
  BY SMT DEF Defaults
<1>3. Defaults["requireNonRoot"] = FALSE /\ Defaults["enforceHTTPS"] = FALSE
  BY SMT DEF Defaults
<1>4. \A name \in Durations : Defaults[name] \in Nat \ {0}
  BY SMT DEF Defaults, Durations
<1>5. MaxSetting \in Nat \ {0} /\ MaxSetting > 300
  BY SMT DEF MaxSetting
<1>6. \A name \in Counters : Defaults[name] \in 1 .. MaxSetting
  BY <1>1, <1>5, SMT DEF Counters
<1>7. \A name \in Switches : Defaults[name] \in BOOLEAN
  BY <1>2, <1>3 DEF Switches
<1> QED BY <1>3, <1>4, <1>5, <1>6, <1>7

Told(env) == \A name \in DOMAIN Defaults : env[name] \in Raws(name)

\* A setting is its default, or the value of its variable, or the variable is not a
\* value or out of range.
LEMMA SettingLoaded ==
  ASSUME NEW env, Told(env), NEW name \in DOMAIN Defaults
  PROVE  LET setting == loadAppConfigFromEnv(env)[name]
         IN  \/ /\ setting # Invalid
                /\ setting = IF env[name] = Absent THEN Defaults[name] ELSE env[name]
                /\ name \in Counters => setting \in 1 .. MaxSetting
                /\ name \in Durations => setting > 0
                /\ name \in Switches => setting \in BOOLEAN
             \/ /\ setting = Invalid
                /\ \/ env[name] = Malformed
                   \/ /\ name \in Durations \union Counters
                      /\ env[name] # Absent /\ env[name] \notin 1 .. MaxSetting
<1> DEFINE setting == loadAppConfigFromEnv(env)[name]
<1>0. env[name] \in Raws(name)
  BY DEF Told
<1>1. CASE name \in Texts
  <2>1. env[name] \in STRING \union {Absent}
    BY <1>0, <1>1 DEF Raws
  <2>2. setting = IF env[name] = Absent THEN Defaults[name] ELSE env[name]
    BY <1>1, NamesApart DEF loadAppConfigFromEnv
  <2>4. setting # Invalid
    BY <2>1, <2>2, <1>1, RawAssumption
  <2> QED BY <2>2, <2>4, <1>1, NamesApart
<1>2. CASE name \in Switches
  <2>1. env[name] \in BOOLEAN \union {Absent, Malformed}
    BY <1>0, <1>2, NamesApart DEF Raws
  <2>2. setting = parseEnvBoolStrict(env[name], Defaults[name])
    BY <1>2, NamesApart DEF loadAppConfigFromEnv
  <2>3. CASE env[name] = Absent
    <3>1. setting = Defaults[name] /\ setting \in BOOLEAN
      BY <2>2, <2>3, <1>2, DefaultsType DEF parseEnvBoolStrict
    <3> QED BY <3>1, <2>3, <1>2, RawAssumption, NamesApart
  <2>4. CASE env[name] \in BOOLEAN
    <3>1. setting = env[name] /\ env[name] # Absent
      BY <2>2, <2>4, RawAssumption DEF parseEnvBoolStrict
    <3> QED BY <3>1, <2>4, <1>2, RawAssumption, NamesApart
  <2>5. CASE env[name] = Malformed
    <3>1. setting = Invalid
      BY <2>2, <2>5, RawAssumption DEF parseEnvBoolStrict
    <3> QED BY <3>1, <2>5
  <2> QED BY <2>1, <2>3, <2>4, <2>5
<1>3. CASE name \in Durations \union Counters
  <2>1. env[name] \in Int \union {Absent, Malformed}
    BY <1>0, <1>3, NamesApart DEF Raws
  <2> DEFINE max == IF name \in Counters THEN MaxSetting ELSE 0
  <2>2. setting = parseEnvIntStrict(env[name], Defaults[name], 1, max)
    BY <1>3, NamesApart DEF loadAppConfigFromEnv, parseEnvIntSetting, parseEnvDurationStrict
  <2>3. CASE env[name] = Absent
    <3>1. setting = Defaults[name] /\ Defaults[name] \in Nat \ {0}
          /\ (name \in Counters => Defaults[name] \in 1 .. MaxSetting)
      BY <2>2, <2>3, <1>3, DefaultsType DEF parseEnvIntStrict
    <3>2. setting # Invalid
      BY <3>1, RawAssumption
    <3> QED BY <3>1, <3>2, <2>3, <1>3, NamesApart
  <2>4. CASE env[name] = Malformed
    <3>1. setting = Invalid
      BY <2>2, <2>4, RawAssumption DEF parseEnvIntStrict
    <3> QED BY <3>1, <2>4
  <2>5. CASE env[name] \in Int
    <3>1. env[name] # Absent /\ env[name] # Malformed /\ env[name] # Invalid
      BY <2>5, RawAssumption
    <3>2. setting = IF env[name] < 1 \/ (max > 0 /\ env[name] > max) THEN Invalid ELSE env[name]
      BY <2>2, <3>1 DEF parseEnvIntStrict
    <3>3. CASE env[name] < 1 \/ (max > 0 /\ env[name] > max)
      <4>1. env[name] \notin 1 .. MaxSetting
        BY <3>3, <2>5, DefaultsType
      <4> QED BY <4>1, <3>1, <3>2, <3>3, <1>3
    <3>4. CASE ~(env[name] < 1 \/ (max > 0 /\ env[name] > max))
      <4>1. setting = env[name]
        BY <3>2, <3>4
      <4>2. env[name] > 0 /\ (name \in Counters => env[name] \in 1 .. MaxSetting)
        BY <3>4, <2>5, DefaultsType
      <4> QED BY <4>1, <4>2, <3>1, <1>3, NamesApart
    <3> QED BY <3>3, <3>4
  <2> QED BY <2>1, <2>3, <2>4, <2>5
<1> QED BY <1>1, <1>2, <1>3, NamesApart

\* The settings are those of the environment, and it is they that refused, if any did.
ConfigInv ==
  /\ start \in Environments
  /\ phase \in {"starting", "serving", "refused"}
  /\ phase = "serving" =>
       config = loadAppConfigFromEnv(start.env) /\ ~Refused(config, start.root)
  /\ phase = "refused" => Refused(loadAppConfigFromEnv(start.env), start.root)

LEMMA StartToldAll ==
  ASSUME ConfigInv
  PROVE  start.root \in BOOLEAN /\ Told(start.env)
BY PipelineAssumption DEF ConfigInv, Told

LEMMA ConfigToldAs == ConfigInv => ServesAsTold
<1> SUFFICES ASSUME ConfigInv PROVE ServesAsTold
  OBVIOUS
<1> DEFINE loaded == loadAppConfigFromEnv(start.env)
<1>1. Told(start.env) /\ DOMAIN loaded = DOMAIN Defaults
  BY StartToldAll DEF loadAppConfigFromEnv
<1>2. "requireNonRoot" \in Switches /\ "requireNonRoot" \in DOMAIN Defaults
  BY NamesApart DEF Switches
<1>3. ASSUME phase = "serving"
      PROVE  /\ \A name \in DOMAIN config :
                  config[name] = IF start.env[name] = Absent THEN Defaults[name] ELSE start.env[name]
             /\ \A name \in Counters : config[name] \in 1 .. MaxSetting
             /\ \A name \in Durations : config[name] > 0
             /\ ~(config["requireNonRoot"] /\ start.root)
  <2>1. config = loaded /\ ~Refused(config, start.root)
    BY <1>3 DEF ConfigInv
  <2>2. \A name \in DOMAIN Defaults : loaded[name] # Invalid
    BY <2>1, <1>1 DEF Refused
  <2>3. ~(config["requireNonRoot"] /\ start.root)
    BY <2>1 DEF Refused
  <2>4. ASSUME NEW name \in DOMAIN Defaults
        PROVE  /\ loaded[name] = IF start.env[name] = Absent THEN Defaults[name] ELSE start.env[name]
               /\ name \in Counters => loaded[name] \in 1 .. MaxSetting
               /\ name \in Durations => loaded[name] > 0
    BY <2>2, <1>1, SettingLoaded
  <2> HIDE DEF loaded
  <2> QED BY <2>1, <2>3, <2>4, <1>1, NamesApart
<1>4. ASSUME phase = "refused"
      PROVE  \/ start.root /\ start.env["requireNonRoot"] = TRUE
             \/ \E name \in DOMAIN Defaults : start.env[name] = Malformed
             \/ \E name \in Durations \union Counters :
                  start.env[name] # Absent /\ start.env[name] \notin 1 .. MaxSetting
  <2>1. CASE \E name \in DOMAIN Defaults : loaded[name] = Invalid
    <3>1. PICK name \in DOMAIN Defaults : loaded[name] = Invalid
      BY <2>1
    <3> QED BY <3>1, <1>1, SettingLoaded
  <2>2. CASE ~\E name \in DOMAIN Defaults : loaded[name] = Invalid
    <3>1. loaded["requireNonRoot"] /\ start.root
      BY <2>2, <1>1, <1>4 DEF ConfigInv, Refused
    <3>2. loaded["requireNonRoot"] =
            IF start.env["requireNonRoot"] = Absent
            THEN Defaults["requireNonRoot"] ELSE start.env["requireNonRoot"]
          /\ loaded["requireNonRoot"] \in BOOLEAN
      BY <2>2, <1>1, <1>2, SettingLoaded
    <3> HIDE DEF loaded
    <3>3. loaded["requireNonRoot"] = TRUE
      BY <3>1, <3>2
    <3> QED BY <3>1, <3>2, <3>3, DefaultsType
  <2> QED BY <2>1, <2>2
<1> QED BY <1>3, <1>4 DEF ServesAsTold

\* Once it has started, the process keeps its settings.
LEMMA ProcessKept == [Next]_vars => Start \/ UNCHANGED process
<1> USE DEF process
<1>1. ASSUME NEW r \in Connections, Handler(r) PROVE UNCHANGED process
  BY <1>1 DEF Handler, AnswerAtOnce, Panic, LookUp, NothingToLookUp, BeginFetch, EndFetch,
              Load, MakeDir, CreateTemp, CloseAndRemove, ProbeKeeps
<1>2. ASSUME NEW r \in Connections, CountRequest(r) \/ Count429(r) \/ Log(r)
      PROVE  UNCHANGED process
  BY <1>2 DEF CountRequest, Count429, Log
<1>3. ASSUME NEW r \in Connections, NEW path, NEW forwarded, NEW refused,
             Enter(r, path, forwarded, refused)
      PROVE  UNCHANGED process
  BY <1>3 DEF Enter
<1>4. ASSUME NEW d, DirChanges(d) PROVE UNCHANGED process
  BY <1>4 DEF DirChanges
<1> QED BY <1>1, <1>2, <1>3, <1>4 DEF Next, vars

LEMMA ConfigStep == ConfigInv /\ [Next]_vars => ConfigInv'
<1> SUFFICES ASSUME ConfigInv, [Next]_vars PROVE ConfigInv'
  OBVIOUS
<1>1. CASE UNCHANGED process
  BY <1>1 DEF ConfigInv, process
<1>2. CASE Start
  BY <1>2 DEF ConfigInv, Start
<1> QED BY <1>1, <1>2, ProcessKept

LEMMA ConfigInvariant == Spec => []ConfigInv
<1>1. Init => ConfigInv
  BY DEF Init, ConfigInv
<1> QED BY <1>1, ConfigStep, PTL DEF Spec

\* A process that serves has the settings its environment gives it, all in range,
\* and one that refuses to start has been given a reason to.
THEOREM ServedAsTold == Spec => []ServesAsTold
BY ConfigInvariant, ConfigToldAs, PTL

-----------------------------------------------------------------------------
(* How a request moves.                                                    *)

Steps == {"idle"} \union Handling \union Returning

Requests == [path : DOMAIN Asked \union {""}, step : Steps, cache : Caches, left : Int]

FlowType ==
  /\ at \in [Connections -> Requests]
  /\ status \in [Connections -> {0, 200, 308, 429, 503}]

\* The request of r goes on with the step s, and code in its writer, and no other does.
Goes(r, s, code) ==
  /\ at'[r] \in Requests /\ at'[r].step = s /\ at'[r].path = at[r].path
  /\ at' = [at EXCEPT ![r] = at'[r]]
  /\ status' = [status EXCEPT ![r] = code]

LEMMA CachesAre == Caches = {"item", "machine"}
BY PipelineAssumption DEF Caches

LEMMA GoesType ==
  ASSUME FlowType, NEW r \in Connections, NEW s, NEW code \in {0, 200, 308, 429, 503},
         Goes(r, s, code)
  PROVE  FlowType'
BY DEF FlowType, Goes

LEMMA GotoGoes ==
  ASSUME FlowType, NEW r \in Connections, NEW s \in Steps, NEW cache \in Caches, NEW left \in Int,
         NEW code, Goto(r, s, cache, left), status' = [status EXCEPT ![r] = code]
  PROVE  /\ Goes(r, s, code)
         /\ at'[r].cache = cache /\ at'[r].left = left
<1>1. at[r] \in Requests
  BY DEF FlowType
<1> DEFINE next == [path |-> at[r].path, step |-> s, cache |-> cache, left |-> left]
<1>2. next \in Requests
  BY <1>1 DEF Requests
<1>3. at' = [at EXCEPT ![r] = next]
  BY DEF Goto
<1>4. next.step = s /\ next.path = at[r].path /\ next.cache = cache /\ next.left = left
  OBVIOUS
<1> HIDE DEF next
<1>5. at'[r] = next
  BY <1>3 DEF FlowType
<1> QED BY <1>2, <1>3, <1>4, <1>5 DEF Goes

LEMMA GotoStepGoes ==
  ASSUME FlowType, NEW r \in Connections, NEW s \in Steps, GotoStep(r, s),
         NEW code, status' = [status EXCEPT ![r] = code]
  PROVE  /\ Goes(r, s, code)
         /\ at'[r].cache = at[r].cache /\ at'[r].left = at[r].left
<1>1. at[r].cache \in Caches /\ at[r].left \in Int
  BY DEF FlowType, Requests
<1> QED BY <1>1, GotoGoes DEF GotoStep

LEMMA ReplyGoes ==
  ASSUME FlowType, NEW r \in Connections, NEW code, Reply(r, code)
  PROVE  Goes(r, "count", code)
<1>1. "count" \in Steps
  BY DEF Steps, Returning
<1> QED BY <1>1, GotoStepGoes DEF Reply

LEMMA StatusStays ==
  ASSUME FlowType, NEW r \in Connections, UNCHANGED status
  PROVE  status' = [status EXCEPT ![r] = status[r]]
BY DEF FlowType

LEMMA ContinueGoes ==
  ASSUME FlowType, NEW r \in Connections, NEW s \in Steps, Continue(r, s)
  PROVE  Goes(r, s, status[r])
BY GotoStepGoes, StatusStays DEF Continue

\* Where each step of a handler comes from, and where it leads.

LEMMA AnswerGoes ==
  ASSUME FlowType, NEW r \in Connections, AnswerAtOnce(r)
  PROVE  at[r].step = "handle" /\ at[r].path # "/readyz" /\ Goes(r, "count", 200)
BY ReplyGoes DEF AnswerAtOnce

LEMMA ResolvedGoes ==
  ASSUME FlowType, NEW r \in Connections, NEW cache \in Caches, Resolved(r, cache)
  PROVE  IF cache = "item" THEN Goes(r, "lookup", status[r]) /\ at'[r].cache = "machine"
                           ELSE Goes(r, "count", 200)
<1>1. "lookup" \in Steps /\ "machine" \in Caches
  BY CachesAre DEF Steps, Handling
<1>2. at[r].left \in Int
  BY DEF FlowType, Requests
<1>3. CASE cache = "item"
  <2>1. Goto(r, "lookup", "machine", at[r].left) /\ UNCHANGED status
    BY <1>3 DEF Resolved
  <2> QED BY <2>1, <1>1, <1>2, <1>3, GotoGoes, StatusStays
<1>4. CASE cache # "item"
  BY <1>4, ReplyGoes DEF Resolved
<1> QED BY <1>3, <1>4

LEMMA LookUpGoes ==
  ASSUME FlowType, NEW r \in Connections, NEW cache \in Caches, NEW entry, LookUp(r, cache, entry)
  PROVE  /\ \/ at[r].step = "handle" /\ at[r].path \in DOMAIN CacheOf
            \/ at[r].step = "lookup" /\ cache = at[r].cache
         /\ \/ entry = "current" /\ cache = "item" /\ Goes(r, "lookup", status[r]) /\ at'[r].cache = "machine"
            \/ entry = "current" /\ cache = "machine" /\ Goes(r, "count", 200)
            \/ /\ entry # "current" /\ Goes(r, "fetch", status[r])
               /\ at'[r].cache = cache /\ at'[r].left = Pages[cache]
<1>1. "fetch" \in Steps /\ Pages[cache] \in Int
  BY CachesAre, PipelineAssumption DEF Steps, Handling
<1>2. CASE entry = "current"
  BY <1>2, ResolvedGoes, CachesAre DEF LookUp
<1>3. CASE entry # "current"
  <2>1. Goto(r, "fetch", cache, Pages[cache]) /\ UNCHANGED status
    BY <1>3 DEF LookUp
  <2>2. Goes(r, "fetch", status[r]) /\ at'[r].cache = cache /\ at'[r].left = Pages[cache]
    BY <2>1, <1>1, GotoGoes, StatusStays
  <2> QED BY <2>2, <1>3 DEF LookUp
<1> QED BY <1>2, <1>3

LEMMA NothingGoes ==
  ASSUME FlowType, NEW r \in Connections, NothingToLookUp(r)
  PROVE  at[r].step = "lookup" /\ Goes(r, "count", 200)
BY ReplyGoes DEF NothingToLookUp

LEMMA BeginFetchGoes ==
  ASSUME FlowType, NEW r \in Connections, BeginFetch(r)
  PROVE  /\ at[r].step = "fetch" /\ Goes(r, "fetching", status[r])
         /\ at'[r].cache = at[r].cache /\ at'[r].left = at[r].left - 1
<1> DEFINE left == at[r].left - 1
<1>1. "fetching" \in Steps
  BY DEF Steps, Handling
<1>2. at[r] \in Requests
  BY DEF FlowType
<1>6. at[r].left \in Int /\ at[r].cache \in Caches
  BY <1>2 DEF Requests
<1>3. left \in Int
  BY <1>6
<1>4. at[r].step = "fetch" /\ Goto(r, "fetching", at[r].cache, left) /\ status' = status
  BY DEF BeginFetch
<1> HIDE DEF left
<1>5. Goes(r, "fetching", status[r]) /\ at'[r].cache = at[r].cache /\ at'[r].left = left
  <2> DEFINE cache == at[r].cache
  <2>1. cache \in Caches /\ Goto(r, "fetching", cache, left)
    BY <1>4, <1>6
  <2>2. status' = [status EXCEPT ![r] = status[r]]
    BY <1>4, StatusStays
  <2> HIDE DEF cache
  <2>3. Goes(r, "fetching", status[r]) /\ at'[r].cache = cache /\ at'[r].left = left
    BY <1>1, <1>3, <2>1, <2>2, GotoGoes
  <2> QED BY <2>3 DEF cache
<1> QED BY <1>4, <1>5 DEF left

LEMMA EndFetchGoes ==
  ASSUME FlowType, NEW r \in Connections, NEW outcome, EndFetch(r, outcome)
  PROVE  /\ at[r].step = "fetching"
         /\ \/ at[r].cache = "item" /\ Goes(r, "lookup", status[r]) /\ at'[r].cache = "machine"
            \/ Goes(r, "count", 200)
            \/ /\ at[r].left > 0 /\ Goes(r, "fetch", status[r])
               /\ at'[r].cache = at[r].cache /\ at'[r].left = at[r].left
<1>1. "fetch" \in Steps /\ at[r].cache \in Caches
  BY DEF Steps, Handling, FlowType, Requests
<1>2. CASE Resolved(r, at[r].cache)
  BY <1>1, <1>2, ResolvedGoes, CachesAre DEF EndFetch
<1>3. CASE Reply(r, 200)
  BY <1>3, ReplyGoes DEF EndFetch
<1>4. CASE at[r].left > 0 /\ GotoStep(r, "fetch") /\ UNCHANGED status
  BY <1>1, <1>4, GotoStepGoes, StatusStays DEF EndFetch
<1> QED BY <1>2, <1>3, <1>4 DEF EndFetch

LEMMA LoadGoes ==
  ASSUME FlowType, NEW r \in Connections, Load(r)
  PROVE  /\ at[r].step = "handle" /\ at[r].path = "/metrics"
         /\ IF Len(report'[r]) = Len(Loads) THEN Goes(r, "count", 200) ELSE UNCHANGED <<at, status>>
BY ReplyGoes DEF Load, Handles, ReportNext

LEMMA MakeDirGoes ==
  ASSUME FlowType, NEW r \in Connections, MakeDir(r)
  PROVE  /\ at[r].step = "handle" /\ at[r].path = "/readyz"
         /\ Goes(r, "create", status[r]) \/ Goes(r, "count", 503)
<1>1. "create" \in Steps
  BY DEF Steps, Handling
<1> QED BY <1>1, ContinueGoes, ReplyGoes DEF MakeDir, Handles, Unready

LEMMA CreateTempGoes ==
  ASSUME FlowType, NEW r \in Connections, CreateTemp(r)
  PROVE  /\ at[r].step = "create"
         /\ \/ Goes(r, "remove", status[r]) /\ dir[ProbeDir] = "writable"
            \/ Goes(r, "count", 503)
<1>1. "remove" \in Steps
  BY DEF Steps, Handling
<1> QED BY <1>1, ContinueGoes, ReplyGoes DEF CreateTemp, Unready

LEMMA CloseAndRemoveGoes ==
  ASSUME FlowType, NEW r \in Connections, CloseAndRemove(r)
  PROVE  at[r].step = "remove" /\ (Goes(r, "count", 200) \/ Goes(r, "count", 503))
BY ReplyGoes DEF CloseAndRemove, Unready

LEMMA CountRequestGoes ==
  ASSUME FlowType, NEW r \in Connections, CountRequest(r)
  PROVE  at[r].step = "count" /\ Goes(r, IF status[r] = 429 THEN "count429" ELSE "log", status[r])
<1>1. "count429" \in Steps /\ "log" \in Steps
  BY DEF Steps, Returning
<1> QED BY <1>1, GotoStepGoes, StatusStays DEF CountRequest

LEMMA Count429Goes ==
  ASSUME FlowType, NEW r \in Connections, Count429(r)
  PROVE  at[r].step = "count429" /\ Goes(r, "log", status[r])
<1>1. "log" \in Steps
  BY DEF Steps, Returning
<1> QED BY <1>1, GotoStepGoes, StatusStays DEF Count429

LEMMA FreeGoes ==
  ASSUME FlowType, NEW r \in Connections, Free(r)
  PROVE  FlowType' /\ at'[r] = Idle /\ at'[r].step = "idle" /\ status'[r] = 0
<1>1. Idle \in Requests /\ Idle.step = "idle"
  BY CachesAre DEF Idle, Requests, Steps
<1> QED BY <1>1 DEF Free, FlowType

LEMMA ChainIs ==
  /\ DOMAIN Chain = 1 .. 6
  /\ Chain[1] = "logging" /\ Chain[2] = "metrics" /\ Chain[3] = "redirect"
  /\ Chain[4] = "headers" /\ Chain[5] = "limit" /\ Chain[6] = "mux"
BY DEF Chain

\* The layers that have seen a request, and what they made of it.
SeenBy(r, path, layers) ==
  /\ passed' = [passed EXCEPT ![r] = layers]
  /\ \/ /\ at'[r].step = "count" /\ status' = [status EXCEPT ![r] = 308]
        /\ layers = {"logging", "metrics", "redirect"} /\ config["enforceHTTPS"]
     \/ /\ at'[r].step = "count" /\ status' = [status EXCEPT ![r] = 429]
        /\ layers = {"logging", "metrics", "redirect", "headers", "limit"}
        /\ path \notin Unlimited
     \/ /\ at'[r].step = "handle" /\ status' = [status EXCEPT ![r] = 0]
        /\ layers = {"logging", "metrics", "redirect", "headers", "limit", "mux"}

\* A request is sent to HTTPS by the third layer, refused by the fifth, or reaches the mux.
LEMMA EnterGoes ==
  ASSUME FlowType, NEW r \in Connections, NEW path \in DOMAIN Asked,
         NEW forwarded \in BOOLEAN, NEW refused \in BOOLEAN, Enter(r, path, forwarded, refused)
  PROVE  /\ phase = "serving" /\ at[r].step = "idle"
         /\ at' = [at EXCEPT ![r] = at'[r]] /\ at'[r] \in Requests /\ at'[r].path = path
         /\ at'[r].cache = "item" /\ at'[r].left = 0
         /\ \E layers : SeenBy(r, path, layers)
<1>1. PICK last \in 1 .. 6 :
        /\ Answers(Chain[last], forwarded, refused)
        /\ passed' = [passed EXCEPT ![r] = {Chain[i] : i \in 1 .. last}]
        /\ status' = [status EXCEPT ![r] = IF Chain[last] = "redirect" THEN 308
                                           ELSE IF Chain[last] = "limit" THEN 429 ELSE 0]
        /\ at' = [at EXCEPT ![r] =
                    [path |-> path, step |-> IF Chain[last] = "mux" THEN "handle" ELSE "count",
                     cache |-> Idle.cache, left |-> Idle.left]]
  BY ChainIs DEF Enter
<1> USE DEF SeenBy
<1> DEFINE next == [path |-> path, step |-> IF Chain[last] = "mux" THEN "handle" ELSE "count",
                    cache |-> Idle.cache, left |-> Idle.left]
<1>2. "handle" \in Steps /\ "count" \in Steps /\ Idle.cache = "item" /\ Idle.left = 0
  BY DEF Steps, Handling, Returning, Idle
<1>3. next \in Requests
  <2> DEFINE step == IF Chain[last] = "mux" THEN "handle" ELSE "count"
  <2> DEFINE cache == Idle.cache
  <2> DEFINE left == Idle.left
  <2>1. step \in Steps /\ cache \in Caches /\ left \in Int
    BY <1>2, CachesAre
  <2> HIDE DEF step, cache, left
  <2>2. [path |-> path, step |-> step, cache |-> cache, left |-> left] \in Requests
    BY <2>1 DEF Requests
  <2> QED BY <2>2 DEF step, cache, left
<1>4. /\ next.path = path /\ next.cache = "item" /\ next.left = 0
      /\ next.step = IF Chain[last] = "mux" THEN "handle" ELSE "count"
  BY <1>2
<1>5. at' = [at EXCEPT ![r] = next]
  BY <1>1
<1> HIDE DEF next
<1>6. at'[r] = next
  BY <1>5 DEF FlowType
<1>7. phase = "serving" /\ at[r].step = "idle" /\ (refused => path \notin Unlimited)
  BY DEF Enter, Limits
<1>8. \/ Chain[last] = "redirect" /\ last = 3 /\ config["enforceHTTPS"]
      \/ Chain[last] = "limit" /\ last = 5 /\ refused
      \/ Chain[last] = "mux" /\ last = 6
  <2>1. \/ Chain[last] = "redirect" /\ config["enforceHTTPS"]
        \/ Chain[last] = "limit" /\ refused
        \/ Chain[last] = "mux"
    BY <1>1 DEF Answers
  <2>2. last \in {1, 2, 3, 4, 5, 6}
    OBVIOUS
  <2> QED BY <2>1, <2>2, ChainIs
<1>9. CASE last = 3
  <2>1. 1 .. 3 = {1, 2, 3}
    OBVIOUS
  <2>2. {Chain[i] : i \in 1 .. 3} = {"logging", "metrics", "redirect"}
    BY <2>1, ChainIs
  <2> QED BY <2>2, <1>1, <1>3, <1>4, <1>5, <1>6, <1>7, <1>8, <1>9, ChainIs
<1>10. CASE last = 5
  <2>1. 1 .. 5 = {1, 2, 3, 4, 5}
    OBVIOUS
  <2>2. {Chain[i] : i \in 1 .. 5} = {"logging", "metrics", "redirect", "headers", "limit"}
    BY <2>1, ChainIs
  <2> QED BY <2>2, <1>1, <1>3, <1>4, <1>5, <1>6, <1>7, <1>8, <1>10, ChainIs
<1>11. CASE last = 6
  <2>1. 1 .. 6 = {1, 2, 3, 4, 5, 6}
    OBVIOUS
  <2>2. {Chain[i] : i \in 1 .. 6} = {"logging", "metrics", "redirect", "headers", "limit", "mux"}
    BY <2>1, ChainIs
  <2> QED BY <2>2, <1>1, <1>3, <1>4, <1>5, <1>6, <1>7, <1>8, <1>11, ChainIs
<1> QED BY <1>8, <1>9, <1>10, <1>11

-----------------------------------------------------------------------------
(* Types, and the state of a request at each step.                         *)

\* A writer has a status when the handler has returned, and each step is one of a
\* request that can be there.
FlowOf(r) ==
  /\ status[r] # 0 <=> at[r].step \in Returning
  /\ at[r].step = "count429" => status[r] = 429
  /\ at[r].step # "idle" => phase = "serving"
  /\ at[r].step \in {"create", "remove"} => at[r].path = "/readyz"
  /\ at[r].step \in {"lookup", "fetch", "fetching"} => at[r].path \in DOMAIN CacheOf
  /\ at[r].step = "lookup" => at[r].cache = "machine"

FlowInv == FlowType /\ \A r \in Connections : FlowOf(r)

LEMMA OthersStay ==
  ASSUME FlowType, NEW r \in Connections, NEW s, NEW code, Goes(r, s, code)
  PROVE  /\ status'[r] = code
         /\ \A q \in Connections \ {r} : at'[q] = at[q] /\ status'[q] = status[q]
BY DEF FlowType, Goes

LEMMA GoesKeepsFlow ==
  ASSUME FlowInv, NEW r \in Connections, NEW s, NEW code \in {0, 200, 308, 429, 503},
         Goes(r, s, code), phase' = phase, FlowOf(r)'
  PROVE  FlowInv'
<1>1. FlowType'
  BY GoesType DEF FlowInv
<1>2. ASSUME NEW q \in Connections \ {r} PROVE FlowOf(q)'
  <2>1. at'[q] = at[q] /\ status'[q] = status[q]
    BY OthersStay DEF FlowInv
  <2> QED BY <2>1 DEF FlowInv, FlowOf
<1> QED BY <1>1, <1>2 DEF FlowInv

LEMMA FlowInit == Init => FlowInv
<1> SUFFICES ASSUME Init PROVE FlowInv
  OBVIOUS
<1>1. Idle \in Requests /\ Idle.step = "idle"
  BY CachesAre DEF Idle, Requests, Steps
<1>2. FlowType
  BY <1>1 DEF Init, FlowType
<1>3. \A r \in Connections : at[r].step = "idle" /\ status[r] = 0
  BY <1>1 DEF Init
<1> QED BY <1>2, <1>3 DEF FlowInv, FlowOf, Returning

\* The shape of a step of r that is neither its first nor its last.
LEMMA GoesOn ==
  ASSUME FlowInv, NEW r \in Connections, NEW s \in Handling, Goes(r, s, status[r]),
         at[r].step \in Handling, phase' = phase,
         s \in {"create", "remove"} => at[r].path = "/readyz",
         s \in {"lookup", "fetch", "fetching"} => at[r].path \in DOMAIN CacheOf,
         s = "lookup" => at'[r].cache = "machine"
  PROVE  FlowInv'
<1>1. FlowOf(r) /\ FlowType
  BY DEF FlowInv
<1>2. at'[r].step = s /\ at'[r].path = at[r].path /\ status'[r] = status[r]
  BY <1>1, OthersStay DEF Goes
<1>3. status[r] = 0 /\ phase = "serving"
  BY <1>1 DEF FlowOf, Handling, Returning
<1>4. FlowOf(r)'
  BY <1>2, <1>3 DEF FlowOf, Handling, Returning
<1> QED BY <1>3, <1>4, GoesKeepsFlow

LEMMA Answered ==
  ASSUME FlowInv, NEW r \in Connections, NEW code \in {200, 503}, Goes(r, "count", code),
         at[r].step \in Handling, phase' = phase
  PROVE  FlowInv'
<1>1. FlowOf(r) /\ FlowType
  BY DEF FlowInv
<1>2. at'[r].step = "count" /\ at'[r].path = at[r].path /\ status'[r] = code
  BY <1>1 DEF Goes, FlowType
<1>3. phase = "serving"
  BY <1>1 DEF FlowOf, Handling
<1>4. FlowOf(r)'
  BY <1>2, <1>3 DEF FlowOf, Returning
<1> QED BY <1>4, GoesKeepsFlow

LEMMA FreeKeepsFlow ==
  ASSUME FlowInv, NEW r \in Connections, Free(r), phase' = phase
  PROVE  FlowInv'
<1>1. FlowType' /\ at'[r].step = "idle" /\ status'[r] = 0
  BY FreeGoes DEF FlowInv
<1>2. \A q \in Connections \ {r} : at'[q] = at[q] /\ status'[q] = status[q]
  BY DEF FlowInv, FlowType, Free
<1>3. FlowOf(r)'
  BY <1>1 DEF FlowOf, Returning
<1>4. \A q \in Connections \ {r} : FlowOf(q)'
  BY <1>2 DEF FlowInv, FlowOf
<1> QED BY <1>1, <1>3, <1>4 DEF FlowInv

LEMMA FlowStep == FlowInv /\ [Next]_vars => FlowInv'
<1> SUFFICES ASSUME FlowInv, [Next]_vars PROVE FlowInv'
  OBVIOUS
<1>0. FlowType /\ \A r \in Connections : FlowOf(r)
  BY DEF FlowInv
<1>1. CASE UNCHANGED <<at, status, phase>>
  BY <1>0, <1>1 DEF FlowInv, FlowType, FlowOf
<1>2. CASE Start
  <2>1. \A r \in Connections : at[r].step = "idle"
    BY <1>0, <1>2 DEF FlowOf, Start
  <2> QED BY <1>0, <1>2, <2>1 DEF FlowInv, FlowType, FlowOf, Start
<1>3. ASSUME NEW d, DirChanges(d) PROVE FlowInv'
  BY <1>1, <1>3 DEF DirChanges, process
<1>4. ASSUME NEW r \in Connections, NEW path \in DOMAIN Asked, NEW forwarded \in BOOLEAN,
             NEW refused \in BOOLEAN, Enter(r, path, forwarded, refused)
      PROVE  FlowInv'
  <2>1. /\ phase = "serving" /\ at' = [at EXCEPT ![r] = at'[r]] /\ at'[r] \in Requests
        /\ \E code \in {308, 429, 0} :
             /\ status' = [status EXCEPT ![r] = code]
             /\ at'[r].step = IF code = 0 THEN "handle" ELSE "count"
    BY <1>0, <1>4, EnterGoes DEF SeenBy
  <2>2. phase' = phase
    BY <1>4 DEF Enter, process
  <2>3. FlowType'
    BY <1>0, <2>1 DEF FlowType
  <2>4. FlowOf(r)'
    BY <1>0, <2>1, <2>2 DEF FlowType, FlowOf, Returning
  <2>5. \A q \in Connections \ {r} : at'[q] = at[q] /\ status'[q] = status[q]
    BY <1>0, <2>1 DEF FlowType
  <2>6. \A q \in Connections \ {r} : FlowOf(q)'
    BY <1>0, <2>2, <2>5 DEF FlowOf
  <2> QED BY <2>3, <2>4, <2>6 DEF FlowInv
<1>5. ASSUME NEW r \in Connections, Panic(r) \/ Log(r) PROVE FlowInv'
  BY <1>5, FreeKeepsFlow DEF Panic, Log, process
<1>6. ASSUME NEW r \in Connections, AnswerAtOnce(r) \/ NothingToLookUp(r) \/ CloseAndRemove(r)
      PROVE  FlowInv'
  <2>1. phase' = phase
    BY <1>6 DEF AnswerAtOnce, NothingToLookUp, CloseAndRemove, ProbeKeeps, process
  <2>2. at[r].step \in Handling /\ \E code \in {200, 503} : Goes(r, "count", code)
    BY <1>0, <1>6, AnswerGoes, NothingGoes, CloseAndRemoveGoes DEF Handling
  <2> QED BY <2>1, <2>2, Answered
<1>7. ASSUME NEW r \in Connections, NEW cache \in Caches, NEW entry, LookUp(r, cache, entry)
      PROVE  FlowInv'
  <2>1. phase' = phase
    BY <1>7 DEF LookUp, process
  <2>2. at[r].step \in Handling /\ at[r].path \in DOMAIN CacheOf
    BY <1>0, <1>7, LookUpGoes DEF Handling, FlowOf
  <2>3. CASE Goes(r, "count", 200)
    BY <2>1, <2>2, <2>3, Answered
  <2>4. CASE Goes(r, "lookup", status[r]) /\ at'[r].cache = "machine"
    BY <2>1, <2>2, <2>4, GoesOn DEF Handling
  <2>5. CASE Goes(r, "fetch", status[r])
    BY <2>1, <2>2, <2>5, GoesOn DEF Handling
  <2> QED BY <1>0, <1>7, <2>3, <2>4, <2>5, LookUpGoes
<1>8. ASSUME NEW r \in Connections, BeginFetch(r) PROVE FlowInv'
  <2>1. phase' = phase
    BY <1>8 DEF BeginFetch, process
  <2>2. at[r].step = "fetch" /\ at[r].path \in DOMAIN CacheOf /\ Goes(r, "fetching", status[r])
    BY <1>0, <1>8, BeginFetchGoes DEF FlowOf
  <2> QED BY <2>1, <2>2, GoesOn DEF Handling
<1>9. ASSUME NEW r \in Connections, NEW outcome, EndFetch(r, outcome) PROVE FlowInv'
  <2>1. phase' = phase
    BY <1>9 DEF EndFetch, process
  <2>2. at[r].step \in Handling /\ at[r].path \in DOMAIN CacheOf
    BY <1>0, <1>9, EndFetchGoes DEF Handling, FlowOf
  <2>3. CASE Goes(r, "count", 200)
    BY <2>1, <2>2, <2>3, Answered
  <2>4. CASE Goes(r, "lookup", status[r]) /\ at'[r].cache = "machine"
    BY <2>1, <2>2, <2>4, GoesOn DEF Handling
  <2>5. CASE Goes(r, "fetch", status[r])
    BY <2>1, <2>2, <2>5, GoesOn DEF Handling
  <2> QED BY <1>0, <1>9, <2>3, <2>4, <2>5, EndFetchGoes
<1>10. ASSUME NEW r \in Connections, Load(r) PROVE FlowInv'
  <2>1. phase' = phase
    BY <1>10 DEF Load, process
  <2>2. at[r].step \in Handling /\ (Goes(r, "count", 200) \/ UNCHANGED <<at, status>>)
    BY <1>0, <1>10, LoadGoes DEF Handling
  <2> QED BY <1>1, <2>1, <2>2, Answered
<1>11. ASSUME NEW r \in Connections, MakeDir(r) \/ CreateTemp(r) PROVE FlowInv'
  <2>1. phase' = phase
    BY <1>11 DEF MakeDir, CreateTemp, ProbeKeeps, process
  <2>2. at[r].step \in Handling /\ at[r].path = "/readyz"
    BY <1>0, <1>11, MakeDirGoes, CreateTempGoes DEF Handling, FlowOf
  <2>3. CASE Goes(r, "count", 503)
    BY <2>1, <2>2, <2>3, Answered
  <2>4. CASE \E s \in {"create", "remove"} : Goes(r, s, status[r])
    BY <2>1, <2>2, <2>4, GoesOn DEF Handling
  <2> QED BY <1>0, <1>11, <2>3, <2>4, MakeDirGoes, CreateTempGoes
<1>12. ASSUME NEW r \in Connections, CountRequest(r) \/ Count429(r) PROVE FlowInv'
  <2>1. phase' = phase
    BY <1>12 DEF CountRequest, Count429, process
  <2>2. /\ at[r].step \in {"count", "count429"} /\ status[r] \in {0, 200, 308, 429, 503}
        /\ \E s \in {"count429", "log"} : Goes(r, s, status[r]) /\ (s = "count429" => status[r] = 429)
    BY <1>0, <1>12, CountRequestGoes, Count429Goes DEF FlowType
  <2>3. PICK s \in {"count429", "log"} : Goes(r, s, status[r]) /\ (s = "count429" => status[r] = 429)
    BY <2>2
  <2>4. at'[r].step = s /\ at'[r].path = at[r].path /\ status'[r] = status[r]
    BY <1>0, <2>3, OthersStay DEF Goes
  <2>5. FlowOf(r)'
    BY <1>0, <2>1, <2>2, <2>3, <2>4 DEF FlowOf, Returning
  <2> QED BY <2>1, <2>2, <2>3, <2>5, GoesKeepsFlow
<1>13. CASE UNCHANGED vars
  BY <1>1, <1>13 DEF vars, process
<1> QED BY <1>2, <1>3, <1>4, <1>5, <1>6, <1>7, <1>8, <1>9, <1>10, <1>11, <1>12, <1>13
        DEF Next, Handler

LEMMA FlowInvariant == Spec => []FlowInv
BY FlowInit, FlowStep, PTL DEF Spec

-----------------------------------------------------------------------------
(* The layers.                                                             *)

\* What a step of a request in progress does to what the layers look at.
Proceeds(r) ==
  /\ UNCHANGED passed
  /\ at[r].step # "idle"
  /\ \E s \in Handling \union Returning, code \in {status[r], 200, 503} :
       Goes(r, s, code) /\ (code # status[r] => status[r] = 0)

LEMMA StepShape ==
  ASSUME FlowInv, [Next]_vars
  PROVE  \/ UNCHANGED <<at, status, passed>>
         \/ \E r \in Connections : Free(r)
         \/ \E r \in Connections : Proceeds(r)
         \/ \E r \in Connections, path \in DOMAIN Asked, forwarded, refused \in BOOLEAN :
              Enter(r, path, forwarded, refused)
<1>0. FlowType /\ \A r \in Connections : FlowOf(r)
  BY DEF FlowInv
<1>1. ASSUME NEW r \in Connections, NEW s \in Handling \union Returning,
             NEW code \in {status[r], 200, 503}, Goes(r, s, code),
             at[r].step \in Handling \/ code = status[r], at[r].step # "idle", passed' = passed
      PROVE  Proceeds(r)
  BY <1>0, <1>1 DEF Proceeds, FlowOf, Handling, Returning
<1>2. ASSUME NEW r \in Connections, AnswerAtOnce(r) \/ NothingToLookUp(r) \/ CloseAndRemove(r)
      PROVE  Proceeds(r)
  <2>1. passed' = passed
    BY <1>2 DEF AnswerAtOnce, NothingToLookUp, CloseAndRemove, ProbeKeeps
  <2>2. at[r].step \in Handling /\ \E code \in {200, 503} : Goes(r, "count", code)
    BY <1>0, <1>2, AnswerGoes, NothingGoes, CloseAndRemoveGoes DEF Handling
  <2> QED BY <2>1, <2>2, <1>1 DEF Handling, Returning
<1>3. ASSUME NEW r \in Connections, NEW cache \in Caches, NEW entry, LookUp(r, cache, entry)
      PROVE  Proceeds(r)
  <2>1. passed' = passed
    BY <1>3 DEF LookUp
  <2>2. at[r].step \in Handling
    BY <1>0, <1>3, LookUpGoes DEF Handling
  <2>3. Goes(r, "count", 200) \/ \E s \in {"lookup", "fetch"} : Goes(r, s, status[r])
    BY <1>0, <1>3, LookUpGoes
  <2> QED BY <2>1, <2>2, <2>3, <1>1 DEF Handling, Returning
<1>4. ASSUME NEW r \in Connections, BeginFetch(r) PROVE Proceeds(r)
  <2>1. passed' = passed
    BY <1>4 DEF BeginFetch
  <2>2. at[r].step \in Handling /\ Goes(r, "fetching", status[r])
    BY <1>0, <1>4, BeginFetchGoes DEF Handling
  <2> QED BY <2>1, <2>2, <1>1 DEF Handling, Returning
<1>5. ASSUME NEW r \in Connections, NEW outcome, EndFetch(r, outcome) PROVE Proceeds(r)
  <2>1. passed' = passed
    BY <1>5 DEF EndFetch
  <2>2. at[r].step \in Handling
    BY <1>0, <1>5, EndFetchGoes DEF Handling
  <2>3. Goes(r, "count", 200) \/ \E s \in {"lookup", "fetch"} : Goes(r, s, status[r])
    BY <1>0, <1>5, EndFetchGoes
  <2> QED BY <2>1, <2>2, <2>3, <1>1 DEF Handling, Returning
<1>6. ASSUME NEW r \in Connections, Load(r)
      PROVE  Proceeds(r) \/ UNCHANGED <<at, status, passed>>
  <2>1. passed' = passed
    BY <1>6 DEF Load
  <2>2. at[r].step \in Handling /\ (Goes(r, "count", 200) \/ UNCHANGED <<at, status>>)
    BY <1>0, <1>6, LoadGoes DEF Handling
  <2> QED BY <2>1, <2>2, <1>1 DEF Handling, Returning
<1>7. ASSUME NEW r \in Connections, MakeDir(r) \/ CreateTemp(r) PROVE Proceeds(r)
  <2>1. passed' = passed
    BY <1>7 DEF MakeDir, CreateTemp, ProbeKeeps
  <2>2. at[r].step \in Handling
    BY <1>0, <1>7, MakeDirGoes, CreateTempGoes DEF Handling
  <2>3. Goes(r, "count", 503) \/ \E s \in {"create", "remove"} : Goes(r, s, status[r])
    BY <1>0, <1>7, MakeDirGoes, CreateTempGoes
  <2> QED BY <2>1, <2>2, <2>3, <1>1 DEF Handling, Returning
<1>8. ASSUME NEW r \in Connections, CountRequest(r) \/ Count429(r) PROVE Proceeds(r)
  <2>1. passed' = passed
    BY <1>8 DEF CountRequest, Count429
  <2>2. at[r].step # "idle" /\ \E s \in {"count429", "log"} : Goes(r, s, status[r])
    BY <1>0, <1>8, CountRequestGoes, Count429Goes
  <2> QED BY <2>1, <2>2, <1>1 DEF Handling, Returning
<1>9. ASSUME NEW r \in Connections, Panic(r) \/ Log(r) PROVE Free(r)
  BY <1>9 DEF Panic, Log
<1>10. CASE Start \/ (\E d \in DOMAIN dir : DirChanges(d)) \/ UNCHANGED vars
  BY <1>10 DEF Start, DirChanges, vars
<1> QED BY <1>2, <1>3, <1>4, <1>5, <1>6, <1>7, <1>8, <1>9, <1>10 DEF Next, Handler

Layers == {"logging", "metrics", "redirect", "headers", "limit", "mux"}

\* LayersInOrder is not inductive: it says nothing of a request until it is answered.
LayersOf(r) ==
  at[r].step # "idle" =>
    /\ status[r] = 308 => passed[r] = {"logging", "metrics", "redirect"} /\ config["enforceHTTPS"]
    /\ status[r] = 429 => /\ passed[r] = {"logging", "metrics", "redirect", "headers", "limit"}
                          /\ at[r].path \notin Unlimited
    /\ status[r] \in {0, 200, 503} => "headers" \in passed[r]

LayersInv == passed \in [Connections -> SUBSET Layers] /\ \A r \in Connections : LayersOf(r)

LEMMA LayersStep ==
  ASSUME FlowInv, LayersInv, [Next]_vars
  PROVE  LayersInv'
<1>0. FlowType /\ \A r \in Connections : FlowOf(r) /\ LayersOf(r)
  BY DEF FlowInv, LayersInv
<1>1. CASE Start
  <2>1. \A r \in Connections : at[r].step = "idle"
    BY <1>0, <1>1 DEF FlowOf, Start
  <2>2. at' = at /\ passed' = passed
    BY <1>1 DEF Start
  <2>3. \A r \in Connections : LayersOf(r)'
    BY <2>1, <2>2 DEF LayersOf
  <2> QED BY <2>2, <2>3 DEF LayersInv
<1>2. CASE UNCHANGED process
  <2>0. config' = config
    BY <1>2 DEF process
  <2>1. CASE UNCHANGED <<at, status, passed>>
    BY <2>0, <2>1 DEF LayersInv, LayersOf
  <2>2. ASSUME NEW r \in Connections, Free(r) PROVE LayersInv'
    <3>1. passed' \in [Connections -> SUBSET Layers]
      BY <2>2 DEF Free, LayersInv
    <3>2. at'[r].step = "idle"
      BY <1>0, <2>2, FreeGoes
    <3>3. \A q \in Connections \ {r} :
            at'[q] = at[q] /\ status'[q] = status[q] /\ passed'[q] = passed[q]
      BY <1>0, <2>2 DEF Free, FlowType, LayersInv
    <3>4. \A q \in Connections \ {r} : LayersOf(q)'
      BY <1>0, <2>0, <3>3 DEF LayersOf
    <3> QED BY <3>1, <3>2, <3>4 DEF LayersInv, LayersOf
  <2>3. ASSUME NEW r \in Connections, Proceeds(r) PROVE LayersInv'
    <3>1. PICK s \in Handling \union Returning, code \in {status[r], 200, 503} :
            Goes(r, s, code) /\ (code # status[r] => status[r] = 0)
      BY <2>3 DEF Proceeds
    <3>2. at[r].step # "idle" /\ passed' = passed
      BY <2>3 DEF Proceeds
    <3>3. at'[r].path = at[r].path /\ status'[r] = code
      BY <1>0, <3>1 DEF Goes, FlowType
    <3>4. LayersOf(r)'
      BY <1>0, <2>0, <3>1, <3>2, <3>3 DEF LayersOf
    <3>5. \A q \in Connections \ {r} : at'[q] = at[q] /\ status'[q] = status[q]
      BY <1>0, <3>1, OthersStay
    <3>6. \A q \in Connections \ {r} : LayersOf(q)'
      BY <1>0, <2>0, <3>2, <3>5 DEF LayersOf
    <3> QED BY <3>2, <3>4, <3>6 DEF LayersInv
  <2>4. ASSUME NEW r \in Connections, NEW path \in DOMAIN Asked, NEW forwarded \in BOOLEAN,
               NEW refused \in BOOLEAN, Enter(r, path, forwarded, refused)
        PROVE  LayersInv'
    <3>1. PICK layers : SeenBy(r, path, layers)
      BY <1>0, <2>4, EnterGoes
    <3>2. at'[r].path = path /\ at' = [at EXCEPT ![r] = at'[r]]
      BY <1>0, <2>4, EnterGoes
    <3>3. layers \in SUBSET Layers
      BY <3>1 DEF Layers, SeenBy
    <3>4. passed' \in [Connections -> SUBSET Layers] /\ passed'[r] = layers
      BY <3>1, <3>3 DEF LayersInv, SeenBy
    <3>5. LayersOf(r)'
      BY <1>0, <2>0, <3>1, <3>2, <3>4 DEF LayersOf, FlowType, SeenBy
    <3>6. \A q \in Connections \ {r} :
            at'[q] = at[q] /\ status'[q] = status[q] /\ passed'[q] = passed[q]
      BY <1>0, <3>1, <3>2 DEF FlowType, LayersInv, SeenBy
    <3>7. \A q \in Connections \ {r} : LayersOf(q)'
      BY <1>0, <2>0, <3>6 DEF LayersOf
    <3> QED BY <3>4, <3>5, <3>7 DEF LayersInv
  <2> QED BY <2>1, <2>2, <2>3, <2>4, StepShape
<1> QED BY <1>1, <1>2, ProcessKept

LEMMA LayersHold == FlowInv /\ LayersInv /\ ConfigInv => LayersInOrder
<1> SUFFICES ASSUME FlowInv, LayersInv, ConfigInv, NEW r \in Connections, at[r].step \in Returning
             PROVE  /\ status[r] = 308 => {"headers", "limit", "mux"} \intersect passed[r] = {}
                    /\ status[r] = 429 => at[r].path \notin Unlimited /\ "mux" \notin passed[r]
                    /\ status[r] # 308 => "headers" \in passed[r]
                    /\ status[r] = 308 => start.env["enforceHTTPS"] = TRUE
  BY DEF LayersInOrder
<1>1. LayersOf(r) /\ FlowOf(r) /\ at[r].step # "idle" /\ status[r] \in {0, 200, 308, 429, 503}
  BY DEF LayersInv, FlowInv, FlowType, Returning
<1>2. /\ status[r] = 308 => {"headers", "limit", "mux"} \intersect passed[r] = {}
      /\ status[r] = 429 => at[r].path \notin Unlimited /\ "mux" \notin passed[r]
      /\ status[r] # 308 => "headers" \in passed[r]
  BY <1>1 DEF LayersOf
<1>3. ASSUME status[r] = 308 PROVE start.env["enforceHTTPS"] = TRUE
  <2>1. config["enforceHTTPS"] /\ phase = "serving"
    BY <1>1, <1>3 DEF LayersOf, FlowOf
  <2>2. "enforceHTTPS" \in DOMAIN Defaults /\ "enforceHTTPS" \in Switches
    BY NamesApart DEF Switches
  <2>3. config = loadAppConfigFromEnv(start.env) /\ ~Refused(config, start.root)
    BY <2>1 DEF ConfigInv
  <2>4. DOMAIN config = DOMAIN Defaults
    BY <2>3 DEF loadAppConfigFromEnv
  <2>5. config["enforceHTTPS"] # Invalid
    BY <2>2, <2>3, <2>4 DEF Refused
  <2>6. /\ config["enforceHTTPS"] \in BOOLEAN
        /\ config["enforceHTTPS"] = IF start.env["enforceHTTPS"] = Absent
                                    THEN Defaults["enforceHTTPS"] ELSE start.env["enforceHTTPS"]
    BY <2>2, <2>3, <2>5, StartToldAll, SettingLoaded
  <2> QED BY <2>1, <2>6, DefaultsType
<1> QED BY <1>2, <1>3

LEMMA LayersInit == Init => LayersInv
<1> SUFFICES ASSUME Init PROVE LayersInv
  OBVIOUS
<1>1. \A r \in Connections : at[r].step = "idle"
  BY DEF Init, Idle
<1> QED BY <1>1 DEF Init, LayersInv, LayersOf

\* Whatever requests come together, one that is sent to HTTPS has seen no layer behind
\* the redirect, and one that is refused was judged there and asked for no probe.
THEOREM LayersAreInOrder == Spec => []LayersInOrder
<1>1. Spec => []FlowInv
  BY FlowInvariant
<1>2. Spec => []ConfigInv
  BY ConfigInvariant
<1>3. FlowInv /\ LayersInv /\ [Next]_vars => LayersInv'
  BY LayersStep
<1> QED BY <1>1, <1>2, <1>3, LayersInit, LayersHold, PTL DEF Spec

-----------------------------------------------------------------------------
(* The counters.                                                           *)

CounterNames == {"requests", "429", "fetches", "errors",
                 "item hits", "item misses", "machine hits", "machine misses"}

LEMMA LoadsAre ==
  /\ Len(Loads) = 8 /\ DOMAIN Loads = 1 .. 8
  /\ Loads[1] = "requests" /\ Loads[2] = "429" /\ Loads[3] = "fetches" /\ Loads[4] = "errors"
  /\ Loads[5] = "item hits" /\ Loads[6] = "item misses"
  /\ Loads[7] = "machine hits" /\ Loads[8] = "machine misses"
BY DEF Loads

LEMMA RangeLoads == Range(Loads) = CounterNames
<1>1. Range(Loads) = {Loads[i] : i \in 1 .. 8}
  BY LoadsAre DEF Range
<1>2. ASSUME NEW i \in 1 .. 8 PROVE Loads[i] \in CounterNames
  <2>1. \/ i = 1 \/ i = 2 \/ i = 3 \/ i = 4 \/ i = 5 \/ i = 6 \/ i = 7 \/ i = 8
    OBVIOUS
  <2> QED BY <2>1, LoadsAre DEF CounterNames
<1>3. CounterNames \subseteq Range(Loads)
  <2> DEFINE Range8 == {Loads[i] : i \in 1 .. 8}
  <2>1. \A i \in 1 .. 8 : Loads[i] \in Range8
    OBVIOUS
  <2> HIDE DEF Range8
  <2>2. /\ Loads[1] \in Range8 /\ Loads[2] \in Range8 /\ Loads[3] \in Range8 /\ Loads[4] \in Range8
        /\ Loads[5] \in Range8 /\ Loads[6] \in Range8 /\ Loads[7] \in Range8 /\ Loads[8] \in Range8
    BY <2>1
  <2>3. CounterNames \subseteq Range8
    BY <2>2, LoadsAre DEF CounterNames
  <2> QED BY <1>1, <2>3 DEF Range8
<1> QED BY <1>1, <1>2, <1>3

\* The size of T, when it is S but for r.
MovesBy(r, S, T) ==
  /\ Cardinality(S) \in Nat /\ Cardinality(T) \in Nat
  /\ (r \in S <=> r \in T) => Cardinality(T) = Cardinality(S)
  /\ r \notin S /\ r \in T => Cardinality(T) = Cardinality(S) + 1
  /\ r \in S /\ r \notin T => Cardinality(S) = Cardinality(T) + 1

LEMMA SizeMoves ==
  ASSUME NEW S \in SUBSET Connections, NEW T \in SUBSET Connections, NEW r \in Connections,
         \A q \in Connections \ {r} : q \in S <=> q \in T
  PROVE  MovesBy(r, S, T)
<1>1. IsFiniteSet(S) /\ IsFiniteSet(T)
  BY PipelineAssumption, FS_Subset
<1>2. Cardinality(S) \in Nat /\ Cardinality(T) \in Nat
  BY <1>1, FS_CardinalityType
<1>3. ASSUME r \in S <=> r \in T PROVE Cardinality(T) = Cardinality(S)
  <2>1. S = T
    BY <1>3
  <2> QED BY <2>1
<1>4. ASSUME r \notin S, r \in T PROVE Cardinality(T) = Cardinality(S) + 1
  <2>1. T = S \union {r}
    BY <1>4
  <2> QED BY <2>1, <1>1, <1>4, FS_AddElement
<1>5. ASSUME r \in S, r \notin T PROVE Cardinality(S) = Cardinality(T) + 1
  <2>1. S = T \union {r}
    BY <1>5
  <2> QED BY <2>1, <1>1, <1>5, FS_AddElement
<1> QED BY <1>2, <1>3, <1>4, <1>5 DEF MovesBy

Counted == {r \in Connections : at[r].step \in {"count429", "log"}}
CountedRefusals == {r \in Connections : at[r].step = "log" /\ status[r] = 429}
Awaiting == {r \in Connections : at[r].step = "fetching"}
FoundUnready == {r \in Connections : status[r] = 503}

TallyType ==
  /\ came \in Nat /\ aborted \in Nat /\ filesLeft \in Nat
  /\ logged \in [all : Nat, refused : Nat, unready : Nat]
  /\ count \in [CounterNames -> Nat]

\* CountersAddUp and ReadyIsProven say what the numbers are when no request is in
\* progress, and compare those of which one is: each request in progress counts here.
Tally ==
  /\ came = logged.all + aborted + Cardinality(InProgress)
  /\ count["requests"] = logged.all + Cardinality(Counted)
  /\ count["429"] = logged.refused + Cardinality(CountedRefusals)
  /\ logged.refused <= logged.all
  /\ count["errors"] + Cardinality(Awaiting) <= count["fetches"]
  /\ filesLeft <= logged.unready + Cardinality(FoundUnready)

TallyInv == TallyType /\ Tally

OnlyMoves(r) == \A q \in Connections \ {r} : at'[q] = at[q] /\ status'[q] = status[q]

\* The sizes of the sets as r moves.
LEMMA SizesMove ==
  ASSUME NEW r \in Connections, OnlyMoves(r)
  PROVE  /\ MovesBy(r, InProgress, InProgress') /\ MovesBy(r, Counted, Counted')
         /\ MovesBy(r, CountedRefusals, CountedRefusals') /\ MovesBy(r, Awaiting, Awaiting')
         /\ MovesBy(r, FoundUnready, FoundUnready')
<1>1. MovesBy(r, InProgress, InProgress')
  <2>1. InProgress \in SUBSET Connections /\ InProgress' \in SUBSET Connections
        /\ \A q \in Connections \ {r} : q \in InProgress <=> q \in InProgress'
    BY DEF OnlyMoves, InProgress
  <2> QED BY <2>1, SizeMoves
<1>2. MovesBy(r, Counted, Counted')
  <2>1. Counted \in SUBSET Connections /\ Counted' \in SUBSET Connections
        /\ \A q \in Connections \ {r} : q \in Counted <=> q \in Counted'
    BY DEF OnlyMoves, Counted
  <2> QED BY <2>1, SizeMoves
<1>3. MovesBy(r, CountedRefusals, CountedRefusals')
  <2>1. CountedRefusals \in SUBSET Connections /\ CountedRefusals' \in SUBSET Connections
        /\ \A q \in Connections \ {r} : q \in CountedRefusals <=> q \in CountedRefusals'
    BY DEF OnlyMoves, CountedRefusals
  <2> QED BY <2>1, SizeMoves
<1>4. MovesBy(r, Awaiting, Awaiting')
  <2>1. Awaiting \in SUBSET Connections /\ Awaiting' \in SUBSET Connections
        /\ \A q \in Connections \ {r} : q \in Awaiting <=> q \in Awaiting'
    BY DEF OnlyMoves, Awaiting
  <2> QED BY <2>1, SizeMoves
<1>5. MovesBy(r, FoundUnready, FoundUnready')
  <2>1. FoundUnready \in SUBSET Connections /\ FoundUnready' \in SUBSET Connections
        /\ \A q \in Connections \ {r} : q \in FoundUnready <=> q \in FoundUnready'
    BY DEF OnlyMoves, FoundUnready
  <2> QED BY <2>1, SizeMoves
<1> QED BY <1>1, <1>2, <1>3, <1>4, <1>5

\* How a step of a counter leaves the others.
LEMMA CountMoves ==
  ASSUME count \in [CounterNames -> Nat], NEW name \in CounterNames, NEW n \in Nat,
         count' = [count EXCEPT ![name] = @ + n]
  PROVE  /\ count' \in [CounterNames -> Nat] /\ count'[name] = count[name] + n
         /\ \A other \in CounterNames \ {name} : count'[other] = count[other]
<1>1. count[name] + n \in Nat
  OBVIOUS
<1> QED BY <1>1

LEMMA GoesOnlyMoves ==
  ASSUME FlowType, NEW r \in Connections, NEW s, NEW code, Goes(r, s, code)
  PROVE  OnlyMoves(r) /\ at'[r].step = s /\ status'[r] = code
BY OthersStay DEF OnlyMoves, Goes

LEMMA FreeOnlyMoves ==
  ASSUME FlowType, NEW r \in Connections, Free(r)
  PROVE  OnlyMoves(r) /\ at'[r].step = "idle" /\ status'[r] = 0
<1>1. at'[r].step = "idle" /\ status'[r] = 0
  BY FreeGoes
<1>2. OnlyMoves(r)
  BY DEF OnlyMoves, FlowType, Free
<1> QED BY <1>1, <1>2

\* Where r is before and after a step of its handler.
LEMMA HandlerMembers ==
  ASSUME FlowInv, NEW r \in Connections, at[r].step \in Handling,
         at'[r].step \in Handling \union {"count"}
  PROVE  /\ r \in InProgress /\ r \in InProgress'
         /\ r \notin Counted /\ r \notin Counted'
         /\ r \notin CountedRefusals /\ r \notin CountedRefusals'
         /\ r \notin FoundUnready
<1>1. status[r] = 0
  BY DEF FlowInv, FlowOf, Handling, Returning
<1>2. at[r].step \notin {"idle", "count429", "log"} /\ at'[r].step \notin {"idle", "count429", "log"}
  BY DEF Handling
<1> QED BY <1>1, <1>2 DEF InProgress, Counted, CountedRefusals, FoundUnready

LogKept == UNCHANGED <<logged, came, aborted>>

\* A step of a handler that fetches nothing: no number moves but the files left.
LEMMA TallyOfHandler ==
  ASSUME TallyInv, FlowInv, NEW r \in Connections, OnlyMoves(r),
         at[r].step \in Handling \ {"fetching"},
         at'[r].step \in (Handling \ {"fetching"}) \union {"count"}, LogKept,
         count' \in [CounterNames -> Nat],
         \A name \in {"requests", "429", "fetches", "errors"} : count'[name] = count[name],
         filesLeft' = filesLeft \/ (filesLeft' = filesLeft + 1 /\ status'[r] = 503)
  PROVE  TallyInv'
<1>1. MovesBy(r, InProgress, InProgress') /\ MovesBy(r, Counted, Counted')
      /\ MovesBy(r, CountedRefusals, CountedRefusals') /\ MovesBy(r, Awaiting, Awaiting')
      /\ MovesBy(r, FoundUnready, FoundUnready')
  BY SizesMove
<1>2. /\ r \in InProgress /\ r \in InProgress' /\ r \notin Counted /\ r \notin Counted'
      /\ r \notin CountedRefusals /\ r \notin CountedRefusals' /\ r \notin FoundUnready
  BY HandlerMembers
<1>3. r \notin Awaiting /\ r \notin Awaiting'
  BY DEF Awaiting, Handling
<1>4. /\ Cardinality(InProgress)' = Cardinality(InProgress)
      /\ Cardinality(Counted)' = Cardinality(Counted)
      /\ Cardinality(CountedRefusals)' = Cardinality(CountedRefusals)
      /\ Cardinality(Awaiting)' = Cardinality(Awaiting)
  BY <1>1, <1>2, <1>3 DEF MovesBy
<1>5. filesLeft' <= logged'.unready + Cardinality(FoundUnready)'
  <2>1. filesLeft \in Nat /\ logged.unready \in Nat /\ logged' = logged
        /\ filesLeft <= logged.unready + Cardinality(FoundUnready)
    BY DEF TallyInv, TallyType, Tally, LogKept
  <2>2. /\ Cardinality(FoundUnready) \in Nat /\ Cardinality(FoundUnready)' \in Nat
        /\ Cardinality(FoundUnready)' \in {Cardinality(FoundUnready), Cardinality(FoundUnready) + 1}
        /\ r \in FoundUnready' => Cardinality(FoundUnready)' = Cardinality(FoundUnready) + 1
    BY <1>1, <1>2 DEF MovesBy
  <2>3. filesLeft' = filesLeft + 1 => filesLeft' = filesLeft \/ r \in FoundUnready'
    BY DEF FoundUnready
  <2>4. CASE filesLeft' = filesLeft
    BY <2>1, <2>2, <2>4
  <2>5. CASE filesLeft' = filesLeft + 1 /\ r \in FoundUnready'
    BY <2>1, <2>2, <2>5
  <2> QED BY <2>3, <2>4, <2>5
<1>6. TallyType'
  BY DEF TallyInv, TallyType, LogKept
<1>7. Tally'
  BY <1>4, <1>5 DEF TallyInv, Tally, LogKept
<1> QED BY <1>6, <1>7 DEF TallyInv

\* What a lookup counts.
LEMMA LookupCounts ==
  ASSUME count \in [CounterNames -> Nat], NEW cache \in Caches, NEW entry, CountLookup(cache, entry)
  PROVE  /\ count' \in [CounterNames -> Nat]
         /\ count'[Hits(cache)] + count'[Misses(cache)] = count[Hits(cache)] + count[Misses(cache)] + 1
         /\ \A name \in CounterNames \ {Hits(cache), Misses(cache)} : count'[name] = count[name]
         /\ \A name \in CounterNames : count'[name] >= count[name]
<1> DEFINE hits == Hits(cache)
<1> DEFINE misses == Misses(cache)
<1> DEFINE hit == IF entry = "none" THEN 0 ELSE 1
<1> DEFINE miss == IF entry = "none" THEN 1 ELSE 0
<1>1. hits \in CounterNames /\ misses \in CounterNames /\ hits # misses
  BY CachesAre DEF Hits, Misses, CounterNames
<1>2. hit \in Nat /\ miss \in Nat /\ hit + miss = 1
  OBVIOUS
<1>3. count' = [count EXCEPT ![hits] = @ + hit, ![misses] = @ + miss]
  BY DEF CountLookup
<1> HIDE DEF hits, misses, hit, miss
<1>4. /\ count' \in [CounterNames -> Nat]
      /\ count'[hits] = count[hits] + hit /\ count'[misses] = count[misses] + miss
      /\ \A name \in CounterNames \ {hits, misses} : count'[name] = count[name]
  BY <1>1, <1>2, <1>3
<1>5. count[hits] \in Nat /\ count[misses] \in Nat
  BY <1>1
<1>6. count'[hits] + count'[misses] = count[hits] + count[misses] + 1
  BY <1>2, <1>4, <1>5
<1>7. \A name \in CounterNames : count'[name] >= count[name]
  BY <1>2, <1>4, <1>5
<1> QED BY <1>4, <1>6, <1>7 DEF hits, misses

LEMMA CacheCountersApart ==
  ASSUME NEW cache \in Caches
  PROVE  /\ Hits(cache) \in CounterNames /\ Misses(cache) \in CounterNames
         /\ {"requests", "429", "fetches", "errors"} \intersect {Hits(cache), Misses(cache)} = {}
BY CachesAre DEF Hits, Misses, CounterNames

LEMMA TallyStep ==
  ASSUME FlowInv, TallyInv, [Next]_vars
  PROVE  TallyInv'
<1>0. FlowType /\ (\A r \in Connections : FlowOf(r)) /\ TallyType /\ Tally
  BY DEF FlowInv, TallyInv
<1>1. CASE UNCHANGED <<at, status, log, count, filesLeft>>
  BY <1>1 DEF log, TallyInv, TallyType, Tally, InProgress, Counted, CountedRefusals, Awaiting,
              FoundUnready
<1>2. ASSUME NEW r \in Connections, AnswerAtOnce(r) \/ NothingToLookUp(r) PROVE TallyInv'
  <2>1. UNCHANGED <<logged, came, aborted, count, filesLeft>>
    BY <1>2 DEF AnswerAtOnce, NothingToLookUp, log, fetching, files
  <2>2. at[r].step \in Handling \ {"fetching"} /\ Goes(r, "count", 200)
    BY <1>0, <1>2, AnswerGoes, NothingGoes DEF Handling
  <2> QED BY <1>0, <2>1, <2>2, GoesOnlyMoves, TallyOfHandler DEF TallyType, LogKept
<1>3. ASSUME NEW r \in Connections, NEW cache \in Caches, NEW entry, LookUp(r, cache, entry)
      PROVE  TallyInv'
  <2>1. UNCHANGED <<logged, came, aborted, filesLeft>> /\ CountLookup(cache, entry)
    BY <1>3 DEF LookUp, log, files
  <2>2. /\ count' \in [CounterNames -> Nat]
        /\ \A name \in {"requests", "429", "fetches", "errors"} : count'[name] = count[name]
    <3>1. {"requests", "429", "fetches", "errors"} \subseteq CounterNames
      BY DEF CounterNames
    <3> QED BY <3>1, <1>0, <2>1, LookupCounts, CacheCountersApart DEF TallyType
  <2>3. PICK s \in {"lookup", "fetch", "count"}, code \in {status[r], 200, 503} : Goes(r, s, code)
    BY <1>0, <1>3, LookUpGoes
  <2>4. at[r].step \in Handling \ {"fetching"}
    BY <1>0, <1>3, LookUpGoes DEF Handling
  <2>5. OnlyMoves(r) /\ at'[r].step = s
    BY <1>0, <2>3, GoesOnlyMoves
  <2>6. at'[r].step \in (Handling \ {"fetching"}) \union {"count"}
    BY <2>5 DEF Handling
  <2> QED BY <2>1, <2>2, <2>4, <2>5, <2>6, TallyOfHandler DEF LogKept
<1>4. ASSUME NEW r \in Connections, Load(r) PROVE TallyInv'
  <2>1. UNCHANGED <<logged, came, aborted, count, filesLeft, log>>
    BY <1>4 DEF Load, log, fetching, files
  <2>2. at[r].step \in Handling \ {"fetching"} /\ (Goes(r, "count", 200) \/ UNCHANGED <<at, status>>)
    BY <1>0, <1>4, LoadGoes DEF Handling
  <2>3. CASE Goes(r, "count", 200)
    BY <1>0, <2>1, <2>2, <2>3, GoesOnlyMoves, TallyOfHandler DEF TallyType, LogKept
  <2> QED BY <1>1, <2>1, <2>2, <2>3
<1>5. ASSUME NEW r \in Connections, MakeDir(r) \/ CreateTemp(r) \/ CloseAndRemove(r) PROVE TallyInv'
  <2>1. UNCHANGED <<logged, came, aborted, count>>
    BY <1>5 DEF MakeDir, CreateTemp, CloseAndRemove, ProbeKeeps, log, fetching
  <2>2. at[r].step \in Handling \ {"fetching"}
    BY <1>0, <1>5, MakeDirGoes, CreateTempGoes, CloseAndRemoveGoes DEF Handling
  <2>3. PICK s \in {"create", "remove", "count"}, code \in {status[r], 200, 503} : Goes(r, s, code)
    BY <1>0, <1>5, MakeDirGoes, CreateTempGoes, CloseAndRemoveGoes
  <2>4. OnlyMoves(r) /\ at'[r].step = s
    BY <1>0, <2>3, GoesOnlyMoves
  <2>5. at'[r].step \in (Handling \ {"fetching"}) \union {"count"}
    BY <2>4 DEF Handling
  <2>6. filesLeft' = filesLeft \/ (filesLeft' = filesLeft + 1 /\ status'[r] = 503)
    <3>1. CASE MakeDir(r) \/ CreateTemp(r)
      BY <3>1 DEF MakeDir, CreateTemp
    <3>2. CASE CloseAndRemove(r)
      <4>1. filesLeft' = filesLeft \/ (filesLeft' = filesLeft + 1 /\ Reply(r, 503))
        BY <3>2 DEF CloseAndRemove, Unready
      <4> QED BY <1>0, <4>1, ReplyGoes, GoesOnlyMoves
    <3> QED BY <1>5, <3>1, <3>2
  <2> QED BY <1>0, <2>1, <2>2, <2>4, <2>5, <2>6, TallyOfHandler DEF TallyType, LogKept
<1>6. ASSUME NEW r \in Connections, BeginFetch(r) PROVE TallyInv'
  <2>1. UNCHANGED <<logged, came, aborted, filesLeft>> /\ count' = [count EXCEPT !["fetches"] = @ + 1]
    BY <1>6 DEF BeginFetch, log, files
  <2>2. "fetches" \in CounterNames /\ {"requests", "429", "errors"} \subseteq CounterNames \ {"fetches"}
    BY DEF CounterNames
  <2>3. /\ count' \in [CounterNames -> Nat] /\ count'["fetches"] = count["fetches"] + 1
        /\ count'["requests"] = count["requests"] /\ count'["429"] = count["429"]
        /\ count'["errors"] = count["errors"]
    BY <1>0, <2>1, <2>2, CountMoves DEF TallyType
  <2>4. at[r].step = "fetch" /\ Goes(r, "fetching", status[r])
    BY <1>0, <1>6, BeginFetchGoes
  <2>5. OnlyMoves(r) /\ at'[r].step = "fetching" /\ status'[r] = status[r]
    BY <1>0, <2>4, GoesOnlyMoves
  <2>6. /\ r \in InProgress /\ r \in InProgress' /\ r \notin Counted /\ r \notin Counted'
        /\ r \notin CountedRefusals /\ r \notin CountedRefusals'
    BY <2>4, <2>5, HandlerMembers DEF Handling
  <2>7. r \notin Awaiting /\ r \in Awaiting' /\ (r \in FoundUnready <=> r \in FoundUnready')
    BY <2>4, <2>5 DEF Awaiting, FoundUnready
  <2>8. /\ Cardinality(InProgress)' = Cardinality(InProgress)
        /\ Cardinality(Counted)' = Cardinality(Counted)
        /\ Cardinality(CountedRefusals)' = Cardinality(CountedRefusals)
        /\ Cardinality(Awaiting) \in Nat /\ Cardinality(Awaiting)' = Cardinality(Awaiting) + 1
        /\ Cardinality(FoundUnready)' = Cardinality(FoundUnready)
    BY <2>5, <2>6, <2>7, SizesMove DEF MovesBy
  <2>9. TallyType'
    BY <1>0, <2>1, <2>3 DEF TallyType
  <2>10. count["errors"] \in Nat /\ count["fetches"] \in Nat
    BY <1>0, <2>2 DEF TallyType
  <2>11. count'["errors"] + Cardinality(Awaiting)' <= count'["fetches"]
    BY <1>0, <2>3, <2>8, <2>10 DEF Tally
  <2>12. Tally'
    BY <1>0, <2>1, <2>3, <2>8, <2>11 DEF Tally
  <2> QED BY <2>9, <2>12 DEF TallyInv
<1>7. ASSUME NEW r \in Connections, NEW outcome, EndFetch(r, outcome) PROVE TallyInv'
  <2> DEFINE n == IF outcome = "error" THEN 1 ELSE 0
  <2>1. UNCHANGED <<logged, came, aborted, filesLeft>> /\ count' = [count EXCEPT !["errors"] = @ + n]
    BY <1>7 DEF EndFetch, log, files
  <2>2. n \in Nat /\ n <= 1
    OBVIOUS
  <2> HIDE DEF n
  <2>3. "errors" \in CounterNames /\ {"requests", "429", "fetches"} \subseteq CounterNames \ {"errors"}
    BY DEF CounterNames
  <2>4. /\ count' \in [CounterNames -> Nat] /\ count'["errors"] = count["errors"] + n
        /\ count'["requests"] = count["requests"] /\ count'["429"] = count["429"]
        /\ count'["fetches"] = count["fetches"]
    BY <1>0, <2>1, <2>2, <2>3, CountMoves DEF TallyType
  <2>5. at[r].step = "fetching" /\ \E s \in {"lookup", "count", "fetch"}, code \in {status[r], 200} : Goes(r, s, code)
    BY <1>0, <1>7, EndFetchGoes
  <2>6. PICK s \in {"lookup", "count", "fetch"}, code \in {status[r], 200} : Goes(r, s, code)
    BY <2>5
  <2>7. OnlyMoves(r) /\ at'[r].step = s /\ status'[r] \in {status[r], 200}
    BY <1>0, <2>6, GoesOnlyMoves
  <2>8. at'[r].step \in Handling \union {"count"} /\ at[r].step \in Handling
    BY <2>5, <2>7 DEF Handling
  <2>9. /\ r \in InProgress /\ r \in InProgress' /\ r \notin Counted /\ r \notin Counted'
        /\ r \notin CountedRefusals /\ r \notin CountedRefusals' /\ r \notin FoundUnready
    BY <2>8, HandlerMembers
  <2>10. r \in Awaiting /\ r \notin Awaiting'
    BY <2>5, <2>7 DEF Awaiting
  <2>11. r \notin FoundUnready'
    BY <2>7, <2>9 DEF FoundUnready
  <2>12. /\ Cardinality(InProgress)' = Cardinality(InProgress)
         /\ Cardinality(Counted)' = Cardinality(Counted)
         /\ Cardinality(CountedRefusals)' = Cardinality(CountedRefusals)
         /\ Cardinality(Awaiting)' \in Nat /\ Cardinality(Awaiting) = Cardinality(Awaiting)' + 1
         /\ Cardinality(FoundUnready)' = Cardinality(FoundUnready)
    BY <2>7, <2>9, <2>10, <2>11, SizesMove DEF MovesBy
  <2>13. TallyType'
    BY <1>0, <2>1, <2>4 DEF TallyType
  <2>14. count["errors"] \in Nat /\ count["fetches"] \in Nat
    BY <1>0, <2>3 DEF TallyType
  <2>15. count'["errors"] + Cardinality(Awaiting)' <= count'["fetches"]
    BY <1>0, <2>2, <2>4, <2>12, <2>14 DEF Tally
  <2>16. Tally'
    BY <1>0, <2>1, <2>4, <2>12, <2>15 DEF Tally
  <2> QED BY <2>13, <2>16 DEF TallyInv
<1>8. ASSUME NEW r \in Connections, Panic(r) PROVE TallyInv'
  <2>1. UNCHANGED <<logged, came, count, filesLeft>> /\ aborted' = aborted + 1
    BY <1>8 DEF Panic
  <2>2. OnlyMoves(r) /\ at'[r].step = "idle" /\ status'[r] = 0
    BY <1>0, <1>8, FreeOnlyMoves DEF Panic
  <2>3. at[r].step \in Handling /\ status[r] = 0
    BY <1>0, <1>8 DEF Panic, FlowOf, Handling, Returning
  <2>4. r \in InProgress /\ r \notin InProgress'
    BY <2>2, <2>3 DEF InProgress, Handling
  <2>5. /\ r \notin Counted /\ r \notin Counted'
        /\ r \notin CountedRefusals /\ r \notin CountedRefusals'
        /\ r \notin FoundUnready /\ r \notin FoundUnready' /\ r \notin Awaiting'
    BY <2>2, <2>3 DEF Handling, Counted, CountedRefusals, FoundUnready, Awaiting
  <2>6. /\ Cardinality(InProgress)' \in Nat /\ Cardinality(InProgress) = Cardinality(InProgress)' + 1
        /\ Cardinality(Counted)' = Cardinality(Counted)
        /\ Cardinality(CountedRefusals)' = Cardinality(CountedRefusals)
        /\ Cardinality(FoundUnready)' = Cardinality(FoundUnready)
        /\ Cardinality(Awaiting) \in Nat /\ Cardinality(Awaiting)' \in Nat
        /\ Cardinality(Awaiting)' <= Cardinality(Awaiting)
    BY <2>2, <2>4, <2>5, SizesMove DEF MovesBy
  <2>7. TallyType'
    BY <1>0, <2>1 DEF TallyType
  <2>8. came' = logged'.all + aborted' + Cardinality(InProgress)'
    <3>1. logged.all \in Nat /\ aborted \in Nat /\ came = logged.all + aborted + Cardinality(InProgress)
      BY <1>0 DEF TallyType, Tally
    <3> QED BY <3>1, <2>1, <2>6
  <2>9. count'["errors"] + Cardinality(Awaiting)' <= count'["fetches"]
    <3>1. count["errors"] \in Nat /\ count["fetches"] \in Nat
      BY <1>0 DEF TallyType, CounterNames
    <3> QED BY <3>1, <1>0, <2>1, <2>6 DEF Tally
  <2>10. Tally'
    BY <1>0, <2>1, <2>6, <2>8, <2>9 DEF Tally
  <2> QED BY <2>7, <2>10 DEF TallyInv
<1>9. ASSUME NEW r \in Connections, CountRequest(r) PROVE TallyInv'
  <2>1. UNCHANGED <<logged, came, aborted, filesLeft>> /\ count' = [count EXCEPT !["requests"] = @ + 1]
    BY <1>9 DEF CountRequest, log, files
  <2>2. "requests" \in CounterNames /\ {"fetches", "429", "errors"} \subseteq CounterNames \ {"requests"}
    BY DEF CounterNames
  <2>3. /\ count' \in [CounterNames -> Nat] /\ count'["requests"] = count["requests"] + 1
        /\ count'["fetches"] = count["fetches"] /\ count'["429"] = count["429"]
        /\ count'["errors"] = count["errors"]
    BY <1>0, <2>1, <2>2, CountMoves DEF TallyType
  <2>4. at[r].step = "count" /\ Goes(r, IF status[r] = 429 THEN "count429" ELSE "log", status[r])
    BY <1>0, <1>9, CountRequestGoes
  <2>5. /\ OnlyMoves(r) /\ status'[r] = status[r]
        /\ at'[r].step = IF status[r] = 429 THEN "count429" ELSE "log"
    BY <1>0, <2>4, GoesOnlyMoves
  <2>6. /\ r \in InProgress /\ r \in InProgress' /\ r \notin Counted /\ r \in Counted'
        /\ r \notin CountedRefusals /\ r \notin CountedRefusals'
        /\ r \notin Awaiting /\ r \notin Awaiting' /\ (r \in FoundUnready <=> r \in FoundUnready')
    BY <2>4, <2>5 DEF InProgress, Counted, CountedRefusals, Awaiting, FoundUnready
  <2>7. /\ Cardinality(InProgress)' = Cardinality(InProgress)
        /\ Cardinality(Counted) \in Nat /\ Cardinality(Counted)' = Cardinality(Counted) + 1
        /\ Cardinality(CountedRefusals)' = Cardinality(CountedRefusals)
        /\ Cardinality(Awaiting)' = Cardinality(Awaiting)
        /\ Cardinality(FoundUnready)' = Cardinality(FoundUnready)
    BY <2>5, <2>6, SizesMove DEF MovesBy
  <2>8. TallyType'
    BY <1>0, <2>1, <2>3 DEF TallyType
  <2>9. count'["requests"] = logged'.all + Cardinality(Counted)'
    <3>1. logged.all \in Nat /\ logged' = logged
      BY <1>0, <2>1 DEF TallyType
    <3> QED BY <3>1, <1>0, <2>3, <2>7 DEF Tally
  <2>10. Tally'
    BY <1>0, <2>1, <2>3, <2>7, <2>9 DEF Tally
  <2> QED BY <2>8, <2>10 DEF TallyInv
<1>10. ASSUME NEW r \in Connections, Count429(r) PROVE TallyInv'
  <2>1. UNCHANGED <<logged, came, aborted, filesLeft>> /\ count' = [count EXCEPT !["429"] = @ + 1]
    BY <1>10 DEF Count429, log, files
  <2>2. "429" \in CounterNames /\ {"fetches", "requests", "errors"} \subseteq CounterNames \ {"429"}
    BY DEF CounterNames
  <2>3. /\ count' \in [CounterNames -> Nat] /\ count'["429"] = count["429"] + 1
        /\ count'["fetches"] = count["fetches"] /\ count'["requests"] = count["requests"]
        /\ count'["errors"] = count["errors"]
    BY <1>0, <2>1, <2>2, CountMoves DEF TallyType
  <2>4. at[r].step = "count429" /\ status[r] = 429 /\ Goes(r, "log", status[r])
    BY <1>0, <1>10, Count429Goes DEF FlowOf
  <2>5. OnlyMoves(r) /\ status'[r] = 429 /\ at'[r].step = "log"
    BY <1>0, <2>4, GoesOnlyMoves
  <2>6. /\ r \in InProgress /\ r \in InProgress' /\ r \in Counted /\ r \in Counted'
        /\ r \notin CountedRefusals /\ r \in CountedRefusals'
        /\ r \notin Awaiting /\ r \notin Awaiting' /\ r \notin FoundUnready /\ r \notin FoundUnready'
    BY <2>4, <2>5 DEF InProgress, Counted, CountedRefusals, Awaiting, FoundUnready
  <2>7. /\ Cardinality(InProgress)' = Cardinality(InProgress)
        /\ Cardinality(Counted)' = Cardinality(Counted)
        /\ Cardinality(CountedRefusals) \in Nat
        /\ Cardinality(CountedRefusals)' = Cardinality(CountedRefusals) + 1
        /\ Cardinality(Awaiting)' = Cardinality(Awaiting)
        /\ Cardinality(FoundUnready)' = Cardinality(FoundUnready)
    BY <2>5, <2>6, SizesMove DEF MovesBy
  <2>8. TallyType'
    BY <1>0, <2>1, <2>3 DEF TallyType
  <2>9. count'["429"] = logged'.refused + Cardinality(CountedRefusals)'
    <3>1. logged.refused \in Nat /\ logged' = logged
      BY <1>0, <2>1 DEF TallyType
    <3> QED BY <3>1, <1>0, <2>3, <2>7 DEF Tally
  <2>10. Tally'
    BY <1>0, <2>1, <2>3, <2>7, <2>9 DEF Tally
  <2> QED BY <2>8, <2>10 DEF TallyInv
<1>11. ASSUME NEW r \in Connections, Log(r) PROVE TallyInv'
  <2> DEFINE refusal == IF status[r] = 429 THEN 1 ELSE 0
  <2> DEFINE unready == IF status[r] = 503 THEN 1 ELSE 0
  <2>1. /\ UNCHANGED <<came, aborted, count, filesLeft>>
        /\ logged' = [all |-> logged.all + 1, refused |-> logged.refused + refusal,
                      unready |-> logged.unready + unready]
    BY <1>11 DEF Log
  <2>2. OnlyMoves(r) /\ at'[r].step = "idle" /\ status'[r] = 0
    BY <1>0, <1>11, FreeOnlyMoves DEF Log
  <2>3. at[r].step = "log"
    BY <1>11 DEF Log
  <2>4. /\ r \in InProgress /\ r \notin InProgress' /\ r \in Counted /\ r \notin Counted'
        /\ r \in CountedRefusals <=> status[r] = 429
        /\ r \notin CountedRefusals' /\ r \notin Awaiting /\ r \notin Awaiting'
        /\ r \in FoundUnready <=> status[r] = 503
        /\ r \notin FoundUnready'
    BY <2>2, <2>3 DEF InProgress, Counted, CountedRefusals, Awaiting, FoundUnready
  <2>5. /\ MovesBy(r, InProgress, InProgress') /\ MovesBy(r, Counted, Counted')
        /\ MovesBy(r, CountedRefusals, CountedRefusals') /\ MovesBy(r, Awaiting, Awaiting')
        /\ MovesBy(r, FoundUnready, FoundUnready')
    BY <2>2, SizesMove
  <2>6. /\ Cardinality(InProgress)' \in Nat /\ Cardinality(InProgress) = Cardinality(InProgress)' + 1
        /\ Cardinality(Counted)' \in Nat /\ Cardinality(Counted) = Cardinality(Counted)' + 1
        /\ Cardinality(Awaiting)' = Cardinality(Awaiting)
    BY <2>4, <2>5 DEF MovesBy
  <2>7. /\ refusal \in {0, 1} /\ Cardinality(CountedRefusals)' \in Nat
        /\ Cardinality(CountedRefusals) = Cardinality(CountedRefusals)' + refusal
    BY <2>4, <2>5 DEF MovesBy
  <2>8. /\ unready \in {0, 1} /\ Cardinality(FoundUnready)' \in Nat
        /\ Cardinality(FoundUnready) = Cardinality(FoundUnready)' + unready
    BY <2>4, <2>5 DEF MovesBy
  <2> HIDE DEF refusal, unready
  <2>9. /\ logged.all \in Nat /\ logged.refused \in Nat /\ logged.unready \in Nat
        /\ came \in Nat /\ aborted \in Nat /\ filesLeft \in Nat
    BY <1>0 DEF TallyType
  <2>10. /\ logged'.all = logged.all + 1 /\ logged'.refused = logged.refused + refusal
         /\ logged'.unready = logged.unready + unready
    BY <2>1
  <2>11. logged' \in [all : Nat, refused : Nat, unready : Nat]
    <3>1. logged.all + 1 \in Nat /\ logged.refused + refusal \in Nat /\ logged.unready + unready \in Nat
      BY <2>7, <2>8, <2>9
    <3> QED BY <3>1, <2>1
  <2>12. TallyType'
    BY <1>0, <2>1, <2>11 DEF TallyType
  <2>13. came' = logged'.all + aborted' + Cardinality(InProgress)'
    BY <1>0, <2>1, <2>6, <2>9, <2>10 DEF Tally
  <2>14. count'["requests"] = logged'.all + Cardinality(Counted)'
    BY <1>0, <2>1, <2>6, <2>9, <2>10 DEF Tally
  <2>15. count'["429"] = logged'.refused + Cardinality(CountedRefusals)'
    BY <1>0, <2>1, <2>7, <2>9, <2>10 DEF Tally
  <2>16. logged'.refused <= logged'.all
    BY <1>0, <2>7, <2>9, <2>10 DEF Tally
  <2>17. filesLeft' <= logged'.unready + Cardinality(FoundUnready)'
    BY <1>0, <2>1, <2>8, <2>9, <2>10 DEF Tally
  <2>18. count'["errors"] + Cardinality(Awaiting)' <= count'["fetches"]
    BY <1>0, <2>1, <2>6 DEF Tally
  <2>19. Tally'
    BY <2>13, <2>14, <2>15, <2>16, <2>17, <2>18 DEF Tally
  <2> QED BY <2>12, <2>19 DEF TallyInv
<1>12. ASSUME NEW r \in Connections, NEW path \in DOMAIN Asked, NEW forwarded \in BOOLEAN,
              NEW refused \in BOOLEAN, Enter(r, path, forwarded, refused)
       PROVE  TallyInv'
  <2>1. UNCHANGED <<logged, aborted, count, filesLeft>> /\ came' = came + 1
    BY <1>12 DEF Enter, fetching, files
  <2>2. /\ at[r].step = "idle" /\ at' = [at EXCEPT ![r] = at'[r]]
        /\ at'[r].step \in {"count", "handle"}
        /\ \E code \in {308, 429, 0} : status' = [status EXCEPT ![r] = code]
    BY <1>0, <1>12, EnterGoes DEF SeenBy
  <2>3. OnlyMoves(r) /\ status'[r] \in {308, 429, 0} /\ status[r] = 0
    BY <1>0, <2>2 DEF OnlyMoves, FlowType, FlowOf, Returning
  <2>4. /\ r \notin InProgress /\ r \in InProgress' /\ r \notin Counted /\ r \notin Counted'
        /\ r \notin CountedRefusals /\ r \notin CountedRefusals' /\ r \notin Awaiting /\ r \notin Awaiting'
        /\ r \notin FoundUnready /\ r \notin FoundUnready'
    BY <2>2, <2>3 DEF InProgress, Counted, CountedRefusals, Awaiting, FoundUnready
  <2>5. /\ Cardinality(InProgress) \in Nat /\ Cardinality(InProgress)' = Cardinality(InProgress) + 1
        /\ Cardinality(Counted)' = Cardinality(Counted)
        /\ Cardinality(CountedRefusals)' = Cardinality(CountedRefusals)
        /\ Cardinality(Awaiting)' = Cardinality(Awaiting)
        /\ Cardinality(FoundUnready)' = Cardinality(FoundUnready)
    BY <2>3, <2>4, SizesMove DEF MovesBy
  <2>6. TallyType'
    BY <1>0, <2>1 DEF TallyType
  <2>7. came' = logged'.all + aborted' + Cardinality(InProgress)'
    <3>1. logged.all \in Nat /\ aborted \in Nat /\ came = logged.all + aborted + Cardinality(InProgress)
      BY <1>0 DEF TallyType, Tally
    <3> QED BY <3>1, <2>1, <2>5
  <2>8. Tally'
    BY <1>0, <2>1, <2>5, <2>7 DEF Tally
  <2> QED BY <2>6, <2>8 DEF TallyInv
<1>13. CASE Start \/ (\E d \in DOMAIN dir : DirChanges(d)) \/ UNCHANGED vars
  BY <1>1, <1>13 DEF Start, DirChanges, vars, fetching, files
<1> QED BY <1>2, <1>3, <1>4, <1>5, <1>6, <1>7, <1>8, <1>9, <1>10, <1>11, <1>12, <1>13
        DEF Next, Handler

LEMMA TallyInit == Init => TallyInv
<1> SUFFICES ASSUME Init PROVE TallyInv
  OBVIOUS
<1>1. \A r \in Connections : at[r].step = "idle" /\ status[r] = 0
  BY DEF Init, Idle
<1>2. InProgress = {} /\ Counted = {} /\ CountedRefusals = {} /\ Awaiting = {} /\ FoundUnready = {}
  BY <1>1 DEF InProgress, Counted, CountedRefusals, Awaiting, FoundUnready
<1>3. Cardinality({}) = 0
  BY FS_EmptySet
<1>4. TallyType
  BY RangeLoads DEF Init, TallyType, NothingShown
<1>5. \A name \in CounterNames : count[name] = 0
  BY RangeLoads DEF Init, NothingShown
<1>6. {"requests", "429", "errors", "fetches"} \subseteq CounterNames
  BY DEF CounterNames
<1>7. logged.all = 0 /\ logged.refused = 0 /\ logged.unready = 0 /\ came = 0 /\ aborted = 0 /\ filesLeft = 0
  BY DEF Init
<1> QED BY <1>2, <1>3, <1>4, <1>5, <1>6, <1>7 DEF TallyInv, Tally

LEMMA TallyInvariant == Spec => []TallyInv
<1>1. Spec => []FlowInv
  BY FlowInvariant
<1>2. FlowInv /\ TallyInv /\ [Next]_vars => TallyInv'
  BY TallyStep
<1> QED BY <1>1, <1>2, TallyInit, PTL DEF Spec

\* What the counters themselves say of each other, at any moment.
LEMMA TallyCompares ==
  ASSUME TallyInv
  PROVE  count["429"] <= count["requests"] /\ count["errors"] <= count["fetches"]
<1>1. IsFiniteSet(Counted) /\ IsFiniteSet(CountedRefusals) /\ IsFiniteSet(Awaiting)
  <2>1. Counted \subseteq Connections /\ CountedRefusals \subseteq Connections
        /\ Awaiting \subseteq Connections
    BY DEF Counted, CountedRefusals, Awaiting
  <2> QED BY <2>1, PipelineAssumption, FS_Subset
<1>2. Cardinality(Counted) \in Nat /\ Cardinality(CountedRefusals) \in Nat
      /\ Cardinality(Awaiting) \in Nat
  BY <1>1, FS_CardinalityType
<1>3. Cardinality(CountedRefusals) <= Cardinality(Counted)
  <2>1. CountedRefusals \subseteq Counted
    BY DEF Counted, CountedRefusals
  <2> QED BY <2>1, <1>1, FS_Subset
<1>4. /\ logged.all \in Nat /\ logged.refused \in Nat
      /\ count["errors"] \in Nat /\ count["fetches"] \in Nat
  BY DEF TallyInv, TallyType, CounterNames
<1> QED BY <1>2, <1>3, <1>4 DEF TallyInv, Tally

-----------------------------------------------------------------------------
(* The probes.                                                             *)

\* A probe sees the directory writable when it makes its file, and is answered only
\* when it has closed and removed it: ReadyIsProven says nothing of the time between.
ProbeOf(r) ==
  /\ at[r].step = "remove" /\ config["cacheDir"] = CachesDir => r \in savable
  /\ at[r].path = "/readyz" /\ status[r] = 200 =>
       r \notin probing /\ (config["cacheDir"] = CachesDir => r \in savable)

ProbeInv == \A r \in Connections : ProbeOf(r)

LEMMA OthersProbe ==
  ASSUME ProbeInv, NEW r \in Connections, OnlyMoves(r), config' = config,
         probing' \subseteq probing \union {r}, savable \ {r} \subseteq savable', ProbeOf(r)'
  PROVE  ProbeInv'
BY DEF ProbeInv, ProbeOf, OnlyMoves

LEMMA ProbeStep ==
  ASSUME FlowInv, ProbeInv, [Next]_vars
  PROVE  ProbeInv'
<1>0. FlowType /\ \A r \in Connections : FlowOf(r) /\ ProbeOf(r)
  BY DEF FlowInv, ProbeInv
<1>1. CASE UNCHANGED <<at, status, config, probing, savable>>
  BY <1>0, <1>1 DEF ProbeInv, ProbeOf
<1>2. CASE Start
  <2>1. \A r \in Connections : at[r].step = "idle"
    BY <1>0, <1>2 DEF FlowOf, Start
  <2>2. at' = at /\ status' = status
    BY <1>2 DEF Start
  <2> QED BY <1>0, <2>1, <2>2 DEF ProbeInv, ProbeOf, FlowOf, Returning
<1>3. CASE UNCHANGED config /\ ~UNCHANGED <<at, status, config, probing, savable>>
  \* A request that is none of a probe, or is not answered 200.
  <2>1. ASSUME NEW r \in Connections, NEW s \in Steps \ {"remove"},
               NEW code \in {0, 200, 308, 429, 503}, Goes(r, s, code),
               UNCHANGED <<probing, savable>>, at[r].path # "/readyz" \/ code = status[r]
        PROVE  ProbeInv'
    <3>1. OnlyMoves(r) /\ at'[r].step = s /\ status'[r] = code
      BY <1>0, <2>1, GoesOnlyMoves
    <3>2. at'[r].path = at[r].path
      BY <2>1 DEF Goes
    <3>3. ProbeOf(r)'
      BY <1>0, <1>3, <2>1, <3>1, <3>2 DEF ProbeOf
    <3> QED BY <1>3, <2>1, <3>1, <3>3, OthersProbe DEF ProbeInv
  <2>2. ASSUME NEW r \in Connections, Panic(r) \/ Log(r) PROVE ProbeInv'
    <3>1. OnlyMoves(r) /\ at'[r].step = "idle" /\ status'[r] = 0
      BY <1>0, <2>2, FreeOnlyMoves DEF Panic, Log
    <3>2. probing' = probing /\ savable' = savable \ {r}
      BY <2>2 DEF Panic, Log, Free
    <3>3. ProbeOf(r)'
      BY <3>1 DEF ProbeOf
    <3> QED BY <1>3, <3>1, <3>2, <3>3, OthersProbe
  <2>3. ASSUME NEW r \in Connections, NEW path \in DOMAIN Asked, NEW forwarded \in BOOLEAN,
               NEW refused \in BOOLEAN, Enter(r, path, forwarded, refused)
        PROVE  ProbeInv'
    <3>1. /\ at' = [at EXCEPT ![r] = at'[r]] /\ at'[r].step \in {"count", "handle"}
          /\ \E code \in {308, 429, 0} : status' = [status EXCEPT ![r] = code]
      BY <1>0, <2>3, EnterGoes DEF SeenBy
    <3>2. OnlyMoves(r) /\ status'[r] \in {308, 429, 0}
      BY <1>0, <3>1 DEF OnlyMoves, FlowType
    <3>3. probing' = probing /\ savable' = savable
      BY <2>3 DEF Enter, files
    <3>4. ProbeOf(r)'
      BY <3>1, <3>2 DEF ProbeOf
    <3> QED BY <1>3, <3>2, <3>3, <3>4, OthersProbe
  <2>4. ASSUME NEW r \in Connections, AnswerAtOnce(r) \/ NothingToLookUp(r) PROVE ProbeInv'
    <3>1. UNCHANGED <<probing, savable>>
      BY <2>4 DEF AnswerAtOnce, NothingToLookUp, files
    <3>2. Goes(r, "count", 200) /\ at[r].path # "/readyz"
      BY <1>0, <2>4, AnswerGoes, NothingGoes DEF FlowOf, CacheOf
    <3>3. "count" \in Steps \ {"remove"}
      BY DEF Steps, Returning
    <3> QED BY <3>1, <3>2, <3>3, <2>1
  <2>5. ASSUME NEW r \in Connections, NEW cache \in Caches, NEW entry, LookUp(r, cache, entry)
        PROVE  ProbeInv'
    <3>1. UNCHANGED <<probing, savable>>
      BY <2>5 DEF LookUp, files
    <3>2. at[r].path # "/readyz"
      BY <1>0, <2>5, LookUpGoes DEF FlowOf, CacheOf
    <3>3. PICK s \in {"lookup", "fetch", "count"}, code \in {status[r], 200} : Goes(r, s, code)
      BY <1>0, <2>5, LookUpGoes
    <3>4. s \in Steps \ {"remove"} /\ code \in {0, 200, 308, 429, 503}
      BY <1>0, <3>3 DEF Steps, Handling, Returning, FlowType
    <3> QED BY <3>1, <3>2, <3>3, <3>4, <2>1
  <2>6. ASSUME NEW r \in Connections, BeginFetch(r) PROVE ProbeInv'
    <3>1. UNCHANGED <<probing, savable>>
      BY <2>6 DEF BeginFetch, files
    <3>2. Goes(r, "fetching", status[r]) /\ status[r] \in {0, 200, 308, 429, 503}
      BY <1>0, <2>6, BeginFetchGoes DEF FlowType
    <3>3. "fetching" \in Steps \ {"remove"}
      BY DEF Steps, Handling
    <3> QED BY <3>1, <3>2, <3>3, <2>1
  <2>7. ASSUME NEW r \in Connections, NEW outcome, EndFetch(r, outcome) PROVE ProbeInv'
    <3>1. UNCHANGED <<probing, savable>>
      BY <2>7 DEF EndFetch, files
    <3>2. at[r].path # "/readyz"
      BY <1>0, <2>7, EndFetchGoes DEF FlowOf, CacheOf
    <3>3. PICK s \in {"lookup", "fetch", "count"}, code \in {status[r], 200} : Goes(r, s, code)
      BY <1>0, <2>7, EndFetchGoes
    <3>4. s \in Steps \ {"remove"} /\ code \in {0, 200, 308, 429, 503}
      BY <1>0, <3>3 DEF Steps, Handling, Returning, FlowType
    <3> QED BY <3>1, <3>2, <3>3, <3>4, <2>1
  <2>8. ASSUME NEW r \in Connections, Load(r) PROVE ProbeInv'
    <3>1. UNCHANGED <<probing, savable>>
      BY <2>8 DEF Load, files
    <3>2. at[r].path # "/readyz" /\ Goes(r, "count", 200)
      BY <1>0, <1>3, <2>8, <3>1, LoadGoes
    <3>3. "count" \in Steps \ {"remove"}
      BY DEF Steps, Returning
    <3> QED BY <3>1, <3>2, <3>3, <2>1
  <2>9. ASSUME NEW r \in Connections, CountRequest(r) \/ Count429(r) PROVE ProbeInv'
    <3>1. UNCHANGED <<probing, savable>>
      BY <2>9 DEF CountRequest, Count429, files
    <3>2. status[r] \in {0, 200, 308, 429, 503} /\ \E s \in {"count429", "log"} : Goes(r, s, status[r])
      BY <1>0, <2>9, CountRequestGoes, Count429Goes DEF FlowType
    <3>3. {"count429", "log"} \subseteq Steps \ {"remove"}
      BY DEF Steps, Returning
    <3> QED BY <3>1, <3>2, <3>3, <2>1
  <2>10. ASSUME NEW r \in Connections, MakeDir(r) PROVE ProbeInv'
    <3>1. UNCHANGED <<probing, savable>>
      BY <2>10 DEF MakeDir, Unready
    <3>2. PICK s \in {"create", "count"}, code \in {status[r], 503} : Goes(r, s, code)
      BY <1>0, <2>10, MakeDirGoes
    <3>3. OnlyMoves(r) /\ at'[r].step = s /\ status'[r] = code /\ at[r].step = "handle"
      BY <1>0, <2>10, <3>2, GoesOnlyMoves, MakeDirGoes
    <3>4. status'[r] # 200 /\ at'[r].step # "remove"
      BY <1>0, <3>2, <3>3 DEF FlowOf, Returning
    <3>5. ProbeOf(r)'
      BY <3>4 DEF ProbeOf
    <3> QED BY <1>3, <3>1, <3>3, <3>5, OthersProbe
  <2>11. ASSUME NEW r \in Connections, CreateTemp(r) PROVE ProbeInv'
    <3>1. PICK s \in {"remove", "count"}, code \in {status[r], 503} :
            Goes(r, s, code) /\ (s = "count" => code = 503)
      BY <1>0, <2>11, CreateTempGoes
    <3>2. OnlyMoves(r) /\ at'[r].step = s /\ status'[r] = code /\ at[r].step = "create"
      BY <1>0, <2>11, <3>1, GoesOnlyMoves, CreateTempGoes
    <3>3. status'[r] # 200
      BY <1>0, <3>1, <3>2 DEF FlowOf, Returning
    <3>4. /\ probing' \subseteq probing \union {r} /\ savable \subseteq savable'
          /\ at'[r].step = "remove" /\ config["cacheDir"] = CachesDir => r \in savable'
      <4>1. CASE /\ dir[ProbeDir] = "writable" /\ probing' = probing \union {r}
                 /\ savable' = IF dir[CachesDir] = "writable" THEN savable \union {r} ELSE savable
        BY <4>1 DEF ProbeDir
      <4>2. CASE Unready(r) /\ UNCHANGED probing
        BY <1>0, <4>2, ReplyGoes, GoesOnlyMoves DEF Unready
      <4> QED BY <2>11, <4>1, <4>2 DEF CreateTemp
    <3>5. ProbeOf(r)'
      BY <1>3, <3>3, <3>4 DEF ProbeOf
    <3> QED BY <1>3, <3>2, <3>4, <3>5, OthersProbe
  <2>12. ASSUME NEW r \in Connections, CloseAndRemove(r) PROVE ProbeInv'
    <3>1. /\ probing' = probing \ {r} /\ savable' = savable
      BY <2>12 DEF CloseAndRemove, Unready
    <3>2. PICK code \in {200, 503} : Goes(r, "count", code)
      BY <1>0, <2>12, CloseAndRemoveGoes
    <3>3. OnlyMoves(r) /\ at'[r].step = "count" /\ at[r].step = "remove"
      BY <1>0, <2>12, <3>2, GoesOnlyMoves, CloseAndRemoveGoes
    <3>4. ProbeOf(r)'
      BY <1>0, <1>3, <3>1, <3>3 DEF ProbeOf
    <3> QED BY <1>3, <3>1, <3>3, <3>4, OthersProbe
  <2>13. ASSUME NEW d, DirChanges(d) PROVE FALSE
    BY <1>3, <2>13 DEF DirChanges
  <2>14. ~Start /\ ~UNCHANGED vars
    BY <1>3 DEF Start, vars, process, files
  <2> QED BY <2>2, <2>3, <2>4, <2>5, <2>6, <2>7, <2>8, <2>9, <2>10, <2>11, <2>12, <2>13, <2>14
          DEF Next, Handler
<1> QED BY <1>1, <1>2, <1>3, ProcessKept DEF process

LEMMA ProbeInit == Init => ProbeInv
<1> SUFFICES ASSUME Init, NEW r \in Connections PROVE ProbeOf(r)
  BY DEF ProbeInv
<1>1. at[r].step = "idle" /\ status[r] = 0
  BY DEF Init, Idle
<1> QED BY <1>1 DEF ProbeOf

LEMMA ProbeInvariant == Spec => []ProbeInv
<1>1. Spec => []FlowInv
  BY FlowInvariant
<1>2. FlowInv /\ ProbeInv /\ [Next]_vars => ProbeInv'
  BY ProbeStep
<1> QED BY <1>1, <1>2, ProbeInit, PTL DEF Spec

\* Whatever happens to the directories between its steps, a probe that is answered
\* ready has left no file and has seen the directory it was to look at writable, and
\* a file that is left has cost some probe its answer.
THEOREM ReadyWasProven == Spec => []ReadyIsProven
<1>1. Spec => []ProbeInv
  BY ProbeInvariant
<1>2. Spec => []TallyInv
  BY TallyInvariant
<1>3. ProbeInv /\ TallyInv => ReadyIsProven
  <2> SUFFICES ASSUME ProbeInv, TallyInv PROVE ReadyIsProven
    OBVIOUS
  <2>1. filesLeft <= logged.unready + Cardinality({r \in Connections : status[r] = 503})
    BY DEF TallyInv, Tally, FoundUnready
  <2> QED BY <2>1 DEF ProbeInv, ProbeOf, ReadyIsProven
<1> QED BY <1>1, <1>2, <1>3, PTL

-----------------------------------------------------------------------------
(* The lookups and the fetches.                                            *)

Entries == {"unasked", "none", "stale", "current"}

FetchType ==
  /\ found \in [Connections -> [Caches -> [entry : Entries, fetches : Nat]]]
  /\ lookups \in [Caches -> Nat]

Unasked(r, cache) == found[r][cache].entry = "unasked" /\ found[r][cache].fetches = 0

\* The page that is tried next is one of those that are left, and a cache that the
\* request has not come to yet has nothing of it.
FetchOf(r) ==
  /\ \A cache \in Caches :
       /\ found[r][cache].fetches <= Pages[cache]
       /\ found[r][cache].fetches > 0 => found[r][cache].entry \in {"none", "stale"}
       /\ found[r][cache].entry \in {"none", "stale"} =>
            found[r][cache].fetches > 0 \/ (at[r].step = "fetch" /\ at[r].cache = cache)
  /\ at[r].step \in {"idle", "handle"} => \A cache \in Caches : Unasked(r, cache)
  /\ at[r].step = "lookup" => Unasked(r, "machine")
  /\ at[r].step \in {"fetch", "fetching"} =>
       /\ found[r][at[r].cache].entry \in {"none", "stale"}
       /\ found[r][at[r].cache].fetches + at[r].left = Pages[at[r].cache] /\ at[r].left >= 0
       /\ at[r].step = "fetch" => at[r].left > 0
       /\ at[r].cache = "item" => Unasked(r, "machine")

LookupsCounted == \A cache \in Caches : count[Hits(cache)] + count[Misses(cache)] = lookups[cache]

FetchInv == FetchType /\ LookupsCounted /\ \A r \in Connections : FetchOf(r)

LEMMA OthersFetch ==
  ASSUME FetchInv, NEW r \in Connections, OnlyMoves(r), FetchType', LookupsCounted',
         \A q \in Connections \ {r} : found'[q] = found[q], FetchOf(r)'
  PROVE  FetchInv'
<1>1. ASSUME NEW q \in Connections \ {r} PROVE FetchOf(q)'
  <2>1. at'[q] = at[q] /\ found'[q] = found[q]
    BY <1>1 DEF OnlyMoves
  <2> QED BY <2>1, <1>1 DEF FetchInv, FetchOf, Unasked
<1> QED BY <1>1 DEF FetchInv

\* What r has found in one cache changes, and nothing else that was found.
LEMMA FoundMoves ==
  ASSUME FetchType, NEW r \in Connections, NEW cache \in Caches, NEW entry \in Entries, NEW n \in Nat,
         found' = [found EXCEPT ![r][cache] = [entry |-> entry, fetches |-> n]]
  PROVE  /\ found' \in [Connections -> [Caches -> [entry : Entries, fetches : Nat]]]
         /\ \A q \in Connections \ {r} : found'[q] = found[q]
         /\ found'[r][cache].entry = entry /\ found'[r][cache].fetches = n
         /\ \A other \in Caches \ {cache} : found'[r][other] = found[r][other]
<1> DEFINE f == [entry |-> entry, fetches |-> n]
<1>1. f \in [entry : Entries, fetches : Nat] /\ f.entry = entry /\ f.fetches = n
  OBVIOUS
<1>2. found' = [found EXCEPT ![r][cache] = f]
  OBVIOUS
<1> HIDE DEF f
<1>3. found[r] \in [Caches -> [entry : Entries, fetches : Nat]]
  BY DEF FetchType
<1>4. found' = [found EXCEPT ![r] = [found[r] EXCEPT ![cache] = f]]
  BY <1>2
<1>5. found'[r] = [found[r] EXCEPT ![cache] = f] /\ \A q \in Connections \ {r} : found'[q] = found[q]
  BY <1>4 DEF FetchType
<1>6. [found[r] EXCEPT ![cache] = f] \in [Caches -> [entry : Entries, fetches : Nat]]
  BY <1>1, <1>3
<1>7. found' \in [Connections -> [Caches -> [entry : Entries, fetches : Nat]]]
  BY <1>4, <1>6 DEF FetchType
<1>8. found'[r][cache] = f /\ \A other \in Caches \ {cache} : found'[r][other] = found[r][other]
  BY <1>3, <1>5
<1> QED BY <1>1, <1>5, <1>7, <1>8

\* The counters of the caches are those of no other step.
LEMMA LookupsStay ==
  ASSUME LookupsCounted, lookups' = lookups,
         \A cache \in Caches : count'[Hits(cache)] = count[Hits(cache)]
                               /\ count'[Misses(cache)] = count[Misses(cache)]
  PROVE  LookupsCounted'
BY DEF LookupsCounted, Hits, Misses

LEMMA CountElsewhere ==
  ASSUME TallyType, LookupsCounted, lookups' = lookups, NEW n \in Nat,
         NEW name \in {"requests", "429", "fetches", "errors"}, count' = [count EXCEPT ![name] = @ + n]
  PROVE  LookupsCounted'
<1>1. name \in CounterNames
  BY DEF CounterNames
<1>2. \A cache \in Caches : {Hits(cache), Misses(cache)} \subseteq CounterNames \ {name}
  BY CacheCountersApart
<1>3. \A other \in CounterNames \ {name} : count'[other] = count[other]
  BY <1>1, CountMoves DEF TallyType
<1> QED BY <1>2, <1>3, LookupsStay

LEMMA PagesType == \A cache \in Caches : Pages[cache] \in Nat /\ Pages[cache] > 0
BY PipelineAssumption DEF Caches

\* A step of r that neither looks up nor fetches, and after which it does neither.
LEMMA FetchElsewhere ==
  ASSUME FetchInv, NEW r \in Connections, OnlyMoves(r), LookupsCounted', UNCHANGED <<found, lookups>>,
         at[r].step # "fetch", at'[r].step \notin {"idle", "handle", "lookup", "fetch", "fetching"}
  PROVE  FetchInv'
<1>1. FetchOf(r)
  BY DEF FetchInv
<1>2. FetchOf(r)'
  BY <1>1 DEF FetchOf
<1>3. FetchType'
  BY DEF FetchInv, FetchType
<1> QED BY <1>2, <1>3, OthersFetch

LEMMA FetchLookUp ==
  ASSUME FlowInv, TallyInv, FetchInv, NEW r \in Connections, NEW cache \in Caches,
         NEW entry \in {"none", "stale", "current"}, LookUp(r, cache, entry)
  PROVE  FetchInv'
<1>0. FlowType /\ FlowOf(r) /\ TallyType /\ FetchType /\ LookupsCounted /\ FetchOf(r)
  BY DEF FlowInv, TallyInv, FetchInv
<1>1. Unasked(r, cache) /\ (cache = "item" => Unasked(r, "machine"))
  BY <1>0, LookUpGoes, CachesAre DEF FlowOf, FetchOf
<1>2. found' = [found EXCEPT ![r][cache] = [entry |-> entry, fetches |-> found[r][cache].fetches]]
  BY DEF LookUp
<1>3. /\ FetchType' /\ \A q \in Connections \ {r} : found'[q] = found[q]
      /\ found'[r][cache].entry = entry /\ found'[r][cache].fetches = 0
      /\ \A other \in Caches \ {cache} : found'[r][other] = found[r][other]
  <2>1. found[r][cache].fetches \in Nat /\ entry \in Entries
    BY <1>0 DEF FetchType, Entries
  <2>2. lookups' \in [Caches -> Nat]
    BY <1>0 DEF LookUp, FetchType
  <2> QED BY <1>0, <1>1, <1>2, <2>1, <2>2, FoundMoves DEF FetchType, Unasked
<1>4. LookupsCounted'
  <2>1. lookups' = [lookups EXCEPT ![cache] = @ + 1] /\ CountLookup(cache, entry)
    BY DEF LookUp
  <2>2. count'[Hits(cache)] + count'[Misses(cache)] = lookups'[cache]
    BY <1>0, <2>1, LookupCounts DEF TallyType, FetchType, LookupsCounted
  <2>3. ASSUME NEW other \in Caches \ {cache}
        PROVE  count'[Hits(other)] + count'[Misses(other)] = lookups'[other]
    <3>1. {Hits(other), Misses(other)} \subseteq CounterNames \ {Hits(cache), Misses(cache)}
      BY CachesAre DEF Hits, Misses, CounterNames
    <3>2. count'[Hits(other)] = count[Hits(other)] /\ count'[Misses(other)] = count[Misses(other)]
      BY <1>0, <2>1, <3>1, LookupCounts DEF TallyType
    <3>3. lookups'[other] = lookups[other]
      BY <1>0, <2>1 DEF FetchType
    <3> QED BY <1>0, <3>2, <3>3 DEF LookupsCounted
  <2>4. \A other \in Caches : count'[Hits(other)] + count'[Misses(other)] = lookups'[other]
    BY <2>2, <2>3
  <2> QED BY <2>4 DEF LookupsCounted, Hits, Misses
<1>5. OnlyMoves(r) /\ at'[r].step \in {"lookup", "fetch", "count"}
  <2>1. PICK s \in {"lookup", "fetch", "count"}, code \in {status[r], 200, 503} : Goes(r, s, code)
    BY <1>0, LookUpGoes
  <2> QED BY <1>0, <2>1, GoesOnlyMoves
<1>6. FetchOf(r)'
  <2>1. ASSUME NEW other \in Caches
        PROVE  /\ found'[r][other].fetches <= Pages[other]
               /\ found'[r][other].fetches > 0 => found'[r][other].entry \in {"none", "stale"}
               /\ found'[r][other].entry \in {"none", "stale"} =>
                    \/ found'[r][other].fetches > 0
                    \/ at'[r].step = "fetch" /\ at'[r].cache = other
    <3>1. CASE other = cache
      <4>1. entry \in {"none", "stale"} => at'[r].step = "fetch" /\ at'[r].cache = cache
        BY <1>0, LookUpGoes, GoesOnlyMoves
      <4> QED BY <1>3, <3>1, <4>1, PagesType
    <3>2. CASE other # cache
      <4>1. found'[r][other] = found[r][other] /\ at[r].step \in {"handle", "lookup"}
        BY <1>0, <1>3, <3>2, LookUpGoes
      <4> QED BY <1>0, <4>1 DEF FetchOf
    <3> QED BY <3>1, <3>2
  <2>2. at'[r].step = "lookup" => Unasked(r, "machine")'
    <3>1. at'[r].step = "lookup" => cache = "item"
      BY <1>0, LookUpGoes, GoesOnlyMoves
    <3> QED BY <1>1, <1>3, <3>1, CachesAre DEF Unasked
  <2>3. at'[r].step \in {"fetch", "fetching"} =>
          /\ found'[r][at'[r].cache].entry \in {"none", "stale"}
          /\ found'[r][at'[r].cache].fetches + at'[r].left = Pages[at'[r].cache] /\ at'[r].left >= 0
          /\ at'[r].step = "fetch" => at'[r].left > 0
          /\ at'[r].cache = "item" => Unasked(r, "machine")'
    <3>1. at'[r].step \in {"fetch", "fetching"} =>
            entry # "current" /\ at'[r].cache = cache /\ at'[r].left = Pages[cache]
      BY <1>0, LookUpGoes, GoesOnlyMoves
    <3>2. cache = "item" => Unasked(r, "machine")'
      BY <1>1, <1>3, CachesAre DEF Unasked
    <3> QED BY <1>3, <3>1, <3>2, PagesType
  <2> QED BY <1>5, <2>1, <2>2, <2>3 DEF FetchOf
<1> QED BY <1>3, <1>4, <1>5, <1>6, OthersFetch

LEMMA FetchBegins ==
  ASSUME FlowInv, TallyInv, FetchInv, NEW r \in Connections, BeginFetch(r)
  PROVE  FetchInv'
<1>0. FlowType /\ FlowOf(r) /\ TallyType /\ FetchType /\ LookupsCounted /\ FetchOf(r)
  BY DEF FlowInv, TallyInv, FetchInv
<1> DEFINE cache == at[r].cache
<1> DEFINE entry == found[r][cache].entry
<1> DEFINE n == found[r][cache].fetches
<1>1. /\ at[r].step = "fetch" /\ OnlyMoves(r) /\ at'[r].step = "fetching"
      /\ at'[r].cache = cache /\ at'[r].left = at[r].left - 1
  BY <1>0, BeginFetchGoes, GoesOnlyMoves
<1>2. cache \in Caches /\ at[r].left \in Int
  BY <1>0 DEF FlowType, Requests
<1>3. entry \in Entries /\ n \in Nat /\ n + 1 \in Nat
  BY <1>0, <1>2 DEF FetchType
<1>4. /\ entry \in {"none", "stale"} /\ n + at[r].left = Pages[cache] /\ at[r].left > 0
      /\ cache = "item" => Unasked(r, "machine")
  BY <1>0, <1>1 DEF FetchOf
<1>5. /\ found' = [found EXCEPT ![r][cache] = [entry |-> entry, fetches |-> n + 1]]
      /\ lookups' = lookups /\ count' = [count EXCEPT !["fetches"] = @ + 1]
  BY DEF BeginFetch
<1>6. LookupsCounted'
  BY <1>0, <1>5, CountElsewhere
<1> HIDE DEF cache, entry, n
<1>7. /\ FetchType' /\ \A q \in Connections \ {r} : found'[q] = found[q]
      /\ found'[r][cache].entry = entry /\ found'[r][cache].fetches = n + 1
      /\ \A other \in Caches \ {cache} : found'[r][other] = found[r][other]
  BY <1>0, <1>2, <1>3, <1>5, FoundMoves DEF FetchType
<1>8. Pages[cache] \in Nat
  BY <1>2, PagesType
<1>9. cache = "item" => Unasked(r, "machine")'
  BY <1>4, <1>7, CachesAre DEF Unasked
<1>10. ASSUME NEW other \in Caches
       PROVE  /\ found'[r][other].fetches <= Pages[other]
              /\ found'[r][other].fetches > 0 => found'[r][other].entry \in {"none", "stale"}
              /\ found'[r][other].entry \in {"none", "stale"} => found'[r][other].fetches > 0
  <2>1. CASE other = cache
    BY <1>2, <1>3, <1>4, <1>7, <1>8, <2>1
  <2>2. CASE other # cache
    <3>1. found'[r][other] = found[r][other]
      BY <1>7, <2>2
    <3>2. at[r].cache # other
      BY <2>2 DEF cache
    <3> QED BY <1>0, <3>1, <3>2 DEF FetchOf
  <2> QED BY <2>1, <2>2
<1>11. found'[r][cache].fetches + at'[r].left = Pages[cache] /\ at'[r].left >= 0
  BY <1>1, <1>2, <1>3, <1>4, <1>7, <1>8
<1>12. FetchOf(r)'
  BY <1>1, <1>4, <1>7, <1>9, <1>10, <1>11 DEF FetchOf
<1> QED BY <1>1, <1>6, <1>7, <1>12, OthersFetch

LEMMA FetchEnds ==
  ASSUME FlowInv, TallyInv, FetchInv, NEW r \in Connections, NEW outcome, EndFetch(r, outcome)
  PROVE  FetchInv'
<1>0. FlowType /\ TallyType /\ FetchType /\ LookupsCounted /\ FetchOf(r)
  BY DEF FlowInv, TallyInv, FetchInv
<1>1. UNCHANGED <<found, lookups>> /\ LookupsCounted'
  <2> DEFINE n == IF outcome = "error" THEN 1 ELSE 0
  <2>1. n \in Nat /\ UNCHANGED <<found, lookups>> /\ count' = [count EXCEPT !["errors"] = @ + n]
    BY DEF EndFetch
  <2> HIDE DEF n
  <2> QED BY <1>0, <2>1, CountElsewhere
<1>2. at[r].step = "fetching"
  BY <1>0, EndFetchGoes
<1>3. CASE Goes(r, "count", 200)
  BY <1>0, <1>1, <1>2, <1>3, GoesOnlyMoves, FetchElsewhere
<1>4. FetchType' /\ \A q \in Connections \ {r} : found'[q] = found[q]
  BY <1>0, <1>1 DEF FetchType
<1>5. CASE at[r].cache = "item" /\ Goes(r, "lookup", status[r]) /\ at'[r].cache = "machine"
  <2>1. OnlyMoves(r) /\ at'[r].step = "lookup"
    BY <1>0, <1>5, GoesOnlyMoves
  <2>2. FetchOf(r)'
    BY <1>0, <1>1, <1>2, <1>5, <2>1 DEF FetchOf, Unasked
  <2> QED BY <1>1, <1>4, <2>1, <2>2, OthersFetch
<1>6. CASE /\ at[r].left > 0 /\ Goes(r, "fetch", status[r])
           /\ at'[r].cache = at[r].cache /\ at'[r].left = at[r].left
  <2>1. OnlyMoves(r) /\ at'[r].step = "fetch"
    BY <1>0, <1>6, GoesOnlyMoves
  <2>2. FetchOf(r)'
    BY <1>0, <1>1, <1>2, <1>6, <2>1 DEF FetchOf, Unasked
  <2> QED BY <1>1, <1>4, <2>1, <2>2, OthersFetch
<1> QED BY <1>0, <1>3, <1>5, <1>6, EndFetchGoes

LEMMA FetchStep ==
  ASSUME FlowInv, TallyInv, FetchInv, [Next]_vars
  PROVE  FetchInv'
<1>0. FlowType /\ TallyType /\ FetchType /\ LookupsCounted /\ \A r \in Connections : FlowOf(r) /\ FetchOf(r)
  BY DEF FlowInv, TallyInv, FetchInv
<1>1. CASE UNCHANGED <<at, found, lookups, count>>
  <2>1. FetchType'
    BY <1>0, <1>1 DEF FetchType
  <2>2. LookupsCounted'
    BY <1>0, <1>1, LookupsStay
  <2>3. \A r \in Connections : FetchOf(r)'
    BY <1>0, <1>1 DEF FetchOf, Unasked
  <2> QED BY <2>1, <2>2, <2>3 DEF FetchInv
<1>2. ASSUME NEW r \in Connections, AnswerAtOnce(r) \/ NothingToLookUp(r) \/ MakeDir(r)
             \/ CreateTemp(r) \/ CloseAndRemove(r)
      PROVE  FetchInv'
  <2>1. UNCHANGED <<found, lookups, count>>
    BY <1>2 DEF AnswerAtOnce, NothingToLookUp, MakeDir, CreateTemp, CloseAndRemove, ProbeKeeps, fetching
  <2>2. /\ at[r].step # "fetch"
        /\ \E s \in {"create", "remove", "count"}, code \in {status[r], 200, 503} : Goes(r, s, code)
    BY <1>0, <1>2, AnswerGoes, NothingGoes, MakeDirGoes, CreateTempGoes, CloseAndRemoveGoes
       DEF Handling
  <2>3. OnlyMoves(r) /\ at'[r].step \in {"create", "remove", "count"}
    BY <1>0, <2>2, GoesOnlyMoves
  <2> QED BY <1>0, <2>1, <2>2, <2>3, LookupsStay, FetchElsewhere
<1>3. ASSUME NEW r \in Connections, Load(r) PROVE FetchInv'
  <2>1. UNCHANGED <<found, lookups, count>>
    BY <1>3 DEF Load, fetching
  <2>2. at[r].step = "handle" /\ (Goes(r, "count", 200) \/ UNCHANGED at)
    BY <1>0, <1>3, LoadGoes
  <2>3. CASE Goes(r, "count", 200)
    BY <1>0, <2>1, <2>2, <2>3, GoesOnlyMoves, LookupsStay, FetchElsewhere
  <2> QED BY <1>1, <2>1, <2>2, <2>3
<1>4. ASSUME NEW r \in Connections, CountRequest(r) \/ Count429(r) PROVE FetchInv'
  <2>1. UNCHANGED <<found, lookups>>
    BY <1>4 DEF CountRequest, Count429
  <2>2. LookupsCounted'
    <3>1. PICK name \in {"requests", "429"} : count' = [count EXCEPT ![name] = @ + 1]
      BY <1>4 DEF CountRequest, Count429
    <3> QED BY <1>0, <2>1, <3>1, CountElsewhere
  <2>3. /\ at[r].step \in {"count", "count429"}
        /\ \E s \in {"count429", "log"}, code \in {status[r], 200, 503} : Goes(r, s, code)
    BY <1>0, <1>4, CountRequestGoes, Count429Goes
  <2>4. OnlyMoves(r) /\ at'[r].step \in {"count429", "log"}
    BY <1>0, <2>3, GoesOnlyMoves
  <2> QED BY <2>1, <2>2, <2>3, <2>4, FetchElsewhere
<1>5. ASSUME NEW r \in Connections, Panic(r) \/ Log(r) PROVE FetchInv'
  <2>1. UNCHANGED <<lookups, count>> /\ found' = [found EXCEPT ![r] = NothingFound]
    BY <1>5 DEF Panic, Log, Free
  <2>2. OnlyMoves(r) /\ at'[r].step = "idle"
    BY <1>0, <1>5, FreeOnlyMoves DEF Panic, Log
  <2>3. /\ NothingFound \in [Caches -> [entry : Entries, fetches : Nat]]
        /\ \A cache \in Caches : NothingFound[cache].entry = "unasked" /\ NothingFound[cache].fetches = 0
    BY DEF NothingFound, Entries
  <2>4. /\ FetchType' /\ found'[r] = NothingFound
        /\ \A q \in Connections \ {r} : found'[q] = found[q]
    BY <1>0, <2>1, <2>3 DEF FetchType
  <2>5. FetchOf(r)'
    BY <2>2, <2>3, <2>4, PagesType DEF FetchOf, Unasked
  <2> QED BY <1>0, <2>1, <2>2, <2>4, <2>5, LookupsStay, OthersFetch
<1>6. ASSUME NEW r \in Connections, NEW path \in DOMAIN Asked, NEW forwarded \in BOOLEAN,
             NEW refused \in BOOLEAN, Enter(r, path, forwarded, refused)
      PROVE  FetchInv'
  <2>1. UNCHANGED <<found, lookups, count>>
    BY <1>6 DEF Enter, fetching
  <2>2. /\ at[r].step = "idle" /\ at' = [at EXCEPT ![r] = at'[r]]
        /\ at'[r].step \in {"count", "handle"}
        /\ \E code \in {308, 429, 0} : status' = [status EXCEPT ![r] = code]
    BY <1>0, <1>6, EnterGoes DEF SeenBy
  <2>3. OnlyMoves(r)
    BY <1>0, <2>2 DEF OnlyMoves, FlowType
  <2>4. FetchOf(r)'
    BY <1>0, <2>1, <2>2, PagesType DEF FetchOf, Unasked
  <2>5. FetchType' /\ \A q \in Connections \ {r} : found'[q] = found[q]
    BY <1>0, <2>1 DEF FetchType
  <2> QED BY <1>0, <2>1, <2>3, <2>4, <2>5, LookupsStay, OthersFetch
<1>7. CASE Start \/ (\E d \in DOMAIN dir : DirChanges(d)) \/ UNCHANGED vars
  BY <1>1, <1>7 DEF Start, DirChanges, vars, fetching
<1> QED BY <1>2, <1>3, <1>4, <1>5, <1>6, <1>7, FetchLookUp, FetchBegins, FetchEnds
        DEF Next, Handler

LEMMA FetchInit == Init => FetchInv
<1> SUFFICES ASSUME Init PROVE FetchInv
  OBVIOUS
<1>1. FetchType
  BY DEF Init, FetchType, NothingFound, Entries
<1>2. LookupsCounted
  <2>1. \A name \in CounterNames : count[name] = 0
    BY RangeLoads DEF Init, NothingShown
  <2>2. \A cache \in Caches : lookups[cache] = 0
    BY DEF Init
  <2> QED BY <2>1, <2>2, CacheCountersApart DEF LookupsCounted
<1>3. ASSUME NEW r \in Connections PROVE FetchOf(r)
  <2>1. at[r].step = "idle"
    BY DEF Init, Idle
  <2>2. \A cache \in Caches : Unasked(r, cache)
    BY DEF Init, NothingFound, Unasked
  <2> QED BY <2>1, <2>2, PagesType DEF FetchOf, Unasked
<1> QED BY <1>1, <1>2, <1>3 DEF FetchInv

LEMMA FetchInvariant == Spec => []FetchInv
<1>1. Spec => []FlowInv /\ []TallyInv
  BY FlowInvariant, TallyInvariant
<1>2. FlowInv /\ TallyInv /\ FetchInv /\ [Next]_vars => FetchInv'
  BY FetchStep
<1> QED BY <1>1, <1>2, FetchInit, PTL DEF Spec

\* However requests, lookups and fetches come between each other, the counters add up.
THEOREM EachIsCountedOnce == Spec => []CountersAddUp
<1>1. Spec => []TallyInv /\ []FetchInv
  BY TallyInvariant, FetchInvariant
<1>2. TallyInv /\ FetchInv => CountersAddUp
  <2> SUFFICES ASSUME TallyInv, FetchInv PROVE CountersAddUp
    OBVIOUS
  <2>1. ASSUME NEW cache \in Caches, NEW r \in Connections
        PROVE  /\ found[r][cache].fetches <= Pages[cache]
               /\ found[r][cache].fetches > 0 => found[r][cache].entry \in {"none", "stale"}
               /\ at[r].step \in Returning /\ found[r][cache].entry \in {"none", "stale"} =>
                    found[r][cache].fetches > 0
    BY DEF FetchInv, FetchOf, Returning
  <2>2. \A cache \in Caches : count[Hits(cache)] + count[Misses(cache)] = lookups[cache]
    BY DEF FetchInv, LookupsCounted
  <2>3. ASSUME InProgress = {}
        PROVE  /\ came = logged.all + aborted
               /\ count["requests"] = logged.all /\ count["429"] = logged.refused
    <3>1. Counted = {} /\ CountedRefusals = {}
      BY <2>3 DEF InProgress, Counted, CountedRefusals
    <3>2. Cardinality({}) = 0
      BY FS_EmptySet
    <3>3. came \in Nat /\ logged.all \in Nat /\ logged.refused \in Nat /\ aborted \in Nat
      BY DEF TallyInv, TallyType
    <3> QED BY <2>3, <3>1, <3>2, <3>3 DEF TallyInv, Tally
  <2> QED BY <2>1, <2>2, <2>3, TallyCompares DEF CountersAddUp, Hits, Misses
<1> QED BY <1>1, <1>2, PTL

-----------------------------------------------------------------------------
(* The scrapes.                                                            *)

CountGrows == \A name \in CounterNames : count'[name] >= count[name]

\* No step takes anything from a counter.
LEMMA CountersGrow ==
  ASSUME TallyType, [Next]_vars
  PROVE  CountGrows
<1>1. CASE UNCHANGED count
  BY <1>1 DEF CountGrows, TallyType
<1>2. ASSUME NEW n \in Nat, NEW counter \in {"requests", "429", "fetches", "errors"},
             count' = [count EXCEPT ![counter] = @ + n]
      PROVE  CountGrows
  <2>1. counter \in CounterNames
    BY DEF CounterNames
  <2>2. count'[counter] = count[counter] + n
        /\ \A name \in CounterNames \ {counter} : count'[name] = count[name]
    BY <1>2, <2>1, CountMoves DEF TallyType
  <2> QED BY <2>1, <2>2 DEF CountGrows, TallyType
<1>3. ASSUME NEW r \in Connections, NEW cache \in Caches, NEW entry, LookUp(r, cache, entry)
      PROVE  CountGrows
  BY <1>3, LookupCounts DEF LookUp, TallyType, CountGrows
<1>4. ASSUME NEW r \in Connections, BeginFetch(r) \/ CountRequest(r) \/ Count429(r) PROVE CountGrows
  BY <1>2, <1>4 DEF BeginFetch, CountRequest, Count429
<1>5. ASSUME NEW r \in Connections, NEW outcome, EndFetch(r, outcome) PROVE CountGrows
  <2> DEFINE n == IF outcome = "error" THEN 1 ELSE 0
  <2>1. n \in Nat /\ count' = [count EXCEPT !["errors"] = @ + n]
    BY <1>5 DEF EndFetch
  <2> HIDE DEF n
  <2> QED BY <1>2, <2>1
<1>6. ASSUME NEW r \in Connections,
             AnswerAtOnce(r) \/ Panic(r) \/ NothingToLookUp(r) \/ Load(r) \/ MakeDir(r)
             \/ CreateTemp(r) \/ CloseAndRemove(r) \/ Log(r)
      PROVE  CountGrows
  BY <1>1, <1>6 DEF AnswerAtOnce, Panic, NothingToLookUp, Load, MakeDir, CreateTemp, CloseAndRemove,
                    ProbeKeeps, Log, fetching
<1>7. ASSUME NEW r \in Connections, NEW path, NEW forwarded, NEW refused,
             Enter(r, path, forwarded, refused)
      PROVE  CountGrows
  BY <1>1, <1>7 DEF Enter, fetching
<1>8. CASE Start \/ (\E d \in DOMAIN dir : DirChanges(d)) \/ UNCHANGED vars
  BY <1>1, <1>8 DEF Start, DirChanges, vars, fetching
<1> QED BY <1>3, <1>4, <1>5, <1>6, <1>7, <1>8 DEF Next, Handler

ScrapeType ==
  /\ report \in [Connections -> Seq(Nat)]
  /\ earlier \in [Connections -> [CounterNames -> Nat]]
  /\ shown \in [CounterNames -> Nat]

\* What a scrape has loaded lies between what was shown when it began and what the
\* counters are now; and it compares the first and the third number with what was
\* shown of two others.
ScrapeOf(r) ==
  /\ Len(report[r]) <= 8
  /\ at[r].step = "idle" => report[r] = <<>>
  /\ at[r].step = "handle" => Len(report[r]) < 8
  /\ \A i \in 1 .. Len(report[r]) :
       earlier[r][Loads[i]] <= report[r][i] /\ report[r][i] <= count[Loads[i]]
  /\ Len(report[r]) >= 1 => earlier[r]["429"] <= report[r][1]
  /\ Len(report[r]) >= 3 => earlier[r]["errors"] <= report[r][3]
  /\ \A name \in CounterNames : earlier[r][name] <= count[name]

NoneShownTooMuch == \A name \in CounterNames : shown[name] <= count[name]

ScrapeInv == ScrapeType /\ NoneShownTooMuch /\ \A r \in Connections : ScrapeOf(r)

\* A request whose report stays as it is, while the counters grow.
LEMMA ReportStays ==
  ASSUME TallyType, TallyType', CountGrows, ScrapeInv, NEW r \in Connections,
         report'[r] = report[r], earlier'[r] = earlier[r],
         at'[r].step = "idle" => at[r].step = "idle",
         at'[r].step = "handle" => at[r].step \in {"idle", "handle"}
  PROVE  ScrapeOf(r)'
<1>1. ScrapeOf(r) /\ report[r] \in Seq(Nat) /\ earlier[r] \in [CounterNames -> Nat]
  BY DEF ScrapeInv, ScrapeType
<1>2. \A name \in CounterNames : count[name] \in Nat /\ count'[name] \in Nat /\ count[name] <= count'[name]
  BY DEF TallyType, CountGrows
<1>3. \A name \in CounterNames : earlier'[r][name] <= count'[name]
  BY <1>1, <1>2 DEF ScrapeOf
<1>4. ASSUME NEW i \in 1 .. Len(report'[r])
      PROVE  earlier'[r][Loads[i]] <= report'[r][i] /\ report'[r][i] <= count'[Loads[i]]
  <2>1. i \in 1 .. Len(report[r]) /\ i \in 1 .. 8 /\ report[r][i] \in Nat
    BY <1>1, <1>4 DEF ScrapeOf
  <2>2. Loads[i] \in CounterNames
    BY <2>1, LoadsAre, RangeLoads DEF Range
  <2>3. earlier[r][Loads[i]] <= report[r][i] /\ report[r][i] <= count[Loads[i]]
    BY <1>1, <2>1 DEF ScrapeOf
  <2> QED BY <1>2, <2>1, <2>2, <2>3
<1>5. /\ at'[r].step = "idle" => report'[r] = <<>>
      /\ at'[r].step = "handle" => Len(report'[r]) < 8
  BY <1>1 DEF ScrapeOf
<1> QED BY <1>1, <1>3, <1>4, <1>5 DEF ScrapeOf

LEMMA ShownStays ==
  ASSUME TallyType, TallyType', CountGrows, ScrapeInv, shown' = shown
  PROVE  NoneShownTooMuch'
BY DEF TallyType, CountGrows, ScrapeInv, ScrapeType, NoneShownTooMuch

LEMMA ScrapingStays ==
  ASSUME TallyType, TallyType', CountGrows, ScrapeInv, UNCHANGED scraping,
         \A r \in Connections : at'[r].step = "idle" => at[r].step = "idle",
         \A r \in Connections : at'[r].step = "handle" => at[r].step \in {"idle", "handle"}
  PROVE  ScrapeInv'
<1>1. ScrapeType' /\ shown' = shown
  BY DEF scraping, ScrapeInv, ScrapeType
<1>2. \A r \in Connections : ScrapeOf(r)'
  BY ReportStays DEF scraping
<1> QED BY <1>1, <1>2, ShownStays DEF ScrapeInv

\* The place of a counter in what metricsHandler loads.
LEMMA PlaceOf ==
  ASSUME NEW counter \in CounterNames
  PROVE  LET i == CHOOSE i \in DOMAIN Loads : Loads[i] = counter
         IN  /\ i \in 1 .. 8 /\ Loads[i] = counter
             /\ counter = "requests" => i = 1
             /\ counter = "fetches" => i = 3
<1> DEFINE i == CHOOSE i \in DOMAIN Loads : Loads[i] = counter
<1>1. \E j \in DOMAIN Loads : Loads[j] = counter
  BY RangeLoads DEF Range
<1>2. i \in DOMAIN Loads /\ Loads[i] = counter
  BY <1>1
<1> HIDE DEF i
<1>3. i \in 1 .. 8
  BY <1>2, LoadsAre
<1>4. \/ i = 1 \/ i = 2 \/ i = 3 \/ i = 4 \/ i = 5 \/ i = 6 \/ i = 7 \/ i = 8
  BY <1>3
<1>5. (counter = "requests" => i = 1) /\ (counter = "fetches" => i = 3)
  BY <1>2, <1>4, LoadsAre
<1> QED BY <1>2, <1>3, <1>5 DEF i

\* The next number is no smaller than what was shown of any counter it is compared with.
LEMMA ScrapeLoads ==
  ASSUME FlowInv, TallyInv, ScrapeInv, NEW r \in Connections, Load(r)
  PROVE  ScrapeInv'
<1>0. /\ FlowType /\ TallyType /\ ScrapeType /\ ScrapeOf(r)
      /\ \A name \in CounterNames : shown[name] <= count[name]
  BY DEF FlowInv, TallyInv, ScrapeInv, NoneShownTooMuch
<1>1. count' = count /\ at[r].step = "handle" /\ ReportNext(r)
  BY DEF Load, Handles, fetching
<1>2. TallyType' /\ CountGrows
  <2>1. TallyType'
    BY <1>0, <1>1 DEF TallyType, Load, log, files
  <2> QED BY <1>0, <1>1, <2>1 DEF TallyType, CountGrows
<1> DEFINE old == report[r]
<1> DEFINE n == Len(old) + 1
<1> DEFINE was == IF old = <<>> THEN shown ELSE earlier[r]
<1>3. old \in Seq(Nat) /\ n \in 1 .. 8 /\ Len(old) \in Nat
  <2>1. old \in Seq(Nat)
    BY <1>0 DEF ScrapeType
  <2>2. Len(old) \in Nat
    BY <2>1
  <2>3. Len(old) < 8
    BY <1>0, <1>1 DEF ScrapeOf
  <2> HIDE DEF old
  <2> QED BY <2>1, <2>2, <2>3
<1>4. Loads[n] \in CounterNames /\ count[Loads[n]] \in Nat
  BY <1>0, <1>3, LoadsAre, RangeLoads DEF Range, TallyType
<1>5. /\ report' \in [Connections -> Seq(Nat)] /\ report'[r] = Append(old, count[Loads[n]])
      /\ \A q \in Connections \ {r} : report'[q] = report[q]
  <2>1. report' = [report EXCEPT ![r] = Append(old, count[Loads[n]])]
    BY <1>1 DEF ReportNext
  <2>2. Append(old, count[Loads[n]]) \in Seq(Nat)
    BY <1>3, <1>4
  <2> HIDE DEF old, n
  <2> QED BY <1>0, <2>1, <2>2 DEF ScrapeType
<1>6. /\ earlier' \in [Connections -> [CounterNames -> Nat]] /\ earlier'[r] = was
      /\ \A q \in Connections \ {r} : earlier'[q] = earlier[q]
  BY <1>0, <1>1 DEF ReportNext, ScrapeType
<1>7. \A name \in CounterNames : was[name] \in Nat /\ was[name] <= count[name]
  BY <1>0 DEF ScrapeType, ScrapeOf
<1>8. /\ Len(report'[r]) = n /\ report'[r][n] = count[Loads[n]]
      /\ \A i \in 1 .. n - 1 : report'[r][i] = old[i] /\ was = earlier[r]
  BY <1>3, <1>4, <1>5
<1>9. was["429"] <= count["requests"] /\ was["errors"] <= count["fetches"]
  <2>1. {"429", "errors", "requests", "fetches"} \subseteq CounterNames
    BY DEF CounterNames
  <2>2. /\ count["429"] \in Nat /\ count["errors"] \in Nat
        /\ count["requests"] \in Nat /\ count["fetches"] \in Nat
    BY <1>0, <2>1 DEF TallyType
  <2> QED BY <1>7, <2>1, <2>2, TallyCompares
<1> HIDE DEF old, n, was
<1>10. ASSUME NEW i \in 1 .. Len(report'[r])
       PROVE  earlier'[r][Loads[i]] <= report'[r][i] /\ report'[r][i] <= count'[Loads[i]]
  <2>1. CASE i = n
    BY <1>1, <1>4, <1>6, <1>7, <1>8, <2>1
  <2>2. CASE i # n
    <3>1. i \in 1 .. n - 1 /\ i \in 1 .. Len(old)
      BY <1>3, <1>8, <1>10, <2>2 DEF n
    <3> QED BY <1>0, <1>1, <1>6, <1>8, <3>1 DEF ScrapeOf, old
  <2> QED BY <2>1, <2>2
<1>11. earlier'[r]["429"] <= report'[r][1]
  <2>1. CASE n = 1
    BY <1>6, <1>8, <1>9, <2>1, LoadsAre
  <2>2. CASE n # 1
    <3>1. 1 \in 1 .. n - 1 /\ Len(old) >= 1
      BY <1>3, <2>2 DEF n
    <3> QED BY <1>0, <1>6, <1>8, <3>1 DEF ScrapeOf, old
  <2> QED BY <2>1, <2>2
<1>12. Len(report'[r]) >= 3 => earlier'[r]["errors"] <= report'[r][3]
  <2>1. CASE n = 3
    BY <1>6, <1>8, <1>9, <2>1, LoadsAre
  <2>2. CASE n > 3
    <3>1. 3 \in 1 .. n - 1 /\ Len(old) >= 3
      BY <1>3, <2>2 DEF n
    <3> QED BY <1>0, <1>6, <1>8, <3>1 DEF ScrapeOf, old
  <2> QED BY <1>3, <1>8, <2>1, <2>2
<1>13. \A name \in CounterNames : earlier'[r][name] <= count'[name]
  BY <1>1, <1>6, <1>7
<1>14. /\ Len(report'[r]) <= 8
       /\ OnlyMoves(r) /\ IF n = 8 THEN at'[r].step = "count" ELSE at'[r].step = "handle"
  <2>1. CASE n = 8
    <3>1. Goes(r, "count", 200)
      BY <1>0, <1>8, <2>1, LoadsAre, LoadGoes
    <3>2. OnlyMoves(r) /\ at'[r].step = "count"
      BY <1>0, <3>1, GoesOnlyMoves
    <3> QED BY <1>8, <2>1, <3>2
  <2>2. CASE n # 8
    <3>1. at' = at /\ status' = status
      BY <1>0, <1>8, <2>2, LoadsAre, LoadGoes
    <3> QED BY <1>1, <1>3, <1>8, <2>2, <3>1 DEF OnlyMoves
  <2> QED BY <2>1, <2>2
<1>15. ScrapeOf(r)'
  BY <1>3, <1>8, <1>10, <1>11, <1>12, <1>13, <1>14 DEF ScrapeOf
<1>16. \A q \in Connections \ {r} : ScrapeOf(q)'
  BY <1>0, <1>2, <1>5, <1>6, <1>14, ReportStays DEF OnlyMoves
<1>17. shown' \in [CounterNames -> Nat] /\ NoneShownTooMuch'
  <2>1. CASE shown' = shown
    BY <1>0, <1>2, <2>1, ShownStays DEF ScrapeType
  <2>2. CASE shown' # shown
    <3>1. /\ Len(report'[r]) = 8
          /\ shown' = [counter \in CounterNames |->
                         LET i == CHOOSE i \in DOMAIN Loads : Loads[i] = counter
                         IN  Larger(shown[counter], report'[r][i])]
      BY <1>1, <2>2, LoadsAre, RangeLoads DEF ReportNext
    <3>2. ASSUME NEW counter \in CounterNames
          PROVE  shown'[counter] \in Nat /\ shown'[counter] <= count[counter]
      <4> DEFINE i == CHOOSE i \in DOMAIN Loads : Loads[i] = counter
      <4>1. i \in 1 .. 8 /\ Loads[i] = counter
        BY PlaceOf
      <4>2. shown'[counter] = Larger(shown[counter], report'[r][i])
        BY <3>1
      <4> HIDE DEF i
      <4>3. report'[r][i] \in Nat /\ report'[r][i] <= count[counter]
        <5>1. i \in 1 .. Len(report'[r])
          BY <3>1, <4>1
        <5>2. report'[r] \in Seq(Nat)
          BY <1>5
        <5>3. report'[r][i] \in Nat
          BY <5>1, <5>2
        <5>4. report'[r][i] <= count'[Loads[i]]
          BY <1>10, <5>1
        <5> QED BY <1>1, <4>1, <5>3, <5>4
      <4> QED BY <1>0, <4>2, <4>3 DEF Larger, ScrapeType
    <3>3. shown' \in [CounterNames -> Nat]
      BY <3>1, <3>2
    <3> QED BY <1>1, <3>2, <3>3 DEF NoneShownTooMuch
  <2> QED BY <2>1, <2>2
<1> QED BY <1>5, <1>6, <1>15, <1>16, <1>17 DEF ScrapeInv, ScrapeType

LEMMA ScrapeStep ==
  ASSUME FlowInv, TallyInv, TallyInv', ScrapeInv, [Next]_vars
  PROVE  ScrapeInv'
<1>0. /\ FlowType /\ TallyType /\ TallyType' /\ ScrapeType /\ CountGrows
      /\ \A r \in Connections : FlowOf(r) /\ ScrapeOf(r)
  BY CountersGrow DEF FlowInv, TallyInv, ScrapeInv
\* A step of r that is not a scrape's, and where it leads.
<1>1. ASSUME NEW r \in Connections, OnlyMoves(r), UNCHANGED scraping,
             at'[r].step \notin {"idle", "handle"}
      PROVE  ScrapeInv'
  BY <1>0, <1>1, ScrapingStays DEF OnlyMoves
<1>2. ASSUME NEW r \in Connections, AnswerAtOnce(r) \/ NothingToLookUp(r) \/ MakeDir(r)
             \/ CreateTemp(r) \/ CloseAndRemove(r) \/ CountRequest(r) \/ Count429(r)
      PROVE  ScrapeInv'
  <2>1. UNCHANGED scraping
    BY <1>2 DEF AnswerAtOnce, NothingToLookUp, MakeDir, CreateTemp, CloseAndRemove, ProbeKeeps,
                CountRequest, Count429
  <2>2. PICK s \in {"count", "create", "remove", "count429", "log"}, code \in {status[r], 200, 503} : Goes(r, s, code)
    BY <1>0, <1>2, AnswerGoes, NothingGoes, MakeDirGoes, CreateTempGoes, CloseAndRemoveGoes,
       CountRequestGoes, Count429Goes
  <2> QED BY <1>0, <1>1, <2>1, <2>2, GoesOnlyMoves
<1>3. ASSUME NEW r \in Connections, BeginFetch(r) PROVE ScrapeInv'
  <2>1. UNCHANGED scraping
    BY <1>3 DEF BeginFetch
  <2>2. Goes(r, "fetching", status[r])
    BY <1>0, <1>3, BeginFetchGoes
  <2> QED BY <1>0, <1>1, <2>1, <2>2, GoesOnlyMoves
<1>4. ASSUME NEW r \in Connections, NEW cache \in Caches, NEW entry, LookUp(r, cache, entry)
      PROVE  ScrapeInv'
  <2>1. UNCHANGED scraping
    BY <1>4 DEF LookUp
  <2>2. PICK s \in {"lookup", "fetch", "count"}, code \in {status[r], 200, 503} : Goes(r, s, code)
    BY <1>0, <1>4, LookUpGoes
  <2> QED BY <1>0, <1>1, <2>1, <2>2, GoesOnlyMoves
<1>5. ASSUME NEW r \in Connections, NEW outcome, EndFetch(r, outcome) PROVE ScrapeInv'
  <2>1. UNCHANGED scraping
    BY <1>5 DEF EndFetch
  <2>2. PICK s \in {"lookup", "fetch", "count"}, code \in {status[r], 200, 503} : Goes(r, s, code)
    BY <1>0, <1>5, EndFetchGoes
  <2> QED BY <1>0, <1>1, <2>1, <2>2, GoesOnlyMoves
<1>6. ASSUME NEW r \in Connections, Panic(r) \/ Log(r) PROVE ScrapeInv'
  <2>1. /\ report' = [report EXCEPT ![r] = <<>>] /\ earlier' = [earlier EXCEPT ![r] = NothingShown]
        /\ shown' = shown
    BY <1>6 DEF Panic, Log, Free
  <2>2. OnlyMoves(r) /\ at'[r].step = "idle"
    BY <1>0, <1>6, FreeOnlyMoves DEF Panic, Log
  <2>3. /\ NothingShown \in [CounterNames -> Nat]
        /\ \A name \in CounterNames : NothingShown[name] = 0
    BY RangeLoads DEF NothingShown
  <2>4. ScrapeType' /\ report'[r] = <<>> /\ earlier'[r] = NothingShown
    BY <1>0, <2>1, <2>3 DEF ScrapeType
  <2>5. ScrapeOf(r)'
    <3>1. \A name \in CounterNames : earlier'[r][name] <= count'[name]
      BY <1>0, <2>3, <2>4 DEF TallyType
    <3>2. Len(report'[r]) = 0
      BY <2>4
    <3> QED BY <2>2, <2>4, <3>1, <3>2 DEF ScrapeOf
  <2>6. ASSUME NEW q \in Connections \ {r} PROVE ScrapeOf(q)'
    <3>1. report'[q] = report[q] /\ earlier'[q] = earlier[q] /\ at'[q] = at[q]
      BY <1>0, <2>1, <2>2 DEF ScrapeType, OnlyMoves
    <3> QED BY <1>0, <3>1, ReportStays
  <2> QED BY <1>0, <2>1, <2>4, <2>5, <2>6, ShownStays DEF ScrapeInv
<1>7. ASSUME NEW r \in Connections, NEW path \in DOMAIN Asked, NEW forwarded \in BOOLEAN,
             NEW refused \in BOOLEAN, Enter(r, path, forwarded, refused)
      PROVE  ScrapeInv'
  <2>1. UNCHANGED scraping
    BY <1>7 DEF Enter
  <2>2. at[r].step = "idle" /\ at' = [at EXCEPT ![r] = at'[r]] /\ at'[r].step \in {"count", "handle"}
    BY <1>0, <1>7, EnterGoes DEF SeenBy
  <2>3. \A q \in Connections \ {r} : at'[q] = at[q]
    BY <1>0, <2>2 DEF FlowType
  <2> QED BY <1>0, <2>1, <2>2, <2>3, ScrapingStays
<1>8. CASE Start \/ (\E d \in DOMAIN dir : DirChanges(d)) \/ UNCHANGED vars
  BY <1>0, <1>8, ScrapingStays DEF Start, DirChanges, vars
<1> QED BY <1>2, <1>3, <1>4, <1>5, <1>6, <1>7, <1>8, ScrapeLoads DEF Next, Handler

LEMMA ScrapeInit == Init => ScrapeInv
<1> SUFFICES ASSUME Init PROVE ScrapeInv
  OBVIOUS
<1>1. /\ NothingShown \in [CounterNames -> Nat]
      /\ \A name \in CounterNames : NothingShown[name] = 0
  BY RangeLoads DEF NothingShown
<1>2. ScrapeType
  BY <1>1 DEF Init, ScrapeType
<1>3. NoneShownTooMuch
  BY <1>1 DEF Init, NoneShownTooMuch
<1>4. ASSUME NEW r \in Connections PROVE ScrapeOf(r)
  <2>1. at[r].step = "idle" /\ report[r] = <<>> /\ earlier[r] = NothingShown /\ count = NothingShown
    BY DEF Init, Idle
  <2>2. Len(report[r]) = 0
    BY <2>1
  <2> QED BY <1>1, <2>1, <2>2 DEF ScrapeOf
<1> QED BY <1>2, <1>3, <1>4 DEF ScrapeInv

LEMMA ScrapeInvariant == Spec => []ScrapeInv
<1>1. Spec => []FlowInv /\ []TallyInv
  BY FlowInvariant, TallyInvariant
<1>2. FlowInv /\ TallyInv /\ TallyInv' /\ ScrapeInv /\ [Next]_vars => ScrapeInv'
  BY ScrapeStep
<1> QED BY <1>1, <1>2, ScrapeInit, PTL DEF Spec

\* Though no two counters are loaded together, what a scrape shows is no less than
\* what one that ended before it began has shown.
THEOREM ScrapesNeverGoBack == Spec => []ScrapesAgree
<1>1. ScrapeInv => ScrapesAgree
  <2> SUFFICES ASSUME ScrapeInv, NEW r \in Connections, Len(report[r]) = Len(Loads)
               PROVE  /\ \A counter \in Range(Loads) : earlier[r][counter] <= Loaded(r, counter)
                      /\ earlier[r]["429"] <= Loaded(r, "requests")
                      /\ earlier[r]["errors"] <= Loaded(r, "fetches")
    BY DEF ScrapesAgree
  <2>1. ScrapeOf(r) /\ Len(report[r]) = 8
    BY LoadsAre DEF ScrapeInv
  <2>2. \A i \in 1 .. 8 : earlier[r][Loads[i]] <= report[r][i]
    BY <2>1 DEF ScrapeOf
  <2>3. ASSUME NEW counter \in CounterNames PROVE earlier[r][counter] <= Loaded(r, counter)
    BY <2>2, PlaceOf DEF Loaded
  <2>4. Loaded(r, "requests") = report[r][1] /\ Loaded(r, "fetches") = report[r][3]
    <3>1. "requests" \in CounterNames /\ "fetches" \in CounterNames
      BY DEF CounterNames
    <3> QED BY <3>1, PlaceOf DEF Loaded
  <2>5. earlier[r]["429"] <= report[r][1] /\ earlier[r]["errors"] <= report[r][3]
    BY <2>1 DEF ScrapeOf
  <2> QED BY <2>3, <2>4, <2>5, RangeLoads
<1> QED BY <1>1, ScrapeInvariant, PTL

-----------------------------------------------------------------------------
(* The types.                                                              *)

LEMMA ProbingStays ==
  ASSUME probing \subseteq Connections, [Next]_vars
  PROVE  (probing \subseteq Connections)'
<1>1. ASSUME NEW r \in Connections, CreateTemp(r) \/ CloseAndRemove(r)
      PROVE  probing' \subseteq probing \union {r}
  BY <1>1 DEF CreateTemp, CloseAndRemove
<1>2. ASSUME NEW r \in Connections, AnswerAtOnce(r) \/ Panic(r) \/ NothingToLookUp(r) \/ BeginFetch(r)
             \/ Load(r) \/ MakeDir(r) \/ CountRequest(r) \/ Count429(r) \/ Log(r)
      PROVE  probing' = probing
  BY <1>2 DEF AnswerAtOnce, Panic, NothingToLookUp, BeginFetch, Load, MakeDir, CountRequest, Count429,
              Log, files
<1>3. ASSUME NEW r \in Connections, NEW cache, NEW entry, LookUp(r, cache, entry) PROVE probing' = probing
  BY <1>3 DEF LookUp, files
<1>4. ASSUME NEW r \in Connections, NEW outcome, EndFetch(r, outcome) PROVE probing' = probing
  BY <1>4 DEF EndFetch, files
<1>5. ASSUME NEW r \in Connections, NEW path, NEW forwarded, NEW refused, Enter(r, path, forwarded, refused)
      PROVE  probing' = probing
  BY <1>5 DEF Enter, files
<1>6. CASE Start \/ (\E d \in DOMAIN dir : DirChanges(d)) \/ UNCHANGED vars
  BY <1>6 DEF Start, DirChanges, vars, files
<1> QED BY <1>1, <1>2, <1>3, <1>4, <1>5, <1>6 DEF Next, Handler

\* A writer has a status from when its handler returns until the request is logged.
THEOREM PipelineTypes == Spec => []TypeOK
<1>1. Spec => []ConfigInv /\ []FlowInv /\ []TallyInv /\ []ScrapeInv
  BY ConfigInvariant, FlowInvariant, TallyInvariant, ScrapeInvariant
<1>2. Spec => [](probing \subseteq Connections)
  <2>1. Init => probing \subseteq Connections
    BY DEF Init
  <2>2. probing \subseteq Connections /\ [Next]_vars => (probing \subseteq Connections)'
    BY ProbingStays
  <2> QED BY <2>1, <2>2, PTL DEF Spec
<1>3. ConfigInv /\ FlowInv /\ TallyInv /\ ScrapeInv /\ probing \subseteq Connections => TypeOK
  <2> SUFFICES ASSUME ConfigInv, FlowInv, TallyInv, ScrapeInv, probing \subseteq Connections
               PROVE  TypeOK
    OBVIOUS
  <2>1. ASSUME NEW r \in Connections
        PROVE  /\ at[r].step \in {"idle"} \union Handling \union Returning
               /\ status[r] # 0 <=> at[r].step \in Returning
               /\ at[r].step = "count429" => status[r] = 429
               /\ Len(report[r]) <= Len(Loads)
    <3>1. at[r] \in Requests /\ FlowOf(r) /\ ScrapeOf(r)
      BY DEF FlowInv, FlowType, ScrapeInv
    <3>2. at[r].step \in {"idle"} \union Handling \union Returning
      BY <3>1 DEF Requests, Steps
    <3> QED BY <3>1, <3>2, LoadsAre DEF FlowOf, ScrapeOf
  <2>2. phase \in {"starting", "serving", "refused"} /\ count \in [Range(Loads) -> Nat]
    BY RangeLoads DEF ConfigInv, TallyInv, TallyType
  <2> QED BY <2>1, <2>2 DEF TypeOK
<1> QED BY <1>1, <1>2, <1>3, PTL
=============================================================================
