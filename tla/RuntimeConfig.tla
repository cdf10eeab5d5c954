---------------------------- MODULE RuntimeConfig ----------------------------
(***************************************************************************)
(* loadAppConfigFromEnv: what the environment's variables make of the      *)
(* settings, and when the process refuses to start. An environment gives   *)
(* every setting a raw value: Absent, Malformed (not a value of its type), *)
(* or the value that its text denotes.                                     *)
(***************************************************************************)
EXTENDS Integers

CONSTANTS Absent, Malformed, Invalid

Texts == {"addr", "cacheDir"}
Durations == {"readTimeout", "writeTimeout", "idleTimeout", "shutdownTimeout"}
Counters == {"rateRPM", "rateBurst"}
Switches == {"rateEnabled", "rateTrustProxy", "requireNonRoot", "enforceHTTPS", "httpsTrustProxy"}

\* Durations are in milliseconds.
Defaults ==
    [addr |-> ":8080", cacheDir |-> "docs/cache",
     readTimeout |-> 10000, writeTimeout |-> 30000,
     idleTimeout |-> 60000, shutdownTimeout |-> 15000,
     rateRPM |-> 300, rateBurst |-> 80,
     rateEnabled |-> TRUE, rateTrustProxy |-> FALSE, requireNonRoot |-> FALSE,
     enforceHTTPS |-> FALSE, httpsTrustProxy |-> TRUE]

\* What a variable's text can denote; any text is a text.
Raws(name) ==
    IF name \in Texts THEN STRING \union {Absent}
    ELSE IF name \in Switches THEN BOOLEAN \union {Absent, Malformed}
    ELSE Int \union {Absent, Malformed}

ASSUME RawAssumption ==
    /\ \A mark \in {Absent, Malformed, Invalid} :
         /\ mark \notin STRING /\ mark \notin BOOLEAN /\ mark \notin Int
         /\ \A name \in Texts : mark # Defaults[name]
    /\ Absent # Malformed /\ Absent # Invalid /\ Malformed # Invalid

parseEnvBoolStrict(raw, fallback) ==
    IF raw = Absent THEN fallback
    ELSE IF raw \in BOOLEAN THEN raw ELSE Invalid

\* MUTANT: what parseEnvIntMin of rate_limit.go does of a number it cannot use.
parseEnvIntLenient(raw, fallback, min, max) ==
    IF raw = Absent \/ raw = Malformed THEN fallback
    ELSE IF raw < min THEN min ELSE raw

\* No maximum is 0.
parseEnvIntStrict(raw, fallback, min, max) ==
    IF raw = Absent THEN fallback
    ELSE IF raw = Malformed \/ raw < min \/ (max > 0 /\ raw > max) THEN Invalid
    ELSE raw

MaxSetting == 1000000

parseEnvIntSetting(raw, fallback) == parseEnvIntStrict(raw, fallback, 1, MaxSetting)

parseEnvDurationStrict(raw, fallback, min) == parseEnvIntStrict(raw, fallback, min, 0)

loadAppConfigFromEnv(env) ==
    [name \in DOMAIN Defaults |->
        IF name \in Switches THEN parseEnvBoolStrict(env[name], Defaults[name])
        ELSE IF name \in Counters THEN parseEnvIntSetting(env[name], Defaults[name])
        ELSE IF name \in Durations
        THEN parseEnvDurationStrict(env[name], Defaults[name], 1)
        ELSE IF env[name] = Absent THEN Defaults[name] ELSE env[name]]

Refused(config, root) ==
    \/ \E name \in DOMAIN config : config[name] = Invalid
    \/ config["requireNonRoot"] /\ root
=============================================================================
