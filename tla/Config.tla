------------------------------- MODULE Config -------------------------------
(***************************************************************************)
(* pkg/config/config.go and the part of pkg/telemetry/config.go that the   *)
(* startup depends on, as functions of an environment: the variables that  *)
(* are set, named after the fields they fill, with what they are set to.   *)
(* Durations are in seconds.  A variable set to "" counts as not set.      *)
(***************************************************************************)
EXTENDS Integers

CONSTANT Malformed  \* a text that is no number, duration or boolean

Counts == {"SchemaMaxAttempts", "StartupMaxAttempts"}
Durations == {"SchemaPollInterval", "CataloguePollInterval", "SchemaRefreshInterval",
              "SchemaRetryFloor", "SchemaRetryCeiling", "SchemaTimeout", "PingInterval",
              "PingTimeout", "PongFreshness", "PingFailFloor", "PingFailCeiling", "CallTimeout"}
Numbers == Counts \cup Durations
Booleans == {"RedactPayloads"}

Defaults == [
    Transport |-> "stdio", HTTPAuth |-> "none", LogLevel |-> "info", LogFormat |-> "console",
    SchemaPollInterval |-> 60, CataloguePollInterval |-> 60, SchemaRefreshInterval |-> 60,
    SchemaRetryFloor |-> 1, SchemaRetryCeiling |-> 30, SchemaMaxAttempts |-> 0,
    SchemaTimeout |-> 10, PingInterval |-> 30, PingTimeout |-> 5, PongFreshness |-> 45,
    PingFailFloor |-> 1, PingFailCeiling |-> 30, StartupMaxAttempts |-> 60, CallTimeout |-> 30,
    RedactPayloads |-> TRUE]

\* reader.str, reader.duration, reader.integer, reader.boolean: what is malformed is
\* reported and replaced.
Read(env, v) ==
    IF v \in DOMAIN env /\ env[v] # Malformed THEN env[v]
    ELSE IF v \in DOMAIN Defaults THEN Defaults[v]
    ELSE ""

Unreadable(env) == {v \in Numbers \cup Booleans : v \in DOMAIN env /\ env[v] = Malformed}

Modes == {"bearer", "apikey", "jwt"}
Options == [
    XoluAuthMode |-> Modes,
    Transport    |-> {"stdio", "streamable-http"},
    HTTPAuth     |-> {"none", "bearer", "mtls"},
    LogLevel     |-> {"debug", "info", "warn", "error"},
    LogFormat    |-> {"console", "json"}]

\* validate, oneOf and required, with the Hub's variables when it is configured.
NotAnOption(env) ==
    {v \in DOMAIN Options : Read(env, v) \notin Options[v]}
    \cup (IF Read(env, "HubURL") # "" /\ Read(env, "HubAuthMode") \notin Modes
          THEN {"HubAuthMode"} ELSE {})

Missing(env) ==
    {v \in {"XoluURL", "XoluTokenFile"}
           \cup (IF Read(env, "HubURL") # "" THEN {"HubTokenFile"} ELSE {})
           \cup (IF Read(env, "HTTPAuth") = "bearer" THEN {"HTTPBearerTokenFile"} ELSE {}) :
        Read(env, v) = ""}

HasFile(env) == Read(env, "HubRPIRulesFile") # ""
HasJSON(env) == Read(env, "HubRPIRulesJSON") # ""

\* Faulty variant: static rules may be left out.
RulesMayBeMissing(env) ==
    CASE Read(env, "HubRPIProvider") = "" -> HasFile(env) \/ HasJSON(env)
      [] Read(env, "HubRPIProvider") = "admit-all" -> FALSE
      [] Read(env, "HubRPIProvider") = "static-context-rules" -> HasFile(env) /\ HasJSON(env)
      [] OTHER -> TRUE

\* The provider of the Hub's discovery and its rules do not go together.
RulesWrong(env) ==
    CASE Read(env, "HubRPIProvider") = "" -> HasFile(env) \/ HasJSON(env)
      [] Read(env, "HubRPIProvider") = "admit-all" -> FALSE
      [] Read(env, "HubRPIProvider") = "static-context-rules" -> HasFile(env) = HasJSON(env)
      [] OTHER -> TRUE

NotPositive(env) == {v \in Durations : Read(env, v) <= 0}
Negative(env) == {v \in Counts : Read(env, v) < 0}

\* Faulty variant: only the probe's floor is compared with its ceiling.
ProbesFloorAboveCeiling(env) ==
    {v \in {"PingFailFloor"} : Read(env, v) > Read(env, "PingFailCeiling")}

FloorAboveCeiling(env) ==
    {v \in {"SchemaRetryFloor"} : Read(env, v) > Read(env, "SchemaRetryCeiling")}
    \cup {v \in {"PingFailFloor"} : Read(env, v) > Read(env, "PingFailCeiling")}

(***************************************************************************)
(* LoadFromEnv: what is wrong with the environment, all of it at once.     *)
(***************************************************************************)
Problems(env) ==
    Unreadable(env) \cup NotAnOption(env) \cup Missing(env) \cup NotPositive(env)
    \cup Negative(env) \cup FloorAboveCeiling(env)
    \cup (IF RulesWrong(env) THEN {"HubRPIProvider"} ELSE {})

(***************************************************************************)
(* telemetry.LoadConfigFromEnv: its own variables, each replaced by its    *)
(* default when it is no number, and none of them refused.  A path is its  *)
(* text; the port is what %d prints.                                       *)
(***************************************************************************)
Path(env, v) ==
    IF v \in DOMAIN env THEN env[v]
    ELSE IF v = "TelemetryMetricsPath" THEN "/metrics" ELSE "/healthz"

Port(env) ==
    IF "TelemetryPort" \in DOMAIN env /\ env["TelemetryPort"] # Malformed
    THEN env["TelemetryPort"] ELSE 9090

Enabled(env) == "TelemetryEnabled" \in DOMAIN env => env["TelemetryEnabled"] = "true"

\* What net/http's ServeMux takes: a host and a path, or a path, and not the same twice.
Slashed == {"/metrics", "/healthz", "/live"}

MuxPanics(env) ==
    LET metrics == Path(env, "TelemetryMetricsPath")
        health == Path(env, "TelemetryHealthPath")
    IN  {metrics, health} \subseteq Slashed => metrics = health

\* telemetry.Config.Validate, of which main makes no use: format and level, port, paths.
TelemetryValid(env) ==
    /\ "LogLevel" \in DOMAIN env => env["LogLevel"] \in Options["LogLevel"]
    /\ "LogFormat" \in DOMAIN env => env["LogFormat"] \in Options["LogFormat"]
    /\ Port(env) \in 1..65535
    /\ {Path(env, "TelemetryMetricsPath"), Path(env, "TelemetryHealthPath")} \subseteq Slashed
=============================================================================
