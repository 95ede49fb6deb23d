---------------------------- MODULE MCLifecycle ----------------------------
(***************************************************************************)
(* Lifecycle for TLC: each environment sets, beside what is obligatory,    *)
(* the few variables of one question.                                      *)
(***************************************************************************)
EXTENDS Lifecycle, TLC

Obligatory == [XoluURL |-> "http", XoluTokenFile |-> "file", XoluAuthMode |-> "bearer",
               SchemaMaxAttempts |-> 5, StartupMaxAttempts |-> 3]

Setting(v, values) == {v :> value : value \in values}

\* Delays that double below, up to and past the ceiling, and limits of every sign.
Delays ==
    {[SchemaRetryFloor |-> floor, SchemaRetryCeiling |-> ceiling, SchemaMaxAttempts |-> limit] :
        floor \in {1, 3}, ceiling \in {2, 6}, limit \in {-1, 0, 4}}

Limits == Setting("StartupMaxAttempts", {-1, 0, 1, 3, Malformed})

Rules ==
    {[HubRPIProvider |-> provider, HubRPIRulesFile |-> file, HubRPIRulesJSON |-> json] :
        provider \in {"", "admit-all", "static-context-rules", "none"},
        file \in {"", "rules.json"}, json \in {"", "rules"}}

\* Each number alone at zero, and the choices and their companions wrong in turn.
Wrong ==
    UNION {Setting(v, {0}) : v \in Numbers}
    \cup Setting("Transport", {"tcp"}) \cup Setting("LogLevel", {"fatal"})
    \cup Setting("HTTPAuth", {"bearer"}) \cup Setting("HubURL", {"http"})
    \cup Setting("XoluURL", {""}) \cup Setting("PingFailFloor", {31})
    \cup Setting("RedactPayloads", {FALSE, Malformed})

Telemetry ==
    Setting("TelemetryMetricsPath", {"/live", "/healthz", "metrics"})
    \cup Setting("TelemetryPort", {Malformed, 70000})
    \cup {[TelemetryMetricsPath |-> "metrics", TelemetryEnabled |-> "no"]}

MCEnvironments == {extra @@ Obligatory : extra \in Delays \cup Limits \cup Rules \cup Wrong \cup Telemetry}
=============================================================================
