---------------------------- MODULE MCTelemetry ----------------------------
(***************************************************************************)
(* pkg/telemetry's logs for TLC: the files and their rotation, with few    *)
(* lines, so that a file can be rotated twice in a second and in different *)
(* ones while earlier files are compressed; or the loggers derived from    *)
(* one another, with one id, one label and one field; the other rests.     *)
(***************************************************************************)
EXTENDS MCLogRotator, Logger, TLC

VARIABLE logs   \* "files" or "lines"

TelemetryInit == logs \in {"files", "lines"} /\ Init /\ LoggerInit

TelemetryNext ==
    /\ UNCHANGED logs
    /\ \/ logs = "files" /\ Next /\ UNCHANGED loggerVars
       \/ logs = "lines" /\ LoggerNext /\ UNCHANGED vars

TelemetrySpec == TelemetryInit /\ [][TelemetryNext]_<<logs, vars, loggerVars>>

\* What fields and ids are set to makes no difference.
Symmetry == Permutations(Values)
=============================================================================
