----------------------------- MODULE Lifecycle -----------------------------
(***************************************************************************)
(* The process of cmd/molu/main.go from start to exit: read the            *)
(* configuration, wait for xolu, load the catalogue, serve on stdio, take  *)
(* signals, shut down.  Signals arrive at any moment in a channel that     *)
(* holds one; the goroutine that reads it starts last.  It and the serve   *)
(* loop block while stdout is full.                                        *)
(***************************************************************************)
EXTENDS Config

CONSTANTS
    Environments,   \* the environments the process may be started in
    MaxFailures     \* bound: attempts that fail in a row

ASSUME LifecycleAssumption ==
    /\ Malformed \notin Int
    /\ \A e \in Environments : \A v \in Numbers \cap DOMAIN e : e[v] \in Int \cup {Malformed}
    /\ MaxFailures \in Nat

B == INSTANCE Backoff

VARIABLES
    env,        \* the environment of this process
    phase,      \* where main is
    exit,       \* how the process ended
    attempt,    \* failed attempts of WaitReady or of Load
    delay,      \* Load's delay
    sigCh,      \* the signal waiting in sigCh
    handler,    \* the goroutine that reads sigCh
    serve,      \* the goroutine of ServeStdio
    cancelled,  \* ctx is cancelled
    client,     \* the MCP client's end of stdin and stdout
    full,       \* stdout takes no more until the client reads
    asked       \* history: a SIGTERM or SIGINT was sent to the process

start == <<env, attempt, delay>>
stdio == <<serve, client, full>>
vars == <<phase, exit, start, sigCh, handler, cancelled, stdio, asked>>

\* ProbeConfig and LoaderConfig, as main fills them; attempts: 0 = unlimited.
PingAttempts == Read(env, "StartupMaxAttempts")
LoadAttempts == Read(env, "SchemaMaxAttempts")
Limited == PingAttempts > 0 /\ LoadAttempts > 0
RetryFloor == Read(env, "SchemaRetryFloor")
RetryCeiling == Read(env, "SchemaRetryCeiling")

Alive == phase # "exited"

\* The cause tells the exits with status 1 from one another.
Exit(cause) ==
    /\ phase' = "exited"
    /\ exit' = cause

\* LoadFromEnv, the telemetry server's routes, and signal.Notify.
Configure ==
    /\ phase = "starting"
    /\ IF Problems(env) # {} THEN Exit("config")
       ELSE IF Enabled(env) /\ MuxPanics(env) THEN Exit("panic")
       ELSE phase' = "pinging" /\ UNCHANGED exit
    /\ UNCHANGED <<start, sigCh, handler, cancelled, stdio, asked>>

(***************************************************************************)
(* WaitReady and Load.  Nothing cancels ctx before the goroutines start.   *)
(***************************************************************************)
PingOk ==
    /\ phase = "pinging"
    /\ phase' = "loading"
    /\ attempt' = 0
    /\ delay' = RetryFloor
    /\ UNCHANGED <<env, exit, sigCh, handler, cancelled, stdio, asked>>

PingFails ==
    /\ phase = "pinging" /\ attempt < MaxFailures
    /\ attempt' = attempt + 1
    /\ IF PingAttempts > 0 /\ attempt + 1 >= PingAttempts
       THEN Exit("no xolu")
       ELSE UNCHANGED <<phase, exit>>
    /\ UNCHANGED <<env, delay, sigCh, handler, cancelled, stdio, asked>>

LoadOk ==
    /\ phase = "loading"
    /\ phase' = "wiring"
    /\ UNCHANGED <<exit, start, sigCh, handler, cancelled, stdio, asked>>

LoadFails ==
    /\ phase = "loading" /\ attempt < MaxFailures
    /\ attempt' = attempt + 1
    /\ IF LoadAttempts > 0 /\ attempt + 1 >= LoadAttempts
       THEN Exit("no schemas")
       ELSE phase' = "backoff" /\ UNCHANGED exit
    /\ UNCHANGED <<env, delay, sigCh, handler, cancelled, stdio, asked>>

\* Faulty variant: the attempts are counted afresh after each wait.
LoadRetryForgets ==
    /\ phase = "backoff"
    /\ phase' = "loading"
    /\ delay' = B!Least(2 * delay, RetryCeiling)
    /\ attempt' = 0
    /\ UNCHANGED <<env, exit, sigCh, handler, cancelled, stdio, asked>>

LoadRetry ==
    /\ phase = "backoff"
    /\ phase' = "loading"
    /\ delay' = B!Least(2 * delay, RetryCeiling)
    /\ UNCHANGED <<env, exit, attempt, sigCh, handler, cancelled, stdio, asked>>

\* NewRPIProvider: the file of static rules may be unreadable, their text wrong.
RulesFail ==
    CASE Read(env, "HubRPIProvider") \in {"", "admit-all"} -> {FALSE}
      [] Read(env, "HubRPIProvider") = "static-context-rules" ->
            IF HasFile(env) \/ HasJSON(env) THEN BOOLEAN ELSE {TRUE}
      [] OTHER -> {TRUE}

\* Discovery, NewServer and the goroutines; a ticker needs a positive interval.
Wire ==
    /\ phase = "wiring"
    /\ \/ TRUE \in RulesFail /\ Exit("rules") /\ UNCHANGED <<handler, serve>>
       \/ /\ FALSE \in RulesFail
          /\ IF Read(env, "SchemaRefreshInterval") <= 0
             THEN Exit("panic") /\ UNCHANGED <<handler, serve>>
             ELSE phase' = "serving" /\ exit' = exit /\ handler' = "idle" /\ serve' = "reading"
    /\ UNCHANGED <<start, sigCh, cancelled, client, full, asked>>

(***************************************************************************)
(* Serve.  A write waits while stdout is full; once the client has closed  *)
(* its end the write kills the process with SIGPIPE.                       *)
(***************************************************************************)
Write ==
    IF client = "gone"
    THEN Exit("pipe") /\ UNCHANGED full
    ELSE /\ ~full
         /\ full' \in BOOLEAN
         /\ UNCHANGED <<phase, exit>>

\* Scan returns a line; Serve looks at ctx and only then handles the message.
Receive ==
    /\ Alive /\ serve = "reading" /\ client = "there"
    /\ serve' = IF cancelled THEN "ended" ELSE "handling"
    /\ UNCHANGED <<phase, exit, start, sigCh, handler, cancelled, client, full, asked>>

\* executeTool returns: every call ends (ToolCall).
Handle ==
    /\ Alive /\ serve = "handling"
    /\ serve' = "writing"
    /\ UNCHANGED <<phase, exit, start, sigCh, handler, cancelled, client, full, asked>>

Answer ==
    /\ Alive /\ serve = "writing"
    /\ Write
    /\ serve' = "reading"
    /\ UNCHANGED <<start, sigCh, handler, cancelled, client, asked>>

\* The end of stdin ends Serve without an error, and the process goes on.
Eof ==
    /\ Alive /\ serve = "reading" /\ client = "gone"
    /\ serve' = "ended"
    /\ UNCHANGED <<phase, exit, start, sigCh, handler, cancelled, client, full, asked>>

\* A line beyond the scanner's buffer is an error, which cancels ctx.
LineTooLong ==
    /\ Alive /\ serve = "reading" /\ client = "there"
    /\ serve' = "ended"
    /\ cancelled' = TRUE
    /\ UNCHANGED <<phase, exit, start, sigCh, handler, client, full, asked>>

(***************************************************************************)
(* The signal goroutine.                                                   *)
(***************************************************************************)
\* Faulty variant: the goroutine starts before the process waits for xolu.
TakeTermEarly ==
    /\ Alive /\ handler \in {"off", "idle"} /\ sigCh = "TERM"
    /\ sigCh' = "none"
    /\ cancelled' = TRUE
    /\ UNCHANGED <<phase, exit, start, handler, stdio, asked>>

TakeTerm ==
    /\ Alive /\ handler = "idle" /\ sigCh = "TERM"
    /\ sigCh' = "none"
    /\ cancelled' = TRUE
    /\ UNCHANGED <<phase, exit, start, handler, stdio, asked>>

TakeHup ==
    /\ Alive /\ handler = "idle" /\ sigCh = "HUP"
    /\ sigCh' = "none"
    /\ handler' = "refreshing"
    /\ UNCHANGED <<phase, exit, start, cancelled, stdio, asked>>

\* Faulty variant: a refresh that fails ends the goroutine.
RefreshFailsForGood ==
    /\ Alive /\ handler = "refreshing"
    /\ handler' \in {"off", "publishing"}
    /\ UNCHANGED <<phase, exit, start, sigCh, cancelled, stdio, asked>>

\* Refresh fails, or its catalogue is to be published.
Refresh ==
    /\ Alive /\ handler = "refreshing"
    /\ handler' \in {"idle", "publishing"}
    /\ UNCHANGED <<phase, exit, start, sigCh, cancelled, stdio, asked>>

\* UpdatePrimitives writes the notification, unless Serve has let go of stdout.
Publish ==
    /\ Alive /\ handler = "publishing"
    /\ handler' = "idle"
    /\ IF serve = "ended" THEN UNCHANGED <<phase, exit, full>> ELSE Write
    /\ UNCHANGED <<start, sigCh, cancelled, serve, client, asked>>

(***************************************************************************)
(* The end of main: it returns whatever the other goroutines are doing.    *)
(***************************************************************************)
BeginShutdown ==
    /\ phase = "serving" /\ cancelled
    /\ phase' = "closing"
    /\ UNCHANGED <<exit, start, sigCh, handler, cancelled, stdio, asked>>

\* The telemetry server gets five seconds, then main returns.
Return ==
    /\ phase = "closing"
    /\ Exit("0")
    /\ UNCHANGED <<start, sigCh, handler, cancelled, stdio, asked>>

(***************************************************************************)
(* The outside: signals and the client.                                    *)
(***************************************************************************)
\* signal.Notify drops a signal that finds sigCh full; before it, signals kill.
Signal(s) ==
    /\ Alive
    /\ IF phase = "starting"
       THEN Exit("signal") /\ UNCHANGED sigCh
       ELSE /\ sigCh' = IF sigCh = "none" THEN s ELSE sigCh
            /\ UNCHANGED <<phase, exit>>
    /\ asked' = (asked \/ s = "TERM")
    /\ UNCHANGED <<start, handler, cancelled, stdio>>

ClientReads ==
    /\ Alive /\ client = "there" /\ full
    /\ full' = FALSE
    /\ UNCHANGED <<phase, exit, start, sigCh, handler, cancelled, serve, client, asked>>

ClientLeaves ==
    /\ Alive /\ client = "there"
    /\ client' = "gone"
    /\ full' = FALSE
    /\ UNCHANGED <<phase, exit, start, sigCh, handler, cancelled, serve, asked>>

Init ==
    /\ env \in Environments
    /\ phase = "starting"
    /\ exit = "none"
    /\ attempt = 0
    /\ delay = 0
    /\ sigCh = "none"
    /\ handler = "off"
    /\ serve = "off"
    /\ cancelled = FALSE
    /\ client = "there"
    /\ full = FALSE
    /\ asked = FALSE

Main == Configure \/ PingOk \/ PingFails \/ LoadOk \/ LoadFails \/ LoadRetry \/ Wire \/ BeginShutdown \/ Return
Serve == Receive \/ Handle \/ Answer \/ Eof \/ LineTooLong
Handler == TakeTerm \/ TakeHup \/ Refresh \/ Publish
Outside == Signal("TERM") \/ Signal("HUP") \/ ClientReads \/ ClientLeaves

Next == Main \/ Serve \/ Handler \/ Outside

(***************************************************************************)
(* An attempt ends one way or the other, for the client's timeout ends it, *)
(* but xolu owes no answer that is good.  MaxFailures bounds the failures  *)
(* the model counts: a process that stands still at the bound stands for   *)
(* one whose unlimited attempts fail for ever.                             *)
(***************************************************************************)
Attempt == attempt < MaxFailures /\ (PingOk \/ PingFails \/ LoadOk \/ LoadFails)

\* Goroutines run on; one that waits to write gets stdout if it is free again and again.
Spec ==
    /\ Init /\ [][Next]_vars
    /\ WF_vars(Configure \/ Attempt \/ LoadRetry \/ Wire \/ BeginShutdown \/ Return)
    /\ WF_vars(Handle) /\ SF_vars(Answer) /\ WF_vars(Eof)
    /\ WF_vars(TakeTerm \/ TakeHup \/ Refresh) /\ SF_vars(Publish)

-----------------------------------------------------------------------------

Starting == phase \in {"starting", "pinging", "loading", "backoff", "wiring"}

TypeOK ==
    /\ env \in Environments
    /\ phase \in {"starting", "pinging", "loading", "backoff", "wiring", "serving", "closing", "exited"}
    /\ exit \in {"none", "0", "config", "no xolu", "no schemas", "rules", "signal", "panic", "pipe"}
    /\ attempt \in 0..MaxFailures
    /\ delay \in Nat
    /\ sigCh \in {"none", "TERM", "HUP"}
    /\ handler \in {"off", "idle", "refreshing", "publishing"}
    /\ serve \in {"off", "reading", "handling", "writing", "ended"}
    /\ cancelled \in BOOLEAN
    /\ client \in {"there", "gone"}
    /\ full \in BOOLEAN
    /\ asked \in BOOLEAN

(***************************************************************************)
(* A configuration that validate accepts carries the process to its serve  *)
(* loop, whatever xolu does: it is given up later only for what validate   *)
(* cannot see, the contents of the rules, and no interval it let through   *)
(* makes a ticker panic (config.go:113-205 with main.go:121-158).          *)
(***************************************************************************)
AcceptedConfigWires ==
    /\ exit = "rules" => Read(env, "HubRPIProvider") = "static-context-rules" /\ HasFile(env) # HasJSON(env)
    /\ exit = "panic" => Enabled(env) /\ MuxPanics(env)

(***************************************************************************)
(* Load waits after its n-th failure what the probe waits after its n-th,  *)
(* although one carries the delay along and the other computes it anew,    *)
(* under every accepted configuration (loader.go:41-62, probe.go:129-138). *)
(***************************************************************************)
LoadKeepsProbeSchedule ==
    phase = "backoff" => delay = B!NextDelay(1, RetryFloor, RetryCeiling, attempt)

(***************************************************************************)
(* ctx is never cancelled while molu starts: main reads an error of        *)
(* WaitReady or Load under a cancelled ctx as no error and goes on, so a   *)
(* cancellation then would serve an empty catalogue.                       *)
(***************************************************************************)
StartupIsNeverCancelled == Starting => ~cancelled

\* With limits on its attempts the process comes to serve or exits.
StartupEnds ==
    Limited => (Starting ~> phase \in {"serving", "exited"})

(***************************************************************************)
(* A SIGTERM that found room in sigCh ends the process, whatever refresh   *)
(* or call is going on, as long as the client keeps reading stdout.  One   *)
(* sent during the startup waits for its end, which only limits on the     *)
(* attempts ensure: the goroutine that reads sigCh starts at main.go:178,  *)
(* and an unlimited WaitReady or Load (loader.go:44-61) may never return.  *)
(***************************************************************************)
StartupOverOrLimited == ~Starting \/ Limited

TermStops ==
    []<>(~full) => (sigCh = "TERM" /\ StartupOverOrLimited ~> phase = "exited")

(***************************************************************************)
(* Every SIGTERM stops the process (docs/deployment/007, graceful          *)
(* shutdown).  Leaving aside the startup without limits, one that finds    *)
(* another signal in sigCh is lost.                                        *)
(***************************************************************************)
TermIsHeard ==
    []<>(~full) => (asked /\ StartupOverOrLimited ~> phase = "exited")

(***************************************************************************)
(* At startup molu validates the telemetry's port, paths, level and format *)
(* and exits with status 1 when they are wrong (docs/configuration/007).   *)
(* main never calls the Validate that would.                               *)
(***************************************************************************)
BadTelemetryIsRefused ==
    TelemetryValid(env) \/ phase = "starting" \/ exit \in {"config", "signal"}
=============================================================================
