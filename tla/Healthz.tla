------------------------------- MODULE Healthz -------------------------------
(***************************************************************************)
(* The health endpoint (pkg/telemetry/health.go) beside the probe.  A      *)
(* goroutine of main.go pings xolu for it on a ticker of its own, and      *)
(* /healthz judges by a window of its own, so the operator and the agent   *)
(* are told of xolu by two clocks that know nothing of each other.         *)
(***************************************************************************)
EXTENDS Probe

CONSTANTS
    Period,     \* of the ticker in main.go
    Window      \* how long Ready trusts a ping

ASSUME HealthzAssumption ==
    /\ Period \in Nat \ {0}
    /\ Window \in Nat \ {0}

VARIABLES
    loop,               \* where the goroutine is
    nextTick,           \* when the ticker fires next
    pingedAt,           \* when the ping in flight was sent
    lastSuccessPing

health == <<loop, nextTick, pingedAt, lastSuccessPing>>

\* Faulty variant: a ping that ever succeeded is enough.
ReadyForEver == lastSuccessPing # Never

\* Faulty variant: a strict comparison.
ReadyStrict == lastSuccessPing # Never /\ now - lastSuccessPing < Window

Ready == lastSuccessPing # Never /\ now - lastSuccessPing <= Window

\* What Handler tells; Live is always true, so it never tells "down".
Status == IF Ready THEN "ok" ELSE "degraded"

\* Faulty variant: the time of a failed ping is taken as well.
SetXoluStatusAlways(available) == lastSuccessPing' = now

SetXoluStatus(available) == lastSuccessPing' = IF available THEN now ELSE lastSuccessPing

\* The catalogue is loaded and main starts the goroutine.
StartLoop ==
    /\ loop = "off"
    /\ pc \notin {"startPing", "startWait", "exited"}
    /\ loop' = "wait"
    /\ nextTick' = now + Period
    /\ UNCHANGED <<vars, pingedAt, lastSuccessPing>>

\* A ticker holds one tick and drops the ones that find it there.
LoopPings ==
    /\ loop = "wait" /\ now >= nextTick
    /\ loop' = "ping"
    /\ nextTick' = nextTick + Period * ((now - nextTick) \div Period + 1)
    /\ pingedAt' = now
    /\ UNCHANGED <<vars, lastSuccessPing>>

LoopAnswered ==
    /\ loop = "ping"
    /\ loop' = "wait"
    /\ \/ UpAt >= pingedAt /\ SetXoluStatus(TRUE)
       \/ (cancelled \/ ~xoluUp \/ upSince >= pingedAt) /\ SetXoluStatus(FALSE)
    /\ UNCHANGED <<vars, nextTick, pingedAt>>

LoopStops ==
    /\ loop = "wait" /\ cancelled
    /\ loop' = "stopped"
    /\ UNCHANGED <<vars, nextTick, pingedAt, lastSuccessPing>>

\* The scheduler and the HTTP client's timeout hold for this goroutine too.
LoopOnTime ==
    /\ loop = "wait" => now < nextTick + Lag
    /\ loop = "ping" => now < pingedAt + Timeout + Lag

ProbeStep ==
    /\ Next
    /\ now' # now => LoopOnTime
    /\ UNCHANGED health

HealthzInit ==
    /\ Init
    /\ loop = "off"
    /\ nextTick = 0
    /\ pingedAt = Never
    /\ lastSuccessPing = Never

HealthzNext == StartLoop \/ LoopPings \/ LoopAnswered \/ LoopStops \/ ProbeStep

HealthzSpec == HealthzInit /\ [][HealthzNext]_<<vars, health>>

-----------------------------------------------------------------------------

LoopRuns == loop \in {"wait", "ping"} /\ ~cancelled

\* The window outlasts one full cycle of the loop.
WindowCoversCycle == Period + Timeout + 2 * Lag <= Window

(***************************************************************************)
(* An ok rests on evidence: xolu was up at some instant of the last Window *)
(* plus what an answer takes, although SetXoluStatus ignores failures and  *)
(* only lets the last success expire (health.go:94-101).                   *)
(***************************************************************************)
OkHasEvidence == Status = "ok" => UpAt # Never /\ now - UpAt <= Window + Timeout + Lag

(***************************************************************************)
(* No false alarm: xolu, up since before the last good ping, is not        *)
(* reported degraded, however the ticks that the goroutine missed while it *)
(* waited for an answer were dropped (main.go:160-175).                    *)
(***************************************************************************)
NoFalseDegraded ==
    WindowCoversCycle /\ LoopRuns /\ xoluUp /\ lastSuccessPing # Never /\ upSince < lastSuccessPing
        => Status = "ok"

\* xolu has been up, or down, for so long that both goroutines must have noticed.
UpLong ==
    /\ xoluUp
    /\ now - upSince > LongestDelay + 2 * Timeout + 4 * Lag
    /\ now - upSince > Period + 2 * Timeout + 3 * Lag
DownLong ==
    /\ ~xoluUp
    /\ now - lastUpAt > Window + Timeout + Lag
    /\ now - lastUpAt > Freshness + Timeout + Lag

(***************************************************************************)
(* The agent's gate and the operator's endpoint agree again a bounded time *)
(* after xolu changed: each trusts its own window and neither reads the    *)
(* other's state (Probe.Check and healthImpl.Ready).                       *)
(***************************************************************************)
VerdictsAgree ==
    (FreshnessCoversCycle /\ WindowCoversCycle /\ Running /\ LoopRuns /\ (UpLong \/ DownLong)
        /\ lastSuccessPing # Never)
      => (Healthy <=> Status = "ok")
=============================================================================
