------------------------------- MODULE Probe -------------------------------
(***************************************************************************)
(* The health probe of pkg/exec/probe.go: the goroutine that pings xolu    *)
(* (WaitReady at startup, then Run until shutdown) and the gate that tool  *)
(* calls consult (Healthy, Check).                                         *)
(*                                                                         *)
(* Time is a discrete clock.  A ping is in flight between two steps of the *)
(* goroutine, so tool calls read the state while it is out.  The scheduler *)
(* may run a step of the goroutine late, by at most Lag ticks.             *)
(* xolu is external: it goes down and comes back at any instant.           *)
(***************************************************************************)
EXTENDS Integers

CONSTANTS
    Interval,           \* ProbeConfig.Interval: cadence while pings succeed
    Timeout,            \* ProbeConfig.Timeout: longest a ping may take
    Freshness,          \* ProbeConfig.Freshness: how long a pong is trusted
    StartupMaxAttempts, \* ProbeConfig.StartupMaxAttempts, 0 = unlimited
    Delay,              \* Delay[n]: what nextDelay(n) returns (Backoff.tla)
    LongestDelay,       \* an upper bound of Delay
    Lag,                \* how late the scheduler may run the goroutine
    Horizon             \* bound of the clock

ASSUME TimesAssumption ==
    /\ Interval \in Nat \ {0}
    /\ Timeout \in Nat \ {0}
    /\ Freshness \in Nat \ {0}
    /\ StartupMaxAttempts \in Nat
    /\ Lag \in Nat
    /\ Horizon \in Nat

\* config.go rejects intervals that are not positive, so no delay is zero.
ASSUME DelayAssumption ==
    /\ LongestDelay \in Nat
    /\ Delay \in [0..(Horizon + 1) -> 1..LongestDelay]
    /\ Delay[0] = Interval

VARIABLES
    now,                \* the clock
    pc,                 \* where the probe's goroutine is
    due,                \* when its timer fires, its ping times out, or it is ready
    attempt,            \* the loop counter of WaitReady
    cancelled,          \* ctx of main is cancelled
    lastPongAt, lastFailAt, consecutiveFails, nextRetryAt, attemptNumber,
    xoluUp,             \* xolu answers /ready within Timeout (external)
    upSince, lastUpAt   \* history: when it last came up, last went down

probeState == <<lastPongAt, lastFailAt, consecutiveFails, nextRetryAt, attemptNumber>>
xolu == <<xoluUp, upSince, lastUpAt>>
vars == <<now, pc, due, attempt, cancelled, probeState, xolu>>

Never == -1     \* the zero time.Time
Time == 0..Horizon

\* The latest instant at which xolu was up.
UpAt == IF xoluUp THEN now ELSE lastUpAt

Pinging == pc \in {"startPing", "ping"}
Ended == pc \in {"exited", "stopped"}

\* The instant the ping in flight was sent.
PingStart == due - Timeout

(***************************************************************************)
(* The gate: healthyLocked, read under the lock by Healthy and Check.      *)
(***************************************************************************)

\* Faulty variant: a strict comparison.
HealthyStrict ==
    /\ lastPongAt # Never
    /\ consecutiveFails = 0
    /\ now - lastPongAt < Freshness

Healthy ==
    /\ lastPongAt # Never
    /\ consecutiveFails = 0
    /\ now - lastPongAt <= Freshness

(***************************************************************************)
(* pingOnce, after the lock is taken: what an answer writes.               *)
(***************************************************************************)
\* Faulty variant: any answer counts as a pong, an error included.
RecordFailAsPong ==
    /\ lastPongAt' = now
    /\ consecutiveFails' = 0
    /\ UNCHANGED <<lastFailAt, nextRetryAt, attemptNumber>>

RecordFail ==
    /\ lastFailAt' = now
    /\ consecutiveFails' = consecutiveFails + 1
    /\ attemptNumber' = attemptNumber + 1
    /\ UNCHANGED <<lastPongAt, nextRetryAt>>

\* Faulty variant: the failure counter survives the pong.
RecordPongKeepsFails ==
    /\ lastPongAt' = now
    /\ UNCHANGED <<lastFailAt, consecutiveFails, nextRetryAt, attemptNumber>>

RecordPong ==
    /\ lastPongAt' = now
    /\ consecutiveFails' = 0
    /\ UNCHANGED <<lastFailAt, nextRetryAt, attemptNumber>>

(***************************************************************************)
(* What the ping in flight may return.  A pong proves xolu was up at some  *)
(* instant of the flight.  A failure is impossible when xolu was up during *)
(* the whole flight, unless shutdown cancels the request.                  *)
(***************************************************************************)
MayPong == UpAt # Never /\ UpAt >= PingStart
MayFail == cancelled \/ ~xoluUp \/ upSince >= PingStart

Init ==
    /\ now = 0
    /\ pc = "startPing"
    /\ due = Timeout
    /\ attempt = 1
    /\ cancelled = FALSE
    /\ lastPongAt = Never
    /\ lastFailAt = Never
    /\ consecutiveFails = 0
    /\ nextRetryAt = Never
    /\ attemptNumber = 0
    /\ xoluUp \in BOOLEAN
    /\ upSince = 0
    /\ lastUpAt = Never

(***************************************************************************)
(* WaitReady.  Nothing cancels ctx this early: main starts the goroutines  *)
(* that call cancel after the startup is over.                             *)
(***************************************************************************)
StartupPong ==
    /\ pc = "startPing"
    /\ MayPong
    /\ RecordPong
    /\ pc' = "arm"
    /\ due' = now
    /\ UNCHANGED <<now, attempt, cancelled, xolu>>

\* Faulty variant of the give-up condition: one attempt too many.
OutOfAttemptsLate == StartupMaxAttempts > 0 /\ attempt > StartupMaxAttempts

OutOfAttempts == StartupMaxAttempts > 0 /\ attempt >= StartupMaxAttempts

StartupFail ==
    /\ pc = "startPing"
    /\ MayFail
    /\ RecordFail
    /\ pc' = IF OutOfAttempts THEN "exited" ELSE "startWait"
    /\ due' = now + Interval
    /\ UNCHANGED <<now, attempt, cancelled, xolu>>

StartupRetry ==
    /\ pc = "startWait"
    /\ now >= due
    /\ pc' = "startPing"
    /\ due' = now + Timeout
    /\ attempt' = attempt + 1
    /\ UNCHANGED <<now, cancelled, probeState, xolu>>

(***************************************************************************)
(* Run: compute the delay and publish NextRetryAt under the lock, sleep,   *)
(* ping, record.                                                           *)
(***************************************************************************)

\* Faulty variant: the hint is computed but the wait is not added to it.
ArmWithoutDelay ==
    /\ pc = "arm"
    /\ nextRetryAt' = now
    /\ due' = now + Delay[consecutiveFails]
    /\ pc' = "wait"
    /\ UNCHANGED <<now, attempt, cancelled, xolu,
                   lastPongAt, lastFailAt, consecutiveFails, attemptNumber>>

Arm ==
    /\ pc = "arm"
    /\ nextRetryAt' = now + Delay[consecutiveFails]
    /\ due' = now + Delay[consecutiveFails]
    /\ pc' = "wait"
    /\ UNCHANGED <<now, attempt, cancelled, xolu,
                   lastPongAt, lastFailAt, consecutiveFails, attemptNumber>>

Wake ==
    /\ pc = "wait"
    /\ now >= due
    /\ pc' = "ping"
    /\ due' = now + Timeout
    /\ UNCHANGED <<now, attempt, cancelled, probeState, xolu>>

Pong ==
    /\ pc = "ping"
    /\ MayPong
    /\ RecordPong
    /\ pc' = "arm"
    /\ due' = now
    /\ UNCHANGED <<now, attempt, cancelled, xolu>>

\* Faulty variant: a failed ping is retried without arming a delay.
FailRetriesAtOnce ==
    /\ pc = "ping"
    /\ MayFail
    /\ RecordFail
    /\ due' = now + Timeout
    /\ UNCHANGED <<now, pc, attempt, cancelled, xolu>>

Fail ==
    /\ pc = "ping"
    /\ MayFail
    /\ RecordFail
    /\ pc' = "arm"
    /\ due' = now
    /\ UNCHANGED <<now, attempt, cancelled, xolu>>

StopRun ==
    /\ pc = "wait"
    /\ cancelled
    /\ pc' = "stopped"
    /\ UNCHANGED <<now, due, attempt, cancelled, probeState, xolu>>

(***************************************************************************)
(* The environment: shutdown, xolu, and the clock.                         *)
(***************************************************************************)
Cancel ==
    /\ pc \in {"arm", "wait", "ping"}
    /\ ~cancelled
    /\ cancelled' = TRUE
    /\ UNCHANGED <<now, pc, due, attempt, probeState, xolu>>

XoluFails ==
    /\ xoluUp
    /\ xoluUp' = FALSE
    /\ lastUpAt' = now
    /\ UNCHANGED <<now, pc, due, attempt, cancelled, probeState, upSince>>

XoluRecovers ==
    /\ ~xoluUp
    /\ xoluUp' = TRUE
    /\ upSince' = now
    /\ UNCHANGED <<now, pc, due, attempt, cancelled, probeState, lastUpAt>>

\* Time passes while the goroutine is not overdue by more than Lag.
Tick ==
    /\ now < Horizon
    /\ ~Ended
    /\ now < due + Lag
    /\ now' = now + 1
    /\ UNCHANGED <<pc, due, attempt, cancelled, probeState, xolu>>

Next ==
    \/ StartupPong \/ StartupFail \/ StartupRetry
    \/ Arm \/ Wake \/ Pong \/ Fail \/ StopRun
    \/ Cancel \/ XoluFails \/ XoluRecovers \/ Tick

Spec == Init /\ [][Next]_vars

-----------------------------------------------------------------------------
(***************************************************************************)
(* Properties.                                                             *)
(***************************************************************************)

\* The type invariant.  A ping fails at most once per tick of waiting, so the
\* failure counter never leaves the domain of Delay.
TypeOK ==
    /\ now \in Time
    /\ pc \in {"startPing", "startWait", "arm", "wait", "ping", "exited", "stopped"}
    /\ due \in Nat
    /\ attempt \in Nat \ {0}
    /\ cancelled \in BOOLEAN
    /\ lastPongAt \in Time \cup {Never}
    /\ lastFailAt \in Time \cup {Never}
    /\ consecutiveFails \in 0..(Horizon + 1)
    /\ nextRetryAt \in Nat \cup {Never}
    /\ attemptNumber \in Nat
    /\ xoluUp \in BOOLEAN
    /\ upSince \in Time
    /\ lastUpAt \in Time \cup {Never}

Running == pc \in {"arm", "wait", "ping"} /\ ~cancelled

\* An open gate rests on evidence: xolu was really up at some instant of the
\* last Freshness + Timeout + Lag.  LastPongAt is stamped after the answer has
\* travelled (probe.go:77), so Freshness alone is not the bound.
HealthyHasEvidence ==
    Healthy => /\ UpAt # Never
               /\ now - UpAt <= Freshness + Timeout + Lag

\* The pong window outlasts one full cycle of the probe.
FreshnessCoversCycle == Interval + Timeout + 3 * Lag <= Freshness

\* No false alarm: while pings succeed the gate never closes between two of
\* them, if the configured window covers a cycle.  config.go does not relate
\* the window to the interval, so this is a condition on the operator.
NoFalseAlarm ==
    (FreshnessCoversCycle /\ Running /\ consecutiveFails = 0) => Healthy

\* Recovery is bounded: with xolu back for longer than two pings, one backoff
\* delay and the scheduler's lag, the probe no longer counts failures.
RecoveryBounded ==
    (Running /\ xoluUp /\ consecutiveFails > 0) =>
        now - upSince <= LongestDelay + 2 * Timeout + 4 * Lag

\* The nextRetryAt that a refused call reports (Check, probe.go:118-123) is
\* honest: an agent that waits for it plus one ping has a newer verdict, and it
\* is never further away than the longest delay.  It may lie in the past while
\* the retry is in flight (probe.go:177 runs only after the ping).
RetryHintHonest ==
    (Running /\ nextRetryAt # Never) =>
        /\ now <= nextRetryAt + Timeout + 3 * Lag
        /\ nextRetryAt <= now + LongestDelay

\* The counter that probe.go:84-87 prefers to comparing timestamps agrees with
\* them whenever the clock can tell the pong and the failure apart.
FailCounterAgreesWithTimes ==
    /\ lastFailAt > lastPongAt => consecutiveFails > 0
    /\ lastFailAt < lastPongAt => consecutiveFails = 0

\* The process gives up at startup only after exactly StartupMaxAttempts pings,
\* all failed, spread over the intervals between them, and never when 0.
StartupGivesUpInTime ==
    pc = "exited" => /\ StartupMaxAttempts > 0
                     /\ attempt = StartupMaxAttempts
                     /\ attemptNumber = StartupMaxAttempts
                     /\ lastPongAt = Never
                     /\ now >= (StartupMaxAttempts - 1) * Interval
=============================================================================
