--------------------------- MODULE HealthzProofs ----------------------------
(*****************************************************************************)
(* The probe and the health endpoint, for every value of the constants.      *)
(*                                                                           *)
(* First the probe alone.  Its inductive invariant IInv adds to the type     *)
(* invariant where each step of the goroutine stands in time: how late it    *)
(* can be (OnTime), how far its timer lies from the last pong (CadenceInv),  *)
(* from the last failure (BackoffInv) and from the published hint (HintInv), *)
(* and what xolu was doing at those instants (EvidenceInv).                  *)
(*                                                                           *)
(* Then nextDelay: its loop comes to a capped power of two, which is what    *)
(* the probe's delays must be, and a retry waits that long.                  *)
(*                                                                           *)
(* Last the endpoint beside it: the probe keeps its properties, and the      *)
(* loop's invariants say how late the loop can be (LoopTime), what its last  *)
(* success proves (LoopEvidence) and how soon it pings again while xolu is   *)
(* up since before that success (LoopCadence) or only since after it         *)
(* (LoopCatchesUp).                                                          *)
(*****************************************************************************)
EXTENDS Healthz, MCProbe, Induction, TLAPS

\* The goroutine is never overdue by more than Lag.
OnTime == ~Ended => now <= due + Lag

\* Nothing recorded lies in the future.
PastInv ==
    /\ lastPongAt <= now
    /\ lastFailAt <= now
    /\ upSince <= now
    /\ lastUpAt <= now

\* One failure at most per tick of waiting.
PaceInv ==
    /\ Pinging => consecutiveFails <= now
    /\ pc \in {"startWait", "wait"} => consecutiveFails <= due
    /\ pc = "arm" => consecutiveFails <= now + 1

\* The counter summarises the order of the last pong and the last failure.
OrderInv ==
    /\ consecutiveFails = 0 => lastFailAt <= lastPongAt
    /\ consecutiveFails > 0 => lastFailAt >= lastPongAt /\ lastFailAt # Never

\* A recorded pong proves that xolu was up shortly before it was recorded, and
\* a recorded failure that it was not up all along.
EvidenceInv ==
    /\ lastPongAt # Never => UpAt # Never /\ lastPongAt <= UpAt + Timeout + Lag
    /\ (consecutiveFails > 0 /\ xoluUp /\ ~cancelled) =>
            lastFailAt <= upSince + Timeout + Lag

\* While pings succeed, how far the timer lies from the last pong.
CadenceInv ==
    (consecutiveFails = 0 /\ pc \in {"arm", "wait", "ping"}) =>
        /\ lastPongAt # Never
        /\ pc = "arm" => due <= lastPongAt
        /\ pc = "wait" => due <= lastPongAt + Lag + Interval
        /\ pc = "ping" => due <= lastPongAt + 2 * Lag + Interval + Timeout

\* While pings fail, how far the timer lies from the last failure.
BackoffInv ==
    consecutiveFails > 0 =>
        /\ pc = "arm" => due <= lastFailAt
        /\ pc = "wait" => due <= lastFailAt + Lag + LongestDelay
        /\ pc = "ping" => due <= lastFailAt + 2 * Lag + LongestDelay + Timeout

\* How far the timer lies from the published hint; startup publishes none.
HintInv ==
    /\ pc \in {"startPing", "startWait"} => nextRetryAt = Never
    /\ nextRetryAt # Never =>
        /\ nextRetryAt <= now + LongestDelay
        /\ pc = "wait" => due <= nextRetryAt
        /\ pc = "ping" => due <= nextRetryAt + Lag + Timeout
        /\ pc = "arm" => due <= nextRetryAt + 2 * Lag + Timeout

\* The startup loop: every attempt so far failed, and they are spread in time.
StartupInv ==
    /\ StartupMaxAttempts > 0 =>
        /\ pc = "startPing" => attempt <= StartupMaxAttempts
        /\ pc = "startWait" => attempt < StartupMaxAttempts
    /\ pc \in {"startPing", "startWait", "exited"} => lastPongAt = Never
    /\ pc = "startPing" => /\ attemptNumber = attempt - 1
                           /\ now >= (attempt - 1) * Interval
    /\ pc = "startWait" => /\ attemptNumber = attempt
                           /\ due >= attempt * Interval

IInv ==
    /\ TypeOK
    /\ OnTime
    /\ PastInv
    /\ PaceInv
    /\ OrderInv
    /\ EvidenceInv
    /\ CadenceInv
    /\ BackoffInv
    /\ HintInv
    /\ StartupInv
    /\ StartupGivesUpInTime

-----------------------------------------------------------------------------
(***************************************************************************)
(* Every initial state satisfies IInv, and every action preserves it.      *)
(***************************************************************************)

\* The delays of nextDelay are positive and bounded.
LEMMA Delays == \A n \in 0..(Horizon + 1) :
                    Delay[n] \in Nat /\ Delay[n] >= 1 /\ Delay[n] <= LongestDelay
  BY DelayAssumption, TimesAssumption

\* The process starts with an unproven xolu and its first ping in flight.
LEMMA InitIInv == Init => IInv
  <1> SUFFICES ASSUME Init PROVE IInv
    OBVIOUS
  <1> USE TimesAssumption DEF Init, Time, Never, UpAt, Pinging, Ended
  <1>1. TypeOK
    <2>1. cancelled \in BOOLEAN
      OBVIOUS
    <2>2. xoluUp \in BOOLEAN
      OBVIOUS
    <2>3. /\ now \in Time /\ upSince \in Time
          /\ lastPongAt \in Time \cup {Never} /\ lastFailAt \in Time \cup {Never}
          /\ lastUpAt \in Time \cup {Never}
      OBVIOUS
    <2>4. /\ due \in Nat /\ attempt \in Nat \ {0} /\ attemptNumber \in Nat
          /\ consecutiveFails \in 0..(Horizon + 1)
          /\ nextRetryAt \in Nat \cup {Never}
      OBVIOUS
    <2>5. pc = "startPing"
      OBVIOUS
    <2> QED BY ONLY <2>1, <2>2, <2>3, <2>4, <2>5 DEF TypeOK
  <1>2. OnTime /\ PastInv /\ PaceInv /\ OrderInv
    BY DEF OnTime, PastInv, PaceInv, OrderInv
  <1>3. EvidenceInv /\ CadenceInv /\ BackoffInv /\ HintInv
    BY DEF EvidenceInv, CadenceInv, BackoffInv, HintInv
  <1>4. (attempt - 1) * Interval = 0
    <2>1. attempt - 1 = 0
      OBVIOUS
    <2>2. 0 * Interval = 0
      BY SMT DEF TimesAssumption
    <2> QED BY <2>1, <2>2
  <1>5. StartupInv /\ StartupGivesUpInTime
    BY <1>4 DEF StartupInv, StartupGivesUpInTime
  <1> QED BY <1>1, <1>2, <1>3, <1>5 DEF IInv

\* IInv is preserved when the first pong ends WaitReady.
LEMMA StartupPongStep == IInv /\ StartupPong => IInv'
  <1> SUFFICES ASSUME IInv, StartupPong PROVE IInv'
    OBVIOUS
  <1> USE TimesAssumption, DelayAssumption
      DEF IInv, TypeOK, StartupPong, RecordPong, MayPong, PingStart, xolu,
          Time, Never, UpAt, Pinging, Ended
  <1>1. TypeOK'
    BY DEF PaceInv
  <1>2. OnTime'
    BY DEF OnTime
  <1>3. PastInv'
    BY DEF PastInv
  <1>4. PaceInv'
    BY DEF PaceInv, OnTime
  <1>5. OrderInv'
    BY DEF OrderInv, PastInv
  <1>6. EvidenceInv'
    BY DEF EvidenceInv, OnTime, PastInv
  <1>7. CadenceInv'
    BY DEF CadenceInv, OnTime
  <1>8. BackoffInv'
    BY DEF BackoffInv, OnTime, OrderInv
  <1>9. HintInv'
    BY DEF HintInv, OnTime
  <1>10. StartupInv'
    BY DEF StartupInv
  <1>11. StartupGivesUpInTime'
    BY DEF StartupGivesUpInTime, StartupInv
  <1> QED BY <1>1, <1>2, <1>3, <1>4, <1>5, <1>6, <1>7, <1>8, <1>9, <1>10, <1>11

\* IInv is preserved when a failed startup ping.
LEMMA StartupFailStep == IInv /\ StartupFail => IInv'
  <1> SUFFICES ASSUME IInv, StartupFail PROVE IInv'
    OBVIOUS
  <1> USE TimesAssumption, DelayAssumption
      DEF IInv, TypeOK, StartupFail, RecordFail, MayFail, PingStart, OutOfAttempts, xolu,
          Time, Never, UpAt, Pinging, Ended
  <1>1. TypeOK'
    BY DEF PaceInv
  <1>2. OnTime'
    BY DEF OnTime
  <1>3. PastInv'
    BY DEF PastInv
  <1>4. PaceInv'
    BY DEF PaceInv, OnTime
  <1>5. OrderInv'
    BY DEF OrderInv, PastInv
  <1>6. EvidenceInv'
    BY DEF EvidenceInv, OnTime, PastInv
  <1>7. CadenceInv'
    BY DEF CadenceInv, OnTime
  <1>8. BackoffInv'
    BY DEF BackoffInv, OnTime, OrderInv
  <1>9. HintInv'
    BY DEF HintInv, OnTime
  <1>10. StartupInv'
    BY DEF StartupInv
  <1>11. StartupGivesUpInTime'
    BY DEF StartupGivesUpInTime, StartupInv
  <1> QED BY <1>1, <1>2, <1>3, <1>4, <1>5, <1>6, <1>7, <1>8, <1>9, <1>10, <1>11

\* IInv is preserved when the next startup attempt.
LEMMA StartupRetryStep == IInv /\ StartupRetry => IInv'
  <1> SUFFICES ASSUME IInv, StartupRetry PROVE IInv'
    OBVIOUS
  <1> USE TimesAssumption, DelayAssumption
      DEF IInv, TypeOK, StartupRetry, probeState, xolu,
          Time, Never, UpAt, Pinging, Ended
  <1>1. TypeOK'
    BY DEF PaceInv
  <1>2. OnTime'
    BY DEF OnTime
  <1>3. PastInv'
    BY DEF PastInv
  <1>4. PaceInv'
    BY DEF PaceInv, OnTime
  <1>5. OrderInv'
    BY DEF OrderInv, PastInv
  <1>6. EvidenceInv'
    BY DEF EvidenceInv, OnTime, PastInv
  <1>7. CadenceInv'
    BY DEF CadenceInv, OnTime
  <1>8. BackoffInv'
    BY DEF BackoffInv, OnTime, OrderInv
  <1>9. HintInv'
    BY DEF HintInv, OnTime
  <1>10. StartupInv'
    BY DEF StartupInv
  <1>11. StartupGivesUpInTime'
    BY DEF StartupGivesUpInTime, StartupInv
  <1> QED BY <1>1, <1>2, <1>3, <1>4, <1>5, <1>6, <1>7, <1>8, <1>9, <1>10, <1>11

\* IInv is preserved when Run publishes the hint and sleeps.
LEMMA ArmStep == IInv /\ Arm => IInv'
  <1> SUFFICES ASSUME IInv, Arm PROVE IInv'
    OBVIOUS
  <1> USE TimesAssumption, DelayAssumption
      DEF IInv, TypeOK, Arm, xolu,
          Time, Never, UpAt, Pinging, Ended
  <1>0. Delay[consecutiveFails] \in Nat \ {0} /\ Delay[consecutiveFails] <= LongestDelay
    BY Delays
  <1>1. TypeOK'
    BY <1>0 DEF PaceInv
  <1>2. OnTime'
    BY <1>0 DEF OnTime
  <1>3. PastInv'
    BY <1>0 DEF PastInv
  <1>4. PaceInv'
    BY <1>0 DEF PaceInv, OnTime
  <1>5. OrderInv'
    BY <1>0 DEF OrderInv, PastInv
  <1>6. EvidenceInv'
    BY <1>0 DEF EvidenceInv, OnTime, PastInv
  <1>7. CadenceInv'
    BY <1>0 DEF CadenceInv, OnTime
  <1>8. BackoffInv'
    BY <1>0 DEF BackoffInv, OnTime, OrderInv
  <1>9. HintInv'
    BY <1>0 DEF HintInv, OnTime
  <1>10. StartupInv'
    BY <1>0 DEF StartupInv
  <1>11. StartupGivesUpInTime'
    BY <1>0 DEF StartupGivesUpInTime, StartupInv
  <1> QED BY <1>1, <1>2, <1>3, <1>4, <1>5, <1>6, <1>7, <1>8, <1>9, <1>10, <1>11

\* IInv is preserved when Run sends a ping.
LEMMA WakeStep == IInv /\ Wake => IInv'
  <1> SUFFICES ASSUME IInv, Wake PROVE IInv'
    OBVIOUS
  <1> USE TimesAssumption, DelayAssumption
      DEF IInv, TypeOK, Wake, probeState, xolu,
          Time, Never, UpAt, Pinging, Ended
  <1>1. TypeOK'
    BY DEF PaceInv
  <1>2. OnTime'
    BY DEF OnTime
  <1>3. PastInv'
    BY DEF PastInv
  <1>4. PaceInv'
    BY DEF PaceInv, OnTime
  <1>5. OrderInv'
    BY DEF OrderInv, PastInv
  <1>6. EvidenceInv'
    BY DEF EvidenceInv, OnTime, PastInv
  <1>7. CadenceInv'
    BY DEF CadenceInv, OnTime
  <1>8. BackoffInv'
    BY DEF BackoffInv, OnTime, OrderInv
  <1>9. HintInv'
    BY DEF HintInv, OnTime
  <1>10. StartupInv'
    BY DEF StartupInv
  <1>11. StartupGivesUpInTime'
    BY DEF StartupGivesUpInTime, StartupInv
  <1> QED BY <1>1, <1>2, <1>3, <1>4, <1>5, <1>6, <1>7, <1>8, <1>9, <1>10, <1>11

\* IInv is preserved when Run records a pong.
LEMMA PongStep == IInv /\ Pong => IInv'
  <1> SUFFICES ASSUME IInv, Pong PROVE IInv'
    OBVIOUS
  <1> USE TimesAssumption, DelayAssumption
      DEF IInv, TypeOK, Pong, RecordPong, MayPong, PingStart, xolu,
          Time, Never, UpAt, Pinging, Ended
  <1>1. TypeOK'
    BY DEF PaceInv
  <1>2. OnTime'
    BY DEF OnTime
  <1>3. PastInv'
    BY DEF PastInv
  <1>4. PaceInv'
    BY DEF PaceInv, OnTime
  <1>5. OrderInv'
    BY DEF OrderInv, PastInv
  <1>6. EvidenceInv'
    BY DEF EvidenceInv, OnTime, PastInv
  <1>7. CadenceInv'
    BY DEF CadenceInv, OnTime
  <1>8. BackoffInv'
    BY DEF BackoffInv, OnTime, OrderInv
  <1>9. HintInv'
    BY DEF HintInv, OnTime
  <1>10. StartupInv'
    BY DEF StartupInv
  <1>11. StartupGivesUpInTime'
    BY DEF StartupGivesUpInTime, StartupInv
  <1> QED BY <1>1, <1>2, <1>3, <1>4, <1>5, <1>6, <1>7, <1>8, <1>9, <1>10, <1>11

\* IInv is preserved when Run records a failure.
LEMMA FailStep == IInv /\ Fail => IInv'
  <1> SUFFICES ASSUME IInv, Fail PROVE IInv'
    OBVIOUS
  <1> USE TimesAssumption, DelayAssumption
      DEF IInv, TypeOK, Fail, RecordFail, MayFail, PingStart, xolu,
          Time, Never, UpAt, Pinging, Ended
  <1>1. TypeOK'
    BY DEF PaceInv
  <1>2. OnTime'
    BY DEF OnTime
  <1>3. PastInv'
    BY DEF PastInv
  <1>4. PaceInv'
    BY DEF PaceInv, OnTime
  <1>5. OrderInv'
    BY DEF OrderInv, PastInv
  <1>6. EvidenceInv'
    BY DEF EvidenceInv, OnTime, PastInv
  <1>7. CadenceInv'
    BY DEF CadenceInv, OnTime
  <1>8. BackoffInv'
    BY DEF BackoffInv, OnTime, OrderInv
  <1>9. HintInv'
    BY DEF HintInv, OnTime
  <1>10. StartupInv'
    BY DEF StartupInv
  <1>11. StartupGivesUpInTime'
    BY DEF StartupGivesUpInTime, StartupInv
  <1> QED BY <1>1, <1>2, <1>3, <1>4, <1>5, <1>6, <1>7, <1>8, <1>9, <1>10, <1>11

\* IInv is preserved when Run returns.
LEMMA StopRunStep == IInv /\ StopRun => IInv'
  <1> SUFFICES ASSUME IInv, StopRun PROVE IInv'
    OBVIOUS
  <1> USE TimesAssumption, DelayAssumption
      DEF IInv, TypeOK, StopRun, probeState, xolu,
          Time, Never, UpAt, Pinging, Ended
  <1>1. TypeOK'
    BY DEF PaceInv
  <1>2. OnTime'
    BY DEF OnTime
  <1>3. PastInv'
    BY DEF PastInv
  <1>4. PaceInv'
    BY DEF PaceInv, OnTime
  <1>5. OrderInv'
    BY DEF OrderInv, PastInv
  <1>6. EvidenceInv'
    BY DEF EvidenceInv, OnTime, PastInv
  <1>7. CadenceInv'
    BY DEF CadenceInv, OnTime
  <1>8. BackoffInv'
    BY DEF BackoffInv, OnTime, OrderInv
  <1>9. HintInv'
    BY DEF HintInv, OnTime
  <1>10. StartupInv'
    BY DEF StartupInv
  <1>11. StartupGivesUpInTime'
    BY DEF StartupGivesUpInTime, StartupInv
  <1> QED BY <1>1, <1>2, <1>3, <1>4, <1>5, <1>6, <1>7, <1>8, <1>9, <1>10, <1>11

\* IInv is preserved when shutdown cancels ctx.
LEMMA CancelStep == IInv /\ Cancel => IInv'
  <1> SUFFICES ASSUME IInv, Cancel PROVE IInv'
    OBVIOUS
  <1> USE TimesAssumption, DelayAssumption
      DEF IInv, TypeOK, Cancel, probeState, xolu,
          Time, Never, UpAt, Pinging, Ended
  <1>1. TypeOK'
    BY DEF PaceInv
  <1>2. OnTime'
    BY DEF OnTime
  <1>3. PastInv'
    BY DEF PastInv
  <1>4. PaceInv'
    BY DEF PaceInv, OnTime
  <1>5. OrderInv'
    BY DEF OrderInv, PastInv
  <1>6. EvidenceInv'
    BY DEF EvidenceInv, OnTime, PastInv
  <1>7. CadenceInv'
    BY DEF CadenceInv, OnTime
  <1>8. BackoffInv'
    BY DEF BackoffInv, OnTime, OrderInv
  <1>9. HintInv'
    BY DEF HintInv, OnTime
  <1>10. StartupInv'
    BY DEF StartupInv
  <1>11. StartupGivesUpInTime'
    BY DEF StartupGivesUpInTime, StartupInv
  <1> QED BY <1>1, <1>2, <1>3, <1>4, <1>5, <1>6, <1>7, <1>8, <1>9, <1>10, <1>11

\* IInv is preserved when xolu goes down.
LEMMA XoluFailsStep == IInv /\ XoluFails => IInv'
  <1> SUFFICES ASSUME IInv, XoluFails PROVE IInv'
    OBVIOUS
  <1> USE TimesAssumption, DelayAssumption
      DEF IInv, TypeOK, XoluFails, probeState,
          Time, Never, UpAt, Pinging, Ended
  <1>1. TypeOK'
    BY DEF PaceInv
  <1>2. OnTime'
    BY DEF OnTime
  <1>3. PastInv'
    BY DEF PastInv
  <1>4. PaceInv'
    BY DEF PaceInv, OnTime
  <1>5. OrderInv'
    BY DEF OrderInv, PastInv
  <1>6. EvidenceInv'
    BY DEF EvidenceInv, OnTime, PastInv
  <1>7. CadenceInv'
    BY DEF CadenceInv, OnTime
  <1>8. BackoffInv'
    BY DEF BackoffInv, OnTime, OrderInv
  <1>9. HintInv'
    BY DEF HintInv, OnTime
  <1>10. StartupInv'
    BY DEF StartupInv
  <1>11. StartupGivesUpInTime'
    BY DEF StartupGivesUpInTime, StartupInv
  <1> QED BY <1>1, <1>2, <1>3, <1>4, <1>5, <1>6, <1>7, <1>8, <1>9, <1>10, <1>11

\* IInv is preserved when xolu comes back.
LEMMA XoluRecoversStep == IInv /\ XoluRecovers => IInv'
  <1> SUFFICES ASSUME IInv, XoluRecovers PROVE IInv'
    OBVIOUS
  <1> USE TimesAssumption, DelayAssumption
      DEF IInv, TypeOK, XoluRecovers, probeState,
          Time, Never, UpAt, Pinging, Ended
  <1>1. TypeOK'
    BY DEF PaceInv
  <1>2. OnTime'
    BY DEF OnTime
  <1>3. PastInv'
    BY DEF PastInv
  <1>4. PaceInv'
    BY DEF PaceInv, OnTime
  <1>5. OrderInv'
    BY DEF OrderInv, PastInv
  <1>6. EvidenceInv'
    BY DEF EvidenceInv, OnTime, PastInv
  <1>7. CadenceInv'
    BY DEF CadenceInv, OnTime
  <1>8. BackoffInv'
    BY DEF BackoffInv, OnTime, OrderInv
  <1>9. HintInv'
    BY DEF HintInv, OnTime
  <1>10. StartupInv'
    BY DEF StartupInv
  <1>11. StartupGivesUpInTime'
    BY DEF StartupGivesUpInTime, StartupInv
  <1> QED BY <1>1, <1>2, <1>3, <1>4, <1>5, <1>6, <1>7, <1>8, <1>9, <1>10, <1>11

\* IInv is preserved when time passes.
LEMMA TickStep == IInv /\ Tick => IInv'
  <1> SUFFICES ASSUME IInv, Tick PROVE IInv'
    OBVIOUS
  <1> USE TimesAssumption, DelayAssumption
      DEF IInv, TypeOK, Tick, probeState, xolu,
          Time, Never, UpAt, Pinging, Ended
  <1>1. TypeOK'
    BY DEF PaceInv
  <1>2. OnTime'
    BY DEF OnTime
  <1>3. PastInv'
    BY DEF PastInv
  <1>4. PaceInv'
    BY DEF PaceInv, OnTime
  <1>5. OrderInv'
    BY DEF OrderInv, PastInv
  <1>6. EvidenceInv'
    BY DEF EvidenceInv, OnTime, PastInv
  <1>7. CadenceInv'
    BY DEF CadenceInv, OnTime
  <1>8. BackoffInv'
    BY DEF BackoffInv, OnTime, OrderInv
  <1>9. HintInv'
    BY DEF HintInv, OnTime
  <1>10. StartupInv'
    BY DEF StartupInv
  <1>11. StartupGivesUpInTime'
    BY DEF StartupGivesUpInTime, StartupInv
  <1> QED BY <1>1, <1>2, <1>3, <1>4, <1>5, <1>6, <1>7, <1>8, <1>9, <1>10, <1>11

\* A step that changes nothing preserves IInv.
LEMMA StutterStep == IInv /\ UNCHANGED vars => IInv'
  BY DEF vars, probeState, xolu, IInv, TypeOK, OnTime, PastInv, PaceInv, OrderInv,
         EvidenceInv, CadenceInv, BackoffInv, HintInv, StartupInv,
         StartupGivesUpInTime, UpAt, Pinging, Ended

LEMMA NextIInv == IInv /\ [Next]_vars => IInv'
  BY StartupPongStep, StartupFailStep, StartupRetryStep, ArmStep, WakeStep,
     PongStep, FailStep, StopRunStep, CancelStep, XoluFailsStep,
     XoluRecoversStep, TickStep, StutterStep
  DEF Next

THEOREM Invariance == Spec => []IInv
  BY InitIInv, NextIInv, PTL DEF Spec

-----------------------------------------------------------------------------
(***************************************************************************)
(* The properties the runs check, from IInv.                               *)
(***************************************************************************)

\* Every variable keeps its type; the failure counter stays in Delay's domain.
THEOREM TypeCorrect == Spec => []TypeOK
  <1>1. IInv => TypeOK
    BY DEF IInv
  <1> QED BY Invariance, <1>1, PTL

LEMMA HealthyHasEvidenceNow == IInv => HealthyHasEvidence
  BY TimesAssumption
  DEF IInv, TypeOK, EvidenceInv, HealthyHasEvidence, Healthy, UpAt, Time, Never

\* The gate (probe.go:94-100) is open only with recent evidence that xolu is up.
THEOREM GateHasEvidence == Spec => []HealthyHasEvidence
  BY Invariance, HealthyHasEvidenceNow, PTL

LEMMA NoFalseAlarmNow == IInv => NoFalseAlarm
  BY TimesAssumption
  DEF IInv, TypeOK, OnTime, CadenceInv, NoFalseAlarm, FreshnessCoversCycle,
      Running, Healthy, Ended, Time, Never

\* With a window that covers a cycle the gate does not flap between pongs.
THEOREM GateStaysOpen == Spec => []NoFalseAlarm
  BY Invariance, NoFalseAlarmNow, PTL

LEMMA RecoveryBoundedNow == IInv => RecoveryBounded
  BY TimesAssumption, DelayAssumption
  DEF IInv, TypeOK, OnTime, EvidenceInv, BackoffInv, RecoveryBounded,
      Running, Ended, Time, Never

\* An outage ends for molu within a known time of ending for xolu.
THEOREM OutageEnds == Spec => []RecoveryBounded
  BY Invariance, RecoveryBoundedNow, PTL

\* The nextRetryAt of a refusal (probe.go:118-123) can be relied on.
THEOREM HintIsHonest == Spec => []RetryHintHonest
  <1>1. IInv => RetryHintHonest
    BY TimesAssumption, DelayAssumption
    DEF IInv, TypeOK, OnTime, HintInv, RetryHintHonest, Running, Ended, Time, Never
  <1> QED BY Invariance, <1>1, PTL

\* The counter and the timestamps tell the same story (probe.go:84-87).
THEOREM CounterAgrees == Spec => []FailCounterAgreesWithTimes
  <1>1. IInv => FailCounterAgreesWithTimes
    BY DEF IInv, TypeOK, OrderInv, FailCounterAgreesWithTimes, Time, Never
  <1> QED BY Invariance, <1>1, PTL

\* WaitReady gives up after exactly the configured attempts (probe.go:156).
THEOREM StartupIsPatient == Spec => []StartupGivesUpInTime
  <1>1. IInv => StartupGivesUpInTime
    BY DEF IInv
  <1> QED BY Invariance, <1>1, PTL

-----------------------------------------------------------------------------
(***************************************************************************)
(* The delays of nextDelay: its loop, which stops doubling at the ceiling, *)
(* comes to the power of two under the cap.                                *)
(***************************************************************************)
LEMMA PowersAreIterated ==
    ASSUME NEW n \in Nat
    PROVE  \E p \in [0..n -> Nat] :
               PowerOf2(n) = p[n] /\ p[0] = 1 /\ \A i \in 0..(n - 1) : p[i + 1] = 2 * p[i]
<1> DEFINE g == [v \in Nat |-> 2 * v]
           IsPower(p) == p = [i \in 0..n |-> IF i = 0 THEN 1 ELSE 2 * p[i - 1]]
           p == CHOOSE p : IsPower(p)
<1>1. g \in [Nat -> Nat] /\ \A v \in Nat : g[v] = 2 * v
  OBVIOUS
<1>2. PowerOf2(n) = p[n]
  BY DEF PowerOf2
<1> HIDE DEF g, p
<1>3. PICK f : IsIteration(f, 1, g, n)
  BY IterationExists
<1>4. f \in [0..n -> Nat]
  BY <1>1, <1>3, IterationValues
<1>5. \A i \in 0..n : i = 0 \/ i - 1 \in 0..n
  OBVIOUS
<1>6. IsPower(f)
  BY <1>1, <1>3, <1>4, <1>5 DEF IsIteration
<1>7. IsPower(p)
  BY <1>6 DEF p
<1>8. p[0] = 1 /\ \A i \in 0..(n - 1) : p[i + 1] = 2 * p[i]
  <2>1. 0 \in 0..n /\ \A i \in 0..(n - 1) : i + 1 \in 0..n /\ i + 1 # 0 /\ (i + 1) - 1 = i
    OBVIOUS
  <2> QED
    BY <1>7, <2>1
<1> DEFINE S == {i \in Nat : p[i] \in Nat}
<1>9. 0 \in S /\ \A i \in 0..(n - 1) : i \in S => i + 1 \in S
  BY <1>8
<1>10. \A i \in 0..n : i \in S
  <2> HIDE DEF S
  <2> QED
    BY <1>9, BoundedInduction
<1>11. p \in [0..n -> Nat]
  BY <1>7, <1>10
<1> QED
  BY <1>2, <1>8, <1>11

\* The delays before the cap, one failure after another.
AreDelays(d, floor, ceiling, n) ==
    /\ d \in [0..n -> Nat] /\ d[0] = floor
    /\ \A i \in 0..(n - 1) : d[i + 1] = IF d[i] < ceiling THEN 2 * d[i] ELSE d[i]

LEMMA DelaysAreIterated ==
    ASSUME NEW floor, floor \in Nat, NEW ceiling, ceiling \in Nat, NEW n, n \in Nat
    PROVE  \E d : AreDelays(d, floor, ceiling, n) /\ B!Doubled(floor, ceiling, n) = d[n]
<1> DEFINE g == [v \in Nat |-> IF v < ceiling THEN 2 * v ELSE v]
           IsDelay(d) == d = [i \in 0..n |-> IF i = 0 THEN floor
                                             ELSE IF d[i - 1] < ceiling THEN 2 * d[i - 1] ELSE d[i - 1]]
           d == CHOOSE d : IsDelay(d)
<1>1. g \in [Nat -> Nat] /\ \A v \in Nat : g[v] = IF v < ceiling THEN 2 * v ELSE v
  OBVIOUS
<1>2. B!Doubled(floor, ceiling, n) = d[n]
  BY DEF B!Doubled
<1> HIDE DEF g, d
<1>3. PICK f : IsIteration(f, floor, g, n)
  BY IterationExists
<1>4. f \in [0..n -> Nat]
  BY <1>1, <1>3, IterationValues
<1>5. \A i \in 0..n : i = 0 \/ i - 1 \in 0..n
  OBVIOUS
<1>6. IsDelay(f)
  BY <1>1, <1>3, <1>4, <1>5 DEF IsIteration
<1>7. IsDelay(d)
  BY <1>6 DEF d
<1>8. d[0] = floor /\ \A i \in 0..(n - 1) : d[i + 1] = IF d[i] < ceiling THEN 2 * d[i] ELSE d[i]
  <2>1. 0 \in 0..n /\ \A i \in 0..(n - 1) : i + 1 \in 0..n /\ i + 1 # 0 /\ (i + 1) - 1 = i
    OBVIOUS
  <2> QED
    BY <1>7, <2>1
<1> DEFINE S == {i \in Nat : d[i] \in Nat}
<1>9. 0 \in S /\ \A i \in 0..(n - 1) : i \in S => i + 1 \in S
  BY <1>8
<1>10. \A i \in 0..n : i \in S
  <2> HIDE DEF S
  <2> QED
    BY <1>9, BoundedInduction
<1>11. d \in [0..n -> Nat]
  BY <1>7, <1>10
<1> QED
  BY <1>2, <1>8, <1>11 DEF AreDelays

LEMMA CappedPower ==
    ASSUME NEW floor \in Nat, NEW ceiling \in Nat, NEW n \in Nat
    PROVE  B!Least(B!Doubled(floor, ceiling, n), ceiling) = B!Least(floor * PowerOf2(n), ceiling)
<1>1. PICK p \in [0..n -> Nat] :
          PowerOf2(n) = p[n] /\ p[0] = 1 /\ \A i \in 0..(n - 1) : p[i + 1] = 2 * p[i]
  BY PowersAreIterated
<1>0. PICK d : AreDelays(d, floor, ceiling, n) /\ B!Doubled(floor, ceiling, n) = d[n]
  BY DelaysAreIterated
<1>2. /\ B!Doubled(floor, ceiling, n) = d[n] /\ d[0] = floor /\ d \in [0..n -> Nat]
      /\ \A i \in 0..(n - 1) : d[i + 1] = IF d[i] < ceiling THEN 2 * d[i] ELSE d[i]
  BY <1>0 DEF AreDelays
<1> DEFINE S == {i \in 0..n : d[i] = floor * p[i] \/ (d[i] >= ceiling /\ floor * p[i] >= ceiling)}
<1>3. 0 \in S
  <2>1. floor * 1 = floor /\ 0 \in 0..n
    OBVIOUS
  <2> QED
    BY <1>1, <1>2, <2>1
<1>4. ASSUME NEW i \in 0..(n - 1), i \in S PROVE i + 1 \in S
  <2>1. PICK q, r : q = floor * p[i] /\ r = floor * p[i + 1]
    OBVIOUS
  <2>2. i \in 0..n /\ i + 1 \in 0..n /\ p[i] \in Nat /\ d[i] \in Nat
    BY <1>2
  <2>3. q \in Nat /\ r = 2 * q
    <3>1. \A v \in Nat : floor * v \in Nat /\ floor * (2 * v) = 2 * (floor * v)
      OBVIOUS
    <3> QED
      BY <1>1, <2>1, <2>2, <3>1
  <2>4. d[i] = q \/ (d[i] >= ceiling /\ q >= ceiling)
    BY <1>4, <2>1
  <2>5. d[i + 1] = IF d[i] < ceiling THEN 2 * d[i] ELSE d[i]
    BY <1>2
  <2>6. d[i + 1] = r \/ (d[i + 1] >= ceiling /\ r >= ceiling)
    BY <2>2, <2>3, <2>4, <2>5
  <2> QED
    BY <2>1, <2>2, <2>6
<1>5. n \in S
  <2> HIDE DEF S
  <2>1. \A i \in 0..n : i \in S
    BY <1>3, <1>4, BoundedInduction
  <2> QED
    BY <2>1
<1>6. d[n] = floor * p[n] \/ (d[n] >= ceiling /\ floor * p[n] >= ceiling)
  BY <1>5
<1>7. d[n] \in Nat /\ floor * p[n] \in Nat
  <2>1. \A v \in Nat : floor * v \in Nat
    OBVIOUS
  <2> QED
    BY <1>2, <2>1
<1> QED
  BY <1>1, <1>2, <1>6, <1>7 DEF B!Least

LEMMA PowerDoubles ==
    ASSUME NEW n \in Nat
    PROVE  PowerOf2(n) \in Nat \ {0} /\ PowerOf2(n + 1) = 2 * PowerOf2(n)
<1>1. PICK p \in [0..n -> Nat] :
          PowerOf2(n) = p[n] /\ p[0] = 1 /\ \A i \in 0..(n - 1) : p[i + 1] = 2 * p[i]
  BY PowersAreIterated
<1>2. PICK q \in [0..(n + 1) -> Nat] :
          PowerOf2(n + 1) = q[n + 1] /\ q[0] = 1 /\ \A i \in 0..((n + 1) - 1) : q[i + 1] = 2 * q[i]
  <2>1. n + 1 \in Nat
    OBVIOUS
  <2> QED
    BY <2>1, PowersAreIterated
<1> DEFINE S == {i \in 0..n : p[i] = q[i] /\ p[i] # 0}
<1>3. 0 \in S
  BY <1>1, <1>2
<1>4. ASSUME NEW i \in 0..(n - 1), i \in S PROVE i + 1 \in S
  <2>1. p[i + 1] = 2 * p[i] /\ i + 1 \in 0..n /\ p[i] \in Nat
    BY <1>1
  <2>2. q[i + 1] = 2 * q[i]
    BY <1>2
  <2> QED
    BY <1>4, <2>1, <2>2
<1>5. n \in S
  <2> HIDE DEF S
  <2>1. \A i \in 0..n : i \in S
    BY <1>3, <1>4, BoundedInduction
  <2> QED
    BY <2>1
<1>6. q[n + 1] = 2 * q[n]
  BY <1>2
<1> QED
  BY <1>1, <1>2, <1>5, <1>6

(***************************************************************************)
(* What nextDelay computes from a positive interval, floor and ceiling is  *)
(* what DelayAssumption asks of the delays, and a longer run of failures   *)
(* never makes the probe wait less.                                        *)
(***************************************************************************)
THEOREM NextDelayFits ==
    ASSUME FailFloor \in Nat \ {0}, FailCeiling \in Nat \ {0}
    PROVE  /\ MCLongestDelay \in Nat
           /\ MCDelay \in [0..(Horizon + 1) -> 1..MCLongestDelay]
           /\ MCDelay[0] = Interval
           /\ \A n \in 1..Horizon : MCDelay[n] <= MCDelay[n + 1]
<1>1. Interval \in Nat \ {0} /\ Horizon \in Nat
  BY TimesAssumption
<1>2. \A n \in Nat : FailFloor * PowerOf2(n) \in Nat \ {0}
  <2>1. \A v \in Nat \ {0} : FailFloor * v \in Nat \ {0}
    OBVIOUS
  <2> QED
    BY <2>1, PowerDoubles
<1>3. \A n \in 1..(Horizon + 1) :
        MCDelay[n] = B!Least(FailFloor * PowerOf2(n - 1), FailCeiling)
  <2> SUFFICES ASSUME NEW n \in 1..(Horizon + 1)
               PROVE  MCDelay[n] = B!Least(FailFloor * PowerOf2(n - 1), FailCeiling)
    OBVIOUS
  <2>1. n - 1 \in Nat /\ n # 0 /\ n \in 0..(Horizon + 1)
    BY <1>1
  <2> QED
    BY <2>1, CappedPower DEF MCDelay, B!NextDelay
<1>4. MCDelay[0] = Interval
  BY <1>1 DEF MCDelay, B!NextDelay
<1>5. \A n \in 0..(Horizon + 1) : MCDelay[n] \in 1..MCLongestDelay
  <2> SUFFICES ASSUME NEW n \in 0..(Horizon + 1) PROVE MCDelay[n] \in 1..MCLongestDelay
    OBVIOUS
  <2>1. CASE n = 0
    BY <1>1, <1>4, <2>1 DEF MCLongestDelay
  <2>2. CASE n # 0
    <3>1. n \in 1..(Horizon + 1) /\ n - 1 \in Nat
      BY <1>1, <2>2
    <3>2. PICK v \in Nat \ {0} : v = FailFloor * PowerOf2(n - 1)
      BY <1>2, <3>1
    <3>3. MCDelay[n] = B!Least(v, FailCeiling)
      BY <1>3, <3>1, <3>2
    <3> QED
      BY <1>1, <3>3 DEF B!Least, MCLongestDelay
  <2> QED
    BY <2>1, <2>2
<1>6. ASSUME NEW n \in 1..Horizon PROVE MCDelay[n] <= MCDelay[n + 1]
  <2>1. n - 1 \in Nat /\ n \in 1..(Horizon + 1) /\ n + 1 \in 1..(Horizon + 1) /\ (n + 1) - 1 = (n - 1) + 1
    BY <1>1
  <2>2. PICK v \in Nat \ {0} : v = FailFloor * PowerOf2(n - 1)
    BY <1>2, <2>1
  <2>3. FailFloor * PowerOf2((n + 1) - 1) = 2 * v
    <3>1. \A w \in Nat : FailFloor * (2 * w) = 2 * (FailFloor * w)
      OBVIOUS
    <3>2. PowerOf2((n + 1) - 1) = 2 * PowerOf2(n - 1) /\ PowerOf2(n - 1) \in Nat
      BY <2>1, PowerDoubles
    <3> QED
      BY <2>2, <3>1, <3>2
  <2>4. MCDelay[n] = B!Least(v, FailCeiling) /\ MCDelay[n + 1] = B!Least(2 * v, FailCeiling)
    BY <1>3, <2>1, <2>2, <2>3
  <2> QED
    BY <2>4 DEF B!Least
<1>7. MCLongestDelay \in Nat
  BY <1>1 DEF MCLongestDelay
<1> QED
  BY <1>4, <1>5, <1>6, <1>7 DEF MCDelay

(***************************************************************************)
(* A retry is armed within Lag of the failure that it follows.             *)
(***************************************************************************)
RetryInv ==
    pc \in {"wait", "ping"} /\ consecutiveFails > 0 =>
        nextRetryAt - lastFailAt - Delay[consecutiveFails] \in 0..Lag

LEMMA RetryStep == IInv /\ RetryInv /\ [Next]_vars => RetryInv'
<1> SUFFICES ASSUME IInv, RetryInv, [Next]_vars, pc' \in {"wait", "ping"}, consecutiveFails' > 0
             PROVE  nextRetryAt' - lastFailAt' - Delay[consecutiveFails'] \in 0..Lag
  BY DEF RetryInv
<1>1. CASE Arm
  <2>1. /\ pc = "arm" /\ nextRetryAt' = now + Delay[consecutiveFails]
        /\ lastFailAt' = lastFailAt /\ consecutiveFails' = consecutiveFails
    BY <1>1 DEF Arm
  <2>2. /\ now \in Int /\ lastFailAt \in Int /\ due \in Int /\ Lag \in Nat
        /\ consecutiveFails \in 0..(Horizon + 1)
    BY TimesAssumption DEF IInv, TypeOK, Time, Never
  <2>3. lastFailAt <= now /\ now <= due + Lag /\ due <= lastFailAt
    BY <2>1 DEF IInv, PastInv, OnTime, BackoffInv, Ended
  <2>4. Delay[consecutiveFails] \in Nat
    BY <2>2, Delays
  <2> QED
    BY <2>1, <2>2, <2>3, <2>4
<1>2. CASE UNCHANGED <<nextRetryAt, lastFailAt, consecutiveFails>> /\ pc \in {"wait", "ping"}
  BY <1>2 DEF RetryInv
<1>3. \/ Arm
      \/ UNCHANGED <<nextRetryAt, lastFailAt, consecutiveFails>> /\ pc \in {"wait", "ping"}
  BY DEF Next, vars, probeState, StartupPong, StartupFail, StartupRetry, Wake, Pong, Fail, StopRun,
         Cancel, XoluFails, XoluRecovers, Tick
<1> QED
  BY <1>1, <1>2, <1>3

(***************************************************************************)
(* The n-th failure in a row is followed by the floor doubled n - 1 times, *)
(* capped, and what the scheduler adds between the failure and the timer.  *)
(***************************************************************************)
THEOREM RetriesWaitCappedPower == Spec => []RetryWaitsCappedPower
<1>1. Init => RetryInv
  BY DEF Init, RetryInv
<1>2. Spec => []RetryInv
  BY <1>1, RetryStep, Invariance, PTL DEF Spec
<1>3. ASSUME IInv, RetryInv PROVE RetryWaitsCappedPower
  <2> SUFFICES ASSUME pc \in {"wait", "ping"}, consecutiveFails > 0
               PROVE  nextRetryAt - lastFailAt
                        - B!Least(FailFloor * PowerOf2(consecutiveFails - 1), FailCeiling) \in 0..Lag
    BY DEF RetryWaitsCappedPower
  <2>1. consecutiveFails \in 0..(Horizon + 1) /\ consecutiveFails - 1 \in Nat /\ consecutiveFails # 0
    BY <1>3, TimesAssumption DEF IInv, TypeOK
  <2>2. Delay[consecutiveFails]
          = B!Least(B!Doubled(FailFloor, FailCeiling, consecutiveFails - 1), FailCeiling)
    BY <2>1, BackoffAssumption DEF MCDelay, B!NextDelay
  <2>3. Delay[consecutiveFails] = B!Least(FailFloor * PowerOf2(consecutiveFails - 1), FailCeiling)
    BY <2>1, <2>2, BackoffAssumption, CappedPower
  <2> QED
    BY <1>3, <2>3 DEF RetryInv
<1> QED
  BY <1>2, <1>3, Invariance, PTL

-----------------------------------------------------------------------------

LoopType ==
    /\ loop \in {"off", "wait", "ping", "stopped"}
    /\ nextTick \in Nat
    /\ pingedAt \in Time \cup {Never}
    /\ lastSuccessPing \in Time \cup {Never}
    /\ loop = "off" => lastSuccessPing = Never

LoopTime ==
    /\ lastSuccessPing <= now
    /\ loop = "wait" => nextTick <= now + Period
    /\ loop = "ping" =>
        /\ pingedAt # Never /\ lastSuccessPing <= pingedAt /\ pingedAt <= now
        /\ now <= pingedAt + Timeout + Lag
        /\ nextTick <= pingedAt + Period

LoopEvidence ==
    lastSuccessPing # Never => UpAt # Never /\ lastSuccessPing <= UpAt + Timeout + Lag

LoopCadence ==
    (xoluUp /\ ~cancelled /\ lastSuccessPing # Never /\ upSince < lastSuccessPing) =>
        /\ loop = "wait" => \/ now = lastSuccessPing
                            \/ now <= nextTick + Lag /\ nextTick <= lastSuccessPing + Period
        /\ loop = "ping" => pingedAt <= lastSuccessPing + Period + Lag
        /\ loop = "wait" => nextTick <= lastSuccessPing + Period

LoopCatchesUp ==
    (xoluUp /\ ~cancelled /\ lastSuccessPing # Never /\ lastSuccessPing <= upSince) =>
        /\ loop = "wait" => /\ nextTick <= upSince + Period
                            /\ now <= nextTick + Lag \/ now <= upSince + Timeout + Lag
        /\ loop = "ping" => pingedAt <= upSince + Period + Lag \/ pingedAt <= upSince + Timeout + Lag

LoopInv == LoopType /\ LoopTime /\ LoopEvidence /\ LoopCadence /\ LoopCatchesUp

-----------------------------------------------------------------------------

LEMMA InitLoop == HealthzInit => LoopInv
BY HealthzAssumption, TimesAssumption
   DEF HealthzInit, Init, LoopInv, LoopType, LoopTime, LoopEvidence, LoopCadence, LoopCatchesUp, Time, Never, UpAt

\* After a ping the ticker fires within one period.
LEMMA NextTickNear ==
    ASSUME NEW t \in Nat, NEW n \in Nat, n >= t
    PROVE  LET u == t + Period * ((n - t) \div Period + 1)
           IN  u \in Nat /\ n < u /\ u <= n + Period
<1> DEFINE q == (n - t) \div Period
<1>1. Period \in Nat \ {0} /\ n - t \in Nat
  BY HealthzAssumption
<1>2. q \in Nat
  BY <1>1
<1>3. Period * q <= n - t /\ n - t < Period * q + Period
  BY <1>1
<1>4. Period * (q + 1) = Period * q + Period /\ Period * q \in Nat
  BY <1>1, <1>2
<1> QED
  BY <1>1, <1>2, <1>3, <1>4

LEMMA StartLoopInv == IInv /\ LoopInv /\ StartLoop => LoopInv'
BY HealthzAssumption, TimesAssumption
   DEF IInv, StartLoop, LoopInv, LoopType, LoopTime, LoopEvidence, LoopCadence, LoopCatchesUp, Time, Never, UpAt,
       vars, probeState, xolu, TypeOK

LEMMA LoopPingsInv == IInv /\ LoopInv /\ LoopPings => LoopInv'
<1> SUFFICES ASSUME IInv, LoopInv, LoopPings PROVE LoopInv'
  OBVIOUS
<1>1. nextTick' \in Nat /\ now < nextTick' /\ nextTick' <= now + Period
  <2>1. now \in Nat /\ nextTick \in Nat /\ now >= nextTick
    BY TimesAssumption DEF LoopPings, IInv, TypeOK, LoopInv, LoopType, Time
  <2> QED
    BY <2>1, NextTickNear DEF LoopPings
<1>2. /\ loop = "wait" /\ loop' = "ping" /\ pingedAt' = now
      /\ UNCHANGED <<now, cancelled, xoluUp, upSince, lastUpAt, lastSuccessPing>>
  BY DEF LoopPings, vars, xolu
<1>3. LoopType'
  BY <1>1, <1>2 DEF IInv, TypeOK, LoopInv, LoopType, Time
<1>4. LoopTime'
  BY <1>1, <1>2, HealthzAssumption, TimesAssumption DEF IInv, TypeOK, LoopInv, LoopType, LoopTime, Time, Never
<1>5. LoopEvidence'
  BY <1>2 DEF LoopInv, LoopEvidence, UpAt
<1>6. LoopCadence'
  BY <1>2, HealthzAssumption, TimesAssumption DEF IInv, TypeOK, LoopInv, LoopType, LoopCadence, Time, Never
<1>7. LoopCatchesUp'
  BY <1>2, HealthzAssumption, TimesAssumption DEF IInv, TypeOK, LoopInv, LoopType, LoopCatchesUp, Time, Never
<1> QED
  BY <1>3, <1>4, <1>5, <1>6, <1>7 DEF LoopInv

LEMMA LoopAnsweredInv == IInv /\ LoopInv /\ LoopAnswered => LoopInv'
<1> SUFFICES ASSUME IInv, LoopInv, LoopAnswered PROVE LoopInv'
  OBVIOUS
<1>1. /\ loop = "ping" /\ loop' = "wait"
      /\ UNCHANGED <<now, cancelled, xoluUp, upSince, lastUpAt, nextTick, pingedAt>>
  BY DEF LoopAnswered, vars, xolu
<1>2. CASE UpAt >= pingedAt /\ lastSuccessPing' = now
  <2>1. LoopType'
    BY <1>1, <1>2 DEF IInv, TypeOK, LoopInv, LoopType, Time
  <2>2. LoopTime'
    BY <1>1, <1>2, HealthzAssumption, TimesAssumption DEF IInv, TypeOK, LoopInv, LoopType, LoopTime, Time, Never
  <2>3. LoopEvidence'
    BY <1>1, <1>2, TimesAssumption DEF IInv, TypeOK, LoopInv, LoopType, LoopTime, LoopEvidence, UpAt, Time, Never
  <2>4. LoopCadence' /\ LoopCatchesUp'
    BY <1>1, <1>2, HealthzAssumption, TimesAssumption
       DEF IInv, TypeOK, PastInv, LoopInv, LoopType, LoopTime, LoopCadence, LoopCatchesUp, Time, Never
  <2> QED
    BY <2>1, <2>2, <2>3, <2>4 DEF LoopInv
<1>3. CASE (cancelled \/ ~xoluUp \/ upSince >= pingedAt) /\ lastSuccessPing' = lastSuccessPing
  <2>1. LoopType'
    BY <1>1, <1>3 DEF IInv, TypeOK, LoopInv, LoopType, Time
  <2>2. LoopTime'
    BY <1>1, <1>3, HealthzAssumption, TimesAssumption DEF IInv, TypeOK, LoopInv, LoopType, LoopTime, Time, Never
  <2>3. LoopEvidence'
    BY <1>1, <1>3 DEF LoopInv, LoopEvidence, UpAt
  <2>4. LoopCadence' /\ LoopCatchesUp'
    BY <1>1, <1>3, HealthzAssumption, TimesAssumption
       DEF IInv, TypeOK, PastInv, LoopInv, LoopType, LoopTime, LoopCadence, LoopCatchesUp, Time, Never
  <2> QED
    BY <2>1, <2>2, <2>3, <2>4 DEF LoopInv
<1> QED
  BY <1>2, <1>3 DEF LoopAnswered, SetXoluStatus

LEMMA LoopStopsInv == IInv /\ LoopInv /\ LoopStops => LoopInv'
BY DEF LoopStops, IInv, LoopInv, LoopType, LoopTime, LoopEvidence, LoopCadence, LoopCatchesUp, UpAt,
       vars, probeState, xolu

\* What a step of the probe or of xolu means to the loop.
LEMMA ProbeStepFacts ==
    ASSUME IInv, ProbeStep
    PROVE  /\ UNCHANGED health
           /\ cancelled => cancelled'
           /\ \/ UNCHANGED <<now, xolu>>
              \/ now' = now + 1 /\ LoopOnTime /\ UNCHANGED xolu
              \/ XoluFails
              \/ XoluRecovers
<1>1. UNCHANGED health /\ (now' # now => LoopOnTime) /\ Next
  BY DEF ProbeStep
<1>2. now \in Int
  BY TimesAssumption DEF IInv, TypeOK, Time
<1>3. CASE Tick
  BY <1>1, <1>2, <1>3 DEF Tick
<1>4. CASE XoluFails \/ XoluRecovers
  BY <1>1, <1>4 DEF XoluFails, XoluRecovers
<1>5. CASE StartupPong \/ StartupFail \/ StartupRetry \/ Arm \/ Wake \/ Pong \/ Fail \/ StopRun \/ Cancel
  BY <1>1, <1>5 DEF StartupPong, StartupFail, StartupRetry, Arm, Wake, Pong, Fail, StopRun, Cancel
<1> QED
  BY <1>1, <1>3, <1>4, <1>5 DEF Next

LEMMA ProbeStepInv == IInv /\ IInv' /\ LoopInv /\ ProbeStep => LoopInv'
<1> SUFFICES ASSUME IInv, IInv', LoopInv, ProbeStep PROVE LoopInv'
  OBVIOUS
<1>1. UNCHANGED health /\ (cancelled => cancelled')
  BY ProbeStepFacts
<1> USE HealthzAssumption, TimesAssumption
<1>2. CASE UNCHANGED <<now, xolu>>
  BY <1>1, <1>2 DEF health, xolu, LoopInv, LoopType, LoopTime, LoopEvidence, LoopCadence, LoopCatchesUp, UpAt,
     IInv, TypeOK
<1>3. CASE now' = now + 1 /\ LoopOnTime /\ UNCHANGED xolu
  BY <1>1, <1>3 DEF health, xolu, LoopOnTime, LoopInv, LoopType, LoopTime, LoopEvidence, LoopCadence, LoopCatchesUp,
     UpAt, IInv, TypeOK, PastInv, Time, Never
<1>4. CASE XoluFails
  BY <1>1, <1>4 DEF health, XoluFails, LoopInv, LoopType, LoopTime, LoopEvidence, LoopCadence, LoopCatchesUp, UpAt,
     IInv, TypeOK, Time, Never
<1>5. CASE XoluRecovers
  BY <1>1, <1>5 DEF health, XoluRecovers, LoopInv, LoopType, LoopTime, LoopEvidence, LoopCadence, LoopCatchesUp, UpAt,
     IInv, TypeOK, PastInv, Time, Never
<1> QED
  BY <1>2, <1>3, <1>4, <1>5, ProbeStepFacts

-----------------------------------------------------------------------------
(***************************************************************************)
(* The theorems.                                                           *)
(***************************************************************************)

LEMMA LoopStepIsNoProbeStep == StartLoop \/ LoopPings \/ LoopAnswered \/ LoopStops => UNCHANGED vars
BY DEF StartLoop, LoopPings, LoopAnswered, LoopStops

(***************************************************************************)
(* The endpoint's loop takes nothing from the probe (main.go:160-175 shares*)
(* only the xolu client with it): every behaviour of both is one of Probe, *)
(* so all that is proved of Probe holds beside the loop.                   *)
(***************************************************************************)
THEOREM HealthzIsProbe == HealthzSpec => Spec
<1>1. HealthzInit => Init
  BY DEF HealthzInit
<1>2. [HealthzNext]_<<vars, health>> => [Next]_vars
  BY LoopStepIsNoProbeStep DEF HealthzNext, ProbeStep
<1> QED
  BY <1>1, <1>2, PTL DEF HealthzSpec, Spec

LEMMA LoopInvariance == HealthzSpec => [](IInv /\ LoopInv)
<1>1. HealthzInit => IInv /\ LoopInv
  BY InitIInv, InitLoop DEF HealthzInit
<1>2. IInv /\ LoopInv /\ [HealthzNext]_<<vars, health>> => IInv' /\ LoopInv'
  <2> SUFFICES ASSUME IInv, LoopInv, [HealthzNext]_<<vars, health>> PROVE IInv' /\ LoopInv'
    OBVIOUS
  <2>1. IInv'
    BY NextIInv, LoopStepIsNoProbeStep DEF HealthzNext, ProbeStep
  <2>2. CASE HealthzNext
    BY <2>1, <2>2, StartLoopInv, LoopPingsInv, LoopAnsweredInv, LoopStopsInv, ProbeStepInv DEF HealthzNext
  <2>3. CASE UNCHANGED <<vars, health>>
    <3>1. UNCHANGED <<now, cancelled, xoluUp, upSince, lastUpAt>> /\ UNCHANGED health
      BY <2>3 DEF vars, xolu
    <3> QED
      BY <2>1, <3>1 DEF health, LoopInv, LoopType, LoopTime, LoopEvidence, LoopCadence, LoopCatchesUp, UpAt
  <2> QED
    BY <2>1, <2>2, <2>3
<1> QED
  BY <1>1, <1>2, PTL DEF HealthzSpec

LEMMA OkHasEvidenceNow == IInv /\ LoopInv => OkHasEvidence
BY HealthzAssumption, TimesAssumption
   DEF IInv, TypeOK, LoopInv, LoopType, LoopEvidence, OkHasEvidence, Status, Ready, UpAt, Time, Never

LEMMA NoFalseDegradedNow == IInv /\ LoopInv => NoFalseDegraded
BY HealthzAssumption, TimesAssumption
   DEF IInv, TypeOK, PastInv, LoopInv, LoopType, LoopTime, LoopCadence, NoFalseDegraded, WindowCoversCycle, LoopRuns,
       Status, Ready, Time, Never

\* Once xolu has been up for a cycle and a ping the loop has a success of that time.
LEMMA CaughtUp ==
    ASSUME IInv, LoopInv, LoopRuns, UpLong, lastSuccessPing # Never
    PROVE  upSince < lastSuccessPing
BY HealthzAssumption, TimesAssumption, DelayAssumption
   DEF IInv, TypeOK, LoopInv, LoopType, LoopTime, LoopCatchesUp, LoopRuns, UpLong, Time, Never

LEMMA VerdictsAgreeNow == IInv /\ LoopInv => VerdictsAgree
<1> SUFFICES ASSUME IInv, LoopInv, FreshnessCoversCycle, WindowCoversCycle, Running, LoopRuns, UpLong \/ DownLong,
                    lastSuccessPing # Never
             PROVE  Healthy <=> Status = "ok"
  BY DEF VerdictsAgree
<1>1. CASE UpLong
  <2>1. Status = "ok"
    BY <1>1, CaughtUp, NoFalseDegradedNow DEF NoFalseDegraded, UpLong
  <2>2. consecutiveFails = 0
    BY <1>1, RecoveryBoundedNow, TimesAssumption, DelayAssumption DEF RecoveryBounded, UpLong, IInv, TypeOK, Time
  <2>3. Healthy
    BY <2>2, NoFalseAlarmNow DEF NoFalseAlarm
  <2> QED
    BY <2>1, <2>3
<1>2. CASE DownLong
  <2>1. UpAt = lastUpAt /\ now \in Int /\ lastUpAt \in Int
    BY <1>2, TimesAssumption DEF DownLong, UpAt, IInv, TypeOK, Time, Never
  <2>2. ~Healthy
    BY <1>2, <2>1, HealthyHasEvidenceNow, TimesAssumption DEF HealthyHasEvidence, DownLong
  <2>3. Status # "ok"
    BY <1>2, <2>1, OkHasEvidenceNow, TimesAssumption, HealthzAssumption DEF OkHasEvidence, DownLong
  <2> QED
    BY <2>2, <2>3
<1> QED
  BY <1>1, <1>2

(***************************************************************************)
(* An ok of /healthz rests on recent evidence that xolu was up.            *)
(***************************************************************************)
THEOREM OkIsEvidence == HealthzSpec => []OkHasEvidence
BY LoopInvariance, OkHasEvidenceNow, PTL

(***************************************************************************)
(* A window that covers the cycle of the loop never tells a healthy xolu   *)
(* degraded between two pings.                                             *)
(***************************************************************************)
THEOREM OkStays == HealthzSpec => []NoFalseDegraded
BY LoopInvariance, NoFalseDegradedNow, PTL

(***************************************************************************)
(* The gate and the endpoint agree a bounded time after xolu changed.      *)
(***************************************************************************)
THEOREM GateAndEndpointAgree == HealthzSpec => []VerdictsAgree
BY LoopInvariance, VerdictsAgreeNow, PTL
=============================================================================
