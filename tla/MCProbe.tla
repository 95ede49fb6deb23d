------------------------------ MODULE MCProbe ------------------------------
(***************************************************************************)
(* Instances of Probe: the delays are the ones nextDelay computes.         *)
(***************************************************************************)
EXTENDS Probe

CONSTANTS FailFloor, FailCeiling

B == INSTANCE Backoff

MCDelay ==
    [n \in 0..(Horizon + 1) |-> B!NextDelay(Interval, FailFloor, FailCeiling, n)]

\* An instance takes its delays from there.
ASSUME BackoffAssumption ==
    /\ FailFloor \in Nat
    /\ FailCeiling \in Nat
    /\ Delay = MCDelay

MCLongestDelay == IF Interval < FailCeiling THEN FailCeiling ELSE Interval

PowerOf2(n) == LET p[i \in 0..n] == IF i = 0 THEN 1 ELSE 2 * p[i - 1] IN p[n]

\* After the n-th failure in a row the next ping comes the floor doubled n - 1
\* times later, never more than the ceiling later, plus what the scheduler adds
\* between the failure and the timer (Run, nextDelay).
RetryWaitsCappedPower ==
    pc \in {"wait", "ping"} /\ consecutiveFails > 0 =>
        nextRetryAt - lastFailAt
            - B!Least(FailFloor * PowerOf2(consecutiveFails - 1), FailCeiling) \in 0..Lag
=============================================================================
