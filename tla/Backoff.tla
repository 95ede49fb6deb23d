------------------------------ MODULE Backoff ------------------------------
(***************************************************************************)
(* The exponential backoff of exec.Probe as a pure function: the delay     *)
(* that nextDelay recomputes from the failure counter.  The loader's loop  *)
(* (Lifecycle) is compared with it.                                        *)
(***************************************************************************)
EXTENDS Naturals

Least(a, b) == IF a < b THEN a ELSE b

(***************************************************************************)
(* Probe.nextDelay: d starts at the floor and doubles once per failure     *)
(* after the first while it is below the ceiling; the result is capped.    *)
(***************************************************************************)
Doubled(floor, ceiling, times) ==
    LET d[i \in 0..times] ==
            IF i = 0 THEN floor
            ELSE IF d[i - 1] < ceiling THEN 2 * d[i - 1] ELSE d[i - 1]
    IN  d[times]

\* Faulty variant: the loop doubles on the first failure.
NextDelayEager(interval, floor, ceiling, fails) ==
    IF fails = 0 THEN interval ELSE Least(Doubled(floor, ceiling, fails), ceiling)

NextDelay(interval, floor, ceiling, fails) ==
    IF fails = 0 THEN interval
    ELSE Least(Doubled(floor, ceiling, fails - 1), ceiling)
=============================================================================
