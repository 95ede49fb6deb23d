-------------------------- MODULE LifecycleProofs --------------------------
(***************************************************************************)
(* What an accepted configuration guarantees, and that the startup keeps   *)
(* to it, for every set of environments and every bound MaxFailures.       *)
(***************************************************************************)
EXTENDS Lifecycle, TLAPS

\* What ProbeConfig and LoaderConfig rely on, and LoadFromEnv checks.
Sane(e) ==
    /\ \A v \in Durations : Read(e, v) \in Nat \ {0}
    /\ \A v \in Counts : Read(e, v) \in Nat
    /\ Read(e, "SchemaRetryFloor") <= Read(e, "SchemaRetryCeiling")
    /\ Read(e, "PingFailFloor") <= Read(e, "PingFailCeiling")

LEMMA DefaultsAreNumbers == \A v \in Numbers : v \in DOMAIN Defaults /\ Defaults[v] \in Int
BY DEF Defaults, Numbers, Durations, Counts

LEMMA NumbersAreRead == \A e \in Environments : \A v \in Numbers : Read(e, v) \in Int
<1> SUFFICES ASSUME NEW e \in Environments, NEW v \in Numbers PROVE Read(e, v) \in Int
  OBVIOUS
<1>1. CASE v \in DOMAIN e /\ e[v] # Malformed
  BY <1>1, LifecycleAssumption DEF Read
<1>2. CASE ~(v \in DOMAIN e /\ e[v] # Malformed)
  BY <1>2, DefaultsAreNumbers DEF Read
<1> QED
  BY <1>1, <1>2

(***************************************************************************)
(* An environment without problems gives positive durations, counts that   *)
(* are not negative, and floors below their ceilings, which is what Probe, *)
(* the loader and their tickers are built on (config.go:177-205).          *)
(***************************************************************************)
THEOREM AcceptedIsSane == \A e \in Environments : Problems(e) = {} => Sane(e)
<1> SUFFICES ASSUME NEW e \in Environments, Problems(e) = {} PROVE Sane(e)
  OBVIOUS
<1>1. NotPositive(e) = {} /\ Negative(e) = {} /\ FloorAboveCeiling(e) = {}
  BY DEF Problems
<1>2. \A v \in Durations : Read(e, v) \in Int /\ ~(Read(e, v) <= 0)
  BY <1>1, NumbersAreRead DEF NotPositive, Numbers
<1>3. \A v \in Counts : Read(e, v) \in Int /\ ~(Read(e, v) < 0)
  BY <1>1, NumbersAreRead DEF Negative, Numbers
<1>4. ~(Read(e, "SchemaRetryFloor") > Read(e, "SchemaRetryCeiling"))
  BY <1>1 DEF FloorAboveCeiling
<1>5. ~(Read(e, "PingFailFloor") > Read(e, "PingFailCeiling"))
  BY <1>1 DEF FloorAboveCeiling
<1>6. {"SchemaRetryFloor", "SchemaRetryCeiling", "PingFailFloor", "PingFailCeiling"} \subseteq Durations
  BY DEF Durations
<1>7. \A i \in Int : ~(i <= 0) => i \in Nat \ {0}
  OBVIOUS
<1>8. \A i \in Int : ~(i < 0) => i \in Nat
  OBVIOUS
<1>9. \A i, j \in Int : ~(i > j) => i <= j
  OBVIOUS
<1>10. Read(e, "SchemaRetryFloor") <= Read(e, "SchemaRetryCeiling")
  BY <1>2, <1>4, <1>6, <1>9
<1>11. Read(e, "PingFailFloor") <= Read(e, "PingFailCeiling")
  BY <1>2, <1>5, <1>6, <1>9
<1> QED
  BY <1>2, <1>3, <1>7, <1>8, <1>10, <1>11 DEF Sane

-----------------------------------------------------------------------------
(***************************************************************************)
(* The delays of the loop.  Each wait adds one member to the sequence that *)
(* Doubled computes, so the steps of Load carry its unfolding along: no    *)
(* induction over the number of failures is needed.                        *)
(***************************************************************************)
IsDoubling(d, floor, ceiling, n) ==
    d = [i \in 0..n |-> IF i = 0 THEN floor
                        ELSE IF d[i - 1] < ceiling THEN 2 * d[i - 1] ELSE d[i - 1]]

\* d is the one sequence of doublings of its length.
Doubling(d, floor, ceiling, n) ==
    /\ d \in [0..n -> Nat \ {0}]
    /\ IsDoubling(d, floor, ceiling, n)
    /\ \A e : IsDoubling(e, floor, ceiling, n) => e = d

\* Where Load is in it: the failures that have been waited for.
Waited == IF phase = "backoff" THEN attempt - 1 ELSE attempt

OnSchedule ==
    phase \in {"loading", "backoff"} =>
        /\ Waited \in Nat
        /\ \E d : /\ Doubling(d, RetryFloor, RetryCeiling, Waited)
                  /\ delay = B!Least(d[Waited], RetryCeiling)

LEMMA FirstDelay ==
    ASSUME NEW floor \in Nat \ {0}, NEW ceiling \in Nat \ {0}
    PROVE  Doubling([i \in 0..0 |-> floor], floor, ceiling, 0)
<1> DEFINE d == [i \in 0..0 |-> floor]
<1>1. d \in [0..0 -> Nat \ {0}]
  OBVIOUS
<1>2. IsDoubling(d, floor, ceiling, 0)
  BY DEF IsDoubling
<1>3. ASSUME NEW e, IsDoubling(e, floor, ceiling, 0) PROVE e = d
  BY <1>3 DEF IsDoubling
<1> QED
  BY <1>1, <1>2, <1>3 DEF Doubling

LEMMA NextDelayLemma ==
    ASSUME NEW floor \in Nat \ {0}, NEW ceiling \in Nat \ {0}, NEW n \in Nat,
           NEW d, Doubling(d, floor, ceiling, n)
    PROVE  \E f : /\ Doubling(f, floor, ceiling, n + 1)
                  /\ B!Least(f[n + 1], ceiling) = B!Least(2 * B!Least(d[n], ceiling), ceiling)
<1> DEFINE next == IF d[n] < ceiling THEN 2 * d[n] ELSE d[n]
           f == [i \in 0..(n + 1) |-> IF i = n + 1 THEN next ELSE d[i]]
           Step(g, i) == IF i = 0 THEN floor ELSE IF g[i - 1] < ceiling THEN 2 * g[i - 1] ELSE g[i - 1]
<1>1. d \in [0..n -> Nat \ {0}] /\ d[n] \in Nat \ {0} /\ next \in Nat \ {0}
  BY DEF Doubling
<1>2. \A i \in 0..n : d[i] = Step(d, i)
  BY DEF Doubling, IsDoubling
<1>3. f \in [0..(n + 1) -> Nat \ {0}]
  BY <1>1
<1>4. \A i \in 0..(n + 1) : f[i] = Step(f, i)
  BY <1>1, <1>2
<1>5. IsDoubling(f, floor, ceiling, n + 1)
  BY <1>4 DEF IsDoubling
<1>6. ASSUME NEW e, IsDoubling(e, floor, ceiling, n + 1) PROVE e = f
  <2> DEFINE e0 == [i \in 0..n |-> e[i]]
  <2>1. /\ e = [i \in 0..(n + 1) |-> e[i]]
        /\ \A i \in 0..(n + 1) : e[i] = Step(e, i)
    BY <1>6 DEF IsDoubling
  <2>2. \A i \in 0..n : i \in 0..(n + 1) /\ (i # 0 => i - 1 \in 0..n)
    OBVIOUS
  <2>3. \A i \in 0..n : e0[i] = Step(e0, i)
    BY <2>1, <2>2
  <2>4. IsDoubling(e0, floor, ceiling, n)
    BY <2>3 DEF IsDoubling
  <2>5. e0 = d
    BY <2>4 DEF Doubling
  <2>6. \A i \in 0..n : e[i] = d[i]
    BY <2>5
  <2>7. e[n + 1] = next
    <3>1. n + 1 \in 0..(n + 1) /\ n + 1 # 0 /\ n + 1 - 1 = n /\ n \in 0..n
      OBVIOUS
    <3>2. e[n + 1] = Step(e, n + 1) /\ e[n] = d[n]
      BY <2>1, <2>6, <3>1
    <3> QED
      BY <3>1, <3>2
  <2>8. \A i \in 0..(n + 1) : i = n + 1 \/ i \in 0..n
    OBVIOUS
  <2> QED
    BY <2>1, <2>6, <2>7, <2>8
<1>7. B!Least(f[n + 1], ceiling) = B!Least(2 * B!Least(d[n], ceiling), ceiling)
  BY <1>1 DEF B!Least
<1> QED
  BY <1>3, <1>5, <1>6, <1>7 DEF Doubling

LEMMA DelayIsNextDelay ==
    ASSUME NEW floor \in Nat \ {0}, NEW ceiling \in Nat \ {0}, NEW n \in Nat \ {0},
           NEW d, Doubling(d, floor, ceiling, n - 1)
    PROVE  B!NextDelay(1, floor, ceiling, n) = B!Least(d[n - 1], ceiling)
<1>1. (CHOOSE e : IsDoubling(e, floor, ceiling, n - 1)) = d
  BY DEF Doubling
<1>2. B!Doubled(floor, ceiling, n - 1) = d[n - 1]
  BY <1>1 DEF B!Doubled, IsDoubling
<1> QED
  BY <1>2 DEF B!NextDelay

-----------------------------------------------------------------------------

\* Nothing runs beside main until it serves.
Quiet == Starting => ~cancelled /\ handler = "off" /\ serve = "off"

\* main goes on only with a configuration that LoadFromEnv took.
Accepted == phase \notin {"starting", "exited"} => Problems(env) = {}

IInv ==
    /\ TypeOK
    /\ Quiet
    /\ Accepted
    /\ OnSchedule
    /\ AcceptedConfigWires

LEMMA AcceptedNumbers ==
    ASSUME TypeOK, Problems(env) = {}
    PROVE  /\ RetryFloor \in Nat \ {0} /\ RetryCeiling \in Nat \ {0} /\ RetryFloor <= RetryCeiling
           /\ PingAttempts \in Nat /\ LoadAttempts \in Nat
           /\ ~(Read(env, "SchemaRefreshInterval") <= 0)
<1>1. Sane(env)
  BY AcceptedIsSane DEF TypeOK
<1>2. {"SchemaRetryFloor", "SchemaRetryCeiling", "SchemaRefreshInterval"} \subseteq Durations
  BY DEF Durations
<1>3. {"StartupMaxAttempts", "SchemaMaxAttempts"} \subseteq Counts
  BY DEF Counts
<1>4. \A i \in Nat \ {0} : ~(i <= 0)
  OBVIOUS
<1> QED
  BY <1>1, <1>2, <1>3, <1>4 DEF Sane, RetryFloor, RetryCeiling, PingAttempts, LoadAttempts

LEMMA InitInv == Init => IInv
<1> SUFFICES ASSUME Init PROVE IInv
  OBVIOUS
<1>1. 0 \in 0..MaxFailures /\ 0 \in Nat
  BY LifecycleAssumption
<1>2. TypeOK
  BY <1>1 DEF Init, TypeOK
<1> QED
  BY <1>2 DEF Init, IInv, Quiet, Starting, Accepted, OnSchedule, AcceptedConfigWires

\* Steps after the startup, which leave it and the schedule behind.
LEMMA ServingInv ==
    ASSUME IInv, ~Starting, phase # "exited", UNCHANGED start,
           \/ phase' \in {phase, "closing"} /\ phase \in {"serving", "closing"} /\ exit' = exit
           \/ phase' = "exited" /\ exit' \in {"0", "signal", "pipe"},
           TypeOK'
    PROVE  IInv'
<1>1. env' = env /\ attempt' = attempt /\ delay' = delay
  BY DEF start
<1>2. ~Starting'
  BY DEF Starting
<1>3. Quiet' /\ OnSchedule'
  BY <1>2 DEF Quiet, OnSchedule, Starting
<1>4. Accepted'
  BY <1>1 DEF IInv, Accepted, Starting
<1>5. AcceptedConfigWires'
  BY <1>1 DEF IInv, AcceptedConfigWires, Enabled, MuxPanics
<1> QED
  BY <1>3, <1>4, <1>5 DEF IInv

LEMMA NextInv == IInv /\ [Next]_vars => IInv'
<1> SUFFICES ASSUME IInv, [Next]_vars PROVE IInv'
  OBVIOUS
<1>0. TypeOK /\ Quiet /\ Accepted /\ OnSchedule /\ AcceptedConfigWires
  BY DEF IInv
<1>a. MaxFailures \in Nat /\ attempt \in 0..MaxFailures /\ attempt \in Nat /\ delay \in Nat
  <2>1. MaxFailures \in Nat /\ attempt \in 0..MaxFailures /\ delay \in Nat
    BY <1>0, LifecycleAssumption DEF TypeOK
  <2> QED
    BY <2>1
<1>b. attempt < MaxFailures => attempt + 1 \in 0..MaxFailures
  BY <1>a
<1>1. CASE Configure
  <2>1. env' = env /\ attempt' = attempt /\ delay' = delay
    BY <1>1 DEF Configure, start
  <2>2. TypeOK'
    BY <1>0, <1>1, <2>1 DEF Configure, Exit, TypeOK, stdio
  <2>3. Quiet' /\ OnSchedule'
    BY <1>0, <1>1 DEF Configure, Exit, Quiet, OnSchedule, Starting, stdio
  <2>4. Accepted'
    BY <1>0, <1>1, <2>1 DEF Configure, Exit, Accepted
  <2>5. AcceptedConfigWires'
    BY <1>0, <1>1, <2>1 DEF Configure, Exit, AcceptedConfigWires, Enabled, MuxPanics
  <2> QED
    BY <2>2, <2>3, <2>4, <2>5 DEF IInv
<1>2. CASE PingOk
  <2>1. env' = env /\ exit' = exit /\ attempt' = 0 /\ phase' = "loading" /\ phase = "pinging" /\ delay' = RetryFloor
    BY <1>2 DEF PingOk
  <2>2. Problems(env) = {}
    BY <1>0, <2>1 DEF Accepted
  <2>3. RetryFloor \in Nat \ {0} /\ RetryCeiling \in Nat \ {0} /\ RetryFloor <= RetryCeiling
    BY <1>0, <2>2, AcceptedNumbers
  <2>4. TypeOK'
    <3>1. 0 \in 0..MaxFailures /\ delay' \in Nat
      BY <1>a, <2>1, <2>3
    <3> QED
      BY <1>0, <1>2, <2>1, <3>1 DEF PingOk, TypeOK, stdio
  <2>5. Quiet'
    BY <1>0, <1>2 DEF PingOk, Quiet, Starting, stdio
  <2>6. Accepted' /\ AcceptedConfigWires'
    BY <1>0, <2>1, <2>2 DEF Accepted, AcceptedConfigWires, Enabled, MuxPanics
  <2>7. OnSchedule'
    <3> DEFINE d == [i \in 0..0 |-> RetryFloor]
    <3>1. Doubling(d, RetryFloor, RetryCeiling, 0)
      BY <2>3, FirstDelay
    <3>2. delay' = B!Least(d[0], RetryCeiling)
      BY <2>1, <2>3 DEF B!Least
    <3>3. Waited' = 0 /\ RetryFloor' = RetryFloor /\ RetryCeiling' = RetryCeiling
      BY <2>1 DEF Waited, RetryFloor, RetryCeiling
    <3> QED
      BY <3>1, <3>2, <3>3 DEF OnSchedule
  <2> QED
    BY <2>4, <2>5, <2>6, <2>7 DEF IInv
<1>3. CASE PingFails
  <2>1. env' = env /\ phase' \in {"pinging", "exited"} /\ attempt + 1 \in 0..MaxFailures
    BY <1>3, <1>b DEF PingFails, Exit
  <2>2. TypeOK'
    BY <1>0, <1>3, <2>1 DEF PingFails, Exit, TypeOK, stdio
  <2>3. Quiet' /\ OnSchedule'
    BY <1>0, <1>3, <2>1 DEF PingFails, Quiet, OnSchedule, Starting, stdio
  <2>4. Accepted' /\ AcceptedConfigWires'
    BY <1>0, <1>3, <2>1 DEF PingFails, Exit, Accepted, AcceptedConfigWires, Enabled, MuxPanics
  <2> QED
    BY <2>2, <2>3, <2>4 DEF IInv
<1>4. CASE LoadOk
  <2>1. env' = env /\ exit' = exit /\ phase' = "wiring" /\ phase = "loading"
    BY <1>4 DEF LoadOk, start
  <2>2. TypeOK'
    BY <1>0, <1>4, <2>1 DEF LoadOk, TypeOK, start, stdio
  <2>3. Quiet' /\ OnSchedule'
    BY <1>0, <1>4 DEF LoadOk, Quiet, OnSchedule, Starting, stdio
  <2>4. Accepted' /\ AcceptedConfigWires'
    BY <1>0, <2>1 DEF Accepted, AcceptedConfigWires, Enabled, MuxPanics
  <2> QED
    BY <2>2, <2>3, <2>4 DEF IInv
<1>5. CASE LoadFails
  <2>1. env' = env /\ phase = "loading" /\ phase' \in {"backoff", "exited"} /\ delay' = delay
    BY <1>5 DEF LoadFails, Exit
  <2>2. attempt' = attempt + 1 /\ attempt \in Nat /\ attempt + 1 \in 0..MaxFailures
    BY <1>5, <1>a, <1>b DEF LoadFails
  <2>3. TypeOK'
    BY <1>0, <1>5, <2>1, <2>2 DEF LoadFails, Exit, TypeOK, stdio
  <2>4. Quiet'
    BY <1>0, <1>5, <2>1 DEF LoadFails, Quiet, Starting, stdio
  <2>5. Accepted' /\ AcceptedConfigWires'
    BY <1>0, <1>5, <2>1 DEF LoadFails, Exit, Accepted, AcceptedConfigWires, Enabled, MuxPanics
  <2>6. OnSchedule'
    <3>1. phase' = "backoff" => Waited' = Waited
      BY <2>1, <2>2 DEF Waited
    <3>2. RetryFloor' = RetryFloor /\ RetryCeiling' = RetryCeiling
      BY <2>1 DEF RetryFloor, RetryCeiling
    <3> QED
      BY <1>0, <2>1, <3>1, <3>2 DEF OnSchedule
  <2> QED
    BY <2>3, <2>4, <2>5, <2>6 DEF IInv
<1>6. CASE LoadRetry
  <2>1. /\ env' = env /\ exit' = exit /\ attempt' = attempt /\ phase = "backoff" /\ phase' = "loading"
        /\ delay' = B!Least(2 * delay, RetryCeiling)
    BY <1>6 DEF LoadRetry
  <2>2. RetryFloor \in Nat \ {0} /\ RetryCeiling \in Nat \ {0}
    BY <1>0, <2>1, AcceptedNumbers DEF Accepted
  <2>3. delay' \in Nat
    BY <1>a, <2>1, <2>2 DEF B!Least
  <2>4. TypeOK'
    BY <1>0, <1>6, <2>1, <2>3 DEF LoadRetry, TypeOK, stdio
  <2>5. Quiet'
    BY <1>0, <1>6 DEF LoadRetry, Quiet, Starting, stdio
  <2>6. Accepted' /\ AcceptedConfigWires'
    BY <1>0, <2>1 DEF Accepted, AcceptedConfigWires, Enabled, MuxPanics
  <2>7. OnSchedule'
    <3>1. attempt \in Nat /\ Waited = attempt - 1 /\ Waited \in Nat /\ Waited' = Waited + 1
      <4>1. Waited = attempt - 1 /\ Waited \in Nat /\ Waited' = attempt
        BY <1>0, <2>1 DEF Waited, OnSchedule
      <4> QED
        BY <1>a, <4>1
    <3>2. PICK d : Doubling(d, RetryFloor, RetryCeiling, Waited) /\ delay = B!Least(d[Waited], RetryCeiling)
      BY <1>0, <2>1 DEF OnSchedule
    <3>3. PICK f : /\ Doubling(f, RetryFloor, RetryCeiling, Waited + 1)
                   /\ B!Least(f[Waited + 1], RetryCeiling) = delay'
      BY <2>1, <2>2, <3>1, <3>2, NextDelayLemma
    <3>4. RetryFloor' = RetryFloor /\ RetryCeiling' = RetryCeiling
      BY <2>1 DEF RetryFloor, RetryCeiling
    <3> QED
      BY <3>1, <3>3, <3>4 DEF OnSchedule
  <2> QED
    BY <2>4, <2>5, <2>6, <2>7 DEF IInv
<1>7. CASE Wire
  <2>1. env' = env /\ phase = "wiring" /\ Problems(env) = {} /\ phase' \in {"serving", "exited"}
    BY <1>0, <1>7 DEF Wire, start, Exit, Accepted
  <2>2. ~(Read(env, "SchemaRefreshInterval") <= 0)
    BY <1>0, <2>1, AcceptedNumbers
  <2>3. TypeOK'
    BY <1>0, <1>7, <2>1 DEF Wire, Exit, TypeOK, start
  <2>4. Quiet' /\ OnSchedule' /\ Accepted'
    BY <2>1 DEF Quiet, OnSchedule, Starting, Accepted
  <2>5. AcceptedConfigWires'
    <3>1. ~RulesWrong(env)
      BY <2>1 DEF Problems
    <3>2. TRUE \in RulesFail => Read(env, "HubRPIProvider") = "static-context-rules" /\ HasFile(env) # HasJSON(env)
      BY <3>1 DEF RulesWrong, RulesFail
    <3>3. exit' \in {exit, "rules"} /\ (exit' = "rules" => TRUE \in RulesFail \/ exit = "rules")
      BY <1>7, <2>2 DEF Wire, Exit
    <3> QED
      BY <1>0, <2>1, <3>2, <3>3 DEF AcceptedConfigWires, Enabled, MuxPanics
  <2> QED
    BY <2>3, <2>4, <2>5 DEF IInv
<1>8. CASE BeginShutdown
  <2>1. ~Starting /\ TypeOK'
    BY <1>0, <1>8 DEF BeginShutdown, Starting, TypeOK, start, stdio
  <2> QED
    BY <1>8, <2>1, ServingInv DEF BeginShutdown
<1>9. CASE Return
  <2>1. ~Starting /\ TypeOK'
    BY <1>0, <1>9 DEF Return, Exit, Starting, TypeOK, start, stdio
  <2> QED
    BY <1>9, <2>1, ServingInv DEF Return, Exit
<1>10. CASE Serve
  <2>1. Alive /\ serve # "off" /\ UNCHANGED start
    BY <1>10 DEF Serve, Receive, Handle, Answer, Eof, LineTooLong
  <2>2. ~Starting /\ phase \in {"serving", "closing"}
    BY <1>0, <2>1 DEF Quiet, Alive, Starting, TypeOK
  <2>3. TypeOK'
    BY <1>0, <1>10 DEF Serve, Receive, Handle, Answer, Eof, LineTooLong, Write, Exit, TypeOK, start
  <2>4. (phase' = phase /\ exit' = exit) \/ (phase' = "exited" /\ exit' = "pipe")
    BY <1>10 DEF Serve, Receive, Handle, Answer, Eof, LineTooLong, Write, Exit
  <2> QED
    BY <2>1, <2>2, <2>3, <2>4, ServingInv DEF Alive
<1>11. CASE Handler
  <2>1. Alive /\ handler # "off" /\ UNCHANGED start
    BY <1>11 DEF Handler, TakeTerm, TakeHup, Refresh, Publish
  <2>2. ~Starting /\ phase \in {"serving", "closing"}
    BY <1>0, <2>1 DEF Quiet, Alive, Starting, TypeOK
  <2>3. TypeOK'
    BY <1>0, <1>11 DEF Handler, TakeTerm, TakeHup, Refresh, Publish, Write, Exit, TypeOK, start, stdio
  <2>4. (phase' = phase /\ exit' = exit) \/ (phase' = "exited" /\ exit' = "pipe")
    BY <1>11 DEF Handler, TakeTerm, TakeHup, Refresh, Publish, Write, Exit
  <2> QED
    BY <2>1, <2>2, <2>3, <2>4, ServingInv DEF Alive
<1>12. CASE Outside
  <2>1. /\ env' = env /\ attempt' = attempt /\ delay' = delay
        /\ cancelled' = cancelled /\ handler' = handler /\ serve' = serve
        /\ \/ phase' = phase /\ exit' = exit
           \/ (phase' = "exited" /\ exit' = "signal")
    BY <1>12 DEF Outside, Signal, ClientReads, ClientLeaves, Exit, start, stdio
  <2>2. TypeOK'
    <3>1. ASSUME NEW s \in {"TERM", "HUP"}, Signal(s) PROVE TypeOK'
      BY <1>0, <3>1 DEF Signal, Exit, TypeOK, start, stdio
    <3>2. CASE ClientReads \/ ClientLeaves
      BY <1>0, <3>2 DEF ClientReads, ClientLeaves, TypeOK, start
    <3> QED
      BY <1>12, <3>1, <3>2 DEF Outside
  <2>3. Quiet' /\ Accepted'
    BY <1>0, <2>1 DEF Quiet, Starting, Accepted
  <2>4. OnSchedule'
    BY <1>0, <2>1 DEF OnSchedule, Waited, RetryFloor, RetryCeiling
  <2>5. AcceptedConfigWires'
    BY <1>0, <2>1 DEF AcceptedConfigWires, Enabled, MuxPanics
  <2> QED
    BY <2>2, <2>3, <2>4, <2>5 DEF IInv
<1>13. CASE UNCHANGED vars
  <2>1. TypeOK'
    <3>1. /\ env' = env /\ phase' = phase /\ exit' = exit /\ attempt' = attempt /\ delay' = delay
          /\ sigCh' = sigCh /\ handler' = handler /\ serve' = serve /\ cancelled' = cancelled
          /\ client' = client /\ full' = full /\ asked' = asked
      BY <1>13 DEF vars, start, stdio
    <3>2. env' \in Environments /\ attempt' \in 0..MaxFailures /\ delay' \in Nat
      BY <1>0, <3>1 DEF TypeOK
    <3>3. /\ phase' \in {"starting", "pinging", "loading", "backoff", "wiring", "serving", "closing", "exited"}
          /\ exit' \in {"none", "0", "config", "no xolu", "no schemas", "rules", "signal", "panic", "pipe"}
      BY <1>0, <3>1 DEF TypeOK
    <3>4. /\ sigCh' \in {"none", "TERM", "HUP"}
          /\ handler' \in {"off", "idle", "refreshing", "publishing"}
          /\ serve' \in {"off", "reading", "handling", "writing", "ended"}
      BY <1>0, <3>1 DEF TypeOK
    <3>5. cancelled' \in BOOLEAN /\ client' \in {"there", "gone"} /\ full' \in BOOLEAN /\ asked' \in BOOLEAN
      BY <1>0, <3>1 DEF TypeOK
    <3> QED
      BY <3>2, <3>3, <3>4, <3>5 DEF TypeOK
  <2>2. Quiet' /\ Accepted' /\ AcceptedConfigWires'
    BY <1>0, <1>13 DEF vars, start, stdio, Quiet, Starting, Accepted, AcceptedConfigWires, Enabled, MuxPanics
  <2>3. OnSchedule'
    BY <1>0, <1>13 DEF vars, start, OnSchedule, Waited, RetryFloor, RetryCeiling
  <2> QED
    BY <2>1, <2>2, <2>3 DEF IInv
<1> QED
  BY <1>1, <1>2, <1>3, <1>4, <1>5, <1>6, <1>7, <1>8, <1>9, <1>10, <1>11, <1>12, <1>13
     DEF Next, Main

LEMMA Invariance == Spec => []IInv
BY InitInv, NextInv, PTL DEF Spec

(***************************************************************************)
(* Every variable of the process keeps its type.                           *)
(***************************************************************************)
THEOREM TypeCorrect == Spec => []TypeOK
BY Invariance, PTL DEF IInv

(***************************************************************************)
(* Nothing cancels ctx while molu starts, so that main never takes a       *)
(* failed WaitReady or Load for a shutdown (main.go:102-117).              *)
(***************************************************************************)
THEOREM StartupIsUndisturbed == Spec => []StartupIsNeverCancelled
<1>1. IInv => StartupIsNeverCancelled
  BY DEF IInv, Quiet, StartupIsNeverCancelled
<1> QED
  BY <1>1, Invariance, PTL

(***************************************************************************)
(* A configuration that LoadFromEnv accepts is wired: neither its provider *)
(* nor its refresh interval ends the process later (main.go:119-158).      *)
(***************************************************************************)
THEOREM AcceptedIsWired == Spec => []AcceptedConfigWires
BY Invariance, PTL DEF IInv

(***************************************************************************)
(* Load waits what the probe's nextDelay computes, after any number of     *)
(* failures and for every accepted floor and ceiling (loader.go:41-62).    *)
(***************************************************************************)
THEOREM LoadWaitsLikeProbe == Spec => []LoadKeepsProbeSchedule
<1>1. IInv => LoadKeepsProbeSchedule
  <2> SUFFICES ASSUME IInv, phase = "backoff"
               PROVE  delay = B!NextDelay(1, RetryFloor, RetryCeiling, attempt)
    BY DEF LoadKeepsProbeSchedule
  <2>1. RetryFloor \in Nat \ {0} /\ RetryCeiling \in Nat \ {0}
    BY AcceptedNumbers DEF IInv, Accepted
  <2>2. attempt \in Nat /\ attempt - 1 \in Nat /\ Waited = attempt - 1
    <3>1. MaxFailures \in Nat /\ attempt \in 0..MaxFailures
      BY LifecycleAssumption DEF IInv, TypeOK
    <3>2. Waited = attempt - 1 /\ Waited \in Nat
      BY DEF IInv, OnSchedule, Waited
    <3> QED
      BY <3>1, <3>2
  <2>3. PICK d : Doubling(d, RetryFloor, RetryCeiling, Waited) /\ delay = B!Least(d[Waited], RetryCeiling)
    BY DEF IInv, OnSchedule
  <2>4. attempt \in Nat \ {0}
    BY <2>2
  <2> QED
    BY <2>1, <2>2, <2>3, <2>4, DelayIsNextDelay
<1> QED
  BY <1>1, Invariance, PTL
=============================================================================
