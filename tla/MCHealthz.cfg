\* Both windows cover a cycle exactly: Interval + Timeout = Freshness and
\* Period + Timeout = Window.
CONSTANTS
    Interval = 1
    Timeout = 1
    Freshness = 2
    FailFloor = 1
    FailCeiling = 3
    StartupMaxAttempts = 2
    Lag = 0
    Horizon = 8
    Period = 2
    Window = 3
    Delay <- MCDelay
    LongestDelay <- MCLongestDelay
SPECIFICATION HealthzSpec
INVARIANTS
    NoFalseAlarm
    RecoveryBounded
    RetryHintHonest
    StartupGivesUpInTime
    HealthyHasEvidence
    RetryWaitsCappedPower
    OkHasEvidence
    NoFalseDegraded
    VerdictsAgree
\* Both goroutines end when main cancels them or startup gives up, and time
\* stops at Horizon.
CHECK_DEADLOCK FALSE
