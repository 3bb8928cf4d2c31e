SPECIFICATION FairSpec
CONSTANTS
    w1 = w1  c1 = c1  c2 = c2
    Absent = Absent
    Owner <- McOwner
    Timeout = 1
    BeatLimit = 2
    Delay = 2
    MaxAge = 2
    MaxAttempts = 2
    Batch = 1
    Events = {e1, e2}
    Workers = {w1}
    Connections = {c1, c2}
    MaxFaults = 1
INVARIANTS TypeOK HealthyHasPolled
PROPERTIES AttemptsSpaced ParkedByLastAttempt EveryEventParked
CHECK_DEADLOCK FALSE
