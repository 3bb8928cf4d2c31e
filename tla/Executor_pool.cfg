SPECIFICATION FairSpec
CONSTANTS
    None = None
    Requests = {r1, r2, r3}
    Workers = {w1, w2}
    Capacity = 2
INVARIANTS TypeOK NoLostWakeup AnsweredOnce
PROPERTIES DispatchSpec EveryRequestAnswered StopEnds
CHECK_DEADLOCK FALSE
