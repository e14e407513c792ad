SPECIFICATION Spec
CONSTANTS
    k1 = k1
    NoKey = NoKey
    Keys = {k1}
    QueueMax = 2
    TTL = 1
    MaxJobs = 3
    MaxTime = 2
INVARIANTS
    TypeOK
    QueueAgrees
    NoEarlyRepeat
    AtMostOneLateStart
PROPERTIES
    PollTellsTheTruth
    ServiceSpec
    AcceptedJobsEnd
CHECK_DEADLOCK FALSE
