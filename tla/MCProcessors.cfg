CONSTANTS
    Workload <- Workloads
    MaxEvents = 3
    IdSpace = 2
    max_retries_ = 2
    FLUSH_BATCH_SIZE = 2
    MAX_STORED_EVENTS = 2
    DROP_BATCH_SIZE = 1
SPECIFICATION FairSpec
INVARIANTS ToldOnce StoredOnce Accounted SurvivesProcess ReadsInBody AlarmsRaised
PROPERTIES StopEnds
