SPECIFICATION SchedulerSpec
CONSTANTS
    MaxConsecutivePreempt = 2
    MaxConsecutiveSboBurst = 2
    IsHalfDuplex = TRUE
    NoTask = NoTask
    MaxTasks = 6
    SlaveIds = {s1}
    Unregistered = Unregistered
    MaxMissed = 9
INVARIANTS
    PollsSurviveStorm
    SlowPollsSurvivePolls
    StageMatchesFailures
CHECK_DEADLOCK FALSE
