CONSTANTS
    i = i
    c = c
    Events = {i, c}
    Cron = {c}
    Initial = {c}
    Managed = {i}
    Interval = 2
    Period = 4
    Minute = 3
    CronGuard = 2
    PollInterval = 1
    MaxConnect = 1
    MaxScript = 1
SPECIFICATION Spec
INVARIANTS
    ScheduledRunsAreSpaced
    CronFiresAtMostTwice
    DisabledEventStops
PROPERTIES
    IntervalEventsFire
