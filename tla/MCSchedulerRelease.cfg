\* One run, cancelled while it waits for its tick.
CONSTANTS
    s1 = s1
    s2 = s2
    s3 = s3
    NoOwner = NoOwner
    Runners <- OneRunner
    SharedLock = FALSE
    Ttl = 2
    Margin = 0
    Interval = 2
    MaxNow = 3
    MaxCommits = 0
    MaxFaults <- OneCancel
SPECIFICATION Spec
CHECK_DEADLOCK FALSE
INVARIANTS
    ReleasedWhenSettled
