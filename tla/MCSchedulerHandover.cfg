\* One lock for all; answers that are lost, and a process that dies; a clock that only goes on.
CONSTANTS
    s1 = s1
    s2 = s2
    s3 = s3
    NoOwner = NoOwner
    Runners <- ThreeRunners
    SharedLock = TRUE
    Ttl = 3
    Margin = 1
    Interval = 3
    MaxNow = 5
    MaxCommits = 0
    MaxFaults <- CallAndCrash
SPECIFICATION Spec
SYMMETRY Symmetry
CHECK_DEADLOCK FALSE
INVARIANTS
    ReadyMeansHeld
    OneTickAtATime
