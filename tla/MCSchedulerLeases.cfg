\* Two hosts with a lock each; units that commit, a cancellation, and a clock that is set back.
CONSTANTS
    s1 = s1
    s2 = s2
    s3 = s3
    NoOwner = NoOwner
    Runners <- TwoRunners
    SharedLock = FALSE
    Ttl = 2
    Margin = 0
    Interval = 2
    MaxNow = 2
    MaxCommits = 2
    MaxFaults <- CancelAndBack
SPECIFICATION Spec
SYMMETRY Symmetry
CHECK_DEADLOCK FALSE
INVARIANTS
    TypeOK
    WindowOnce
    EpochHasOneOwner
    CommitsFollowEpochs
