\* Two workers, two activities, an item with two ticks: claims that run out, activities resumed.
CONSTANTS
    w1 = w1
    w2 = w2
    r1 = r1
    r2 = r2
    e1 = e1
    NoRun = NoRun
    Workers <- TwoWorkers
    Activities <- TwoActivities
    Events <- OneEvent
    Episodes <- OneEpisode
    ItemStart <- Start
    ItemEnd <- End
    Interval = 1
    Lease = 1
    MaxNow = 2
SPECIFICATION FairSpec
CHECK_DEADLOCK FALSE
INVARIANTS
    TypeOK
    OpenBeatIsCurrent
    LatestClaimPublishes
    SourcesApplied
PROPERTIES
    ImplementsNarrative
    BeatsEnd
