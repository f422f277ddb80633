CONSTANTS
    r1 = r1
    r2 = r2
    s1 = s1
    t1 = t1
    t2 = t2
    NoRequest = NoRequest
    NoToken = NoToken
    Requests <- TwoRequests
    Slots <- OneSlot
    Tokens <- TwoTokens
    MaxNow = 2
    MaxGen = 2
    MaxSeq = 1
    DeadlineTerms <- Deadline2
    LeaseTerms <- Lease12
    RecoveryLimit = 1
    StaleStates <- SomeStates
SYMMETRY Symmetry
SPECIFICATION Spec
INVARIANTS
    AnsweredOnce
    NewestAttemptOnly
    AnswerIffCommitted
    AnswerByNewestLease
PROPERTIES
    TerminalImmutable
    OnlyLiveProgress
    ImplementsSlot
CHECK_DEADLOCK FALSE
