CONSTANTS
    a1 = a1
    a2 = a2
    a3 = a3
    q1 = q1
    q2 = q2
    w1 = w1
    w2 = w2
    th1 = th1
    th2 = th2
    k1 = k1
    k2 = k2
    k3 = k3
    NoRequest = NoRequest
    NoToken = NoToken
    Requests <- ThreeRequests
    Slots <- TwoSlots
    Tokens <- TwoRuns
    Threads <- OneThread
    Keys <- ThreeKeys
    MaxNow = 2
    MaxSeq = 1
    DeadlineTerm = 1
    LeaseTerm = 1
    PreLeaseTerm = 1
    RecoveryLimit = 1
    Routes <- OneRoute
SYMMETRY Symmetry
SPECIFICATION Spec
INVARIANTS
    TypeOK
    OneWriter
    LogAgreesWithRow
    ToldTruth
    HolderCanFail
    SentOnce
PROPERTY
    ImplementsConversation
CHECK_DEADLOCK FALSE
