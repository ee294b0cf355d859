SPECIFICATION Spec
CONSTANTS
    w1 = w1
    w2 = w2
    n1 = n1
    n2 = n2
    l1 = l1
    l2 = l2
    l3 = l3
    l4 = l4
    NoLoop = NoLoop
    NoCall = NoCall
    Workers <- TwoWorkers
    Names <- OneName
    Loops <- ThreeLoops
    MAX_ATTEMPTS = 2
SYMMETRY WorkerLoopSymmetry
INVARIANTS
    TypeOK
    RegisteredNotStopped
    PoppedHandleHasOneOwner
    LostLoopsWereOverwritten
    LoneCallerLoopsNeverFight
    LoneCallerReportsTruth
PROPERTY
    CallsAreRetried
