SPECIFICATION FairSpec
CONSTANTS
    w1 = w1
    w2 = w2
    n1 = n1
    n2 = n2
    l1 = l1
    l2 = l2
    l3 = l3
    l4 = l4
    NoLoop = NoLoop
    NoCall = NoCall
    Workers <- OneWorker
    Names <- OneName
    Loops <- FourLoops
    MAX_ATTEMPTS = 3
PROPERTIES
    StoppedLoopsExit
    CallsReturn
