SPECIFICATION FairSpec
CONSTANTS
    l1 = l1
    l2 = l2
    Loops = {l1, l2}
    NoLoop = NoLoop
    Blank = Blank
    WINDOW = 1
    TOLERANCE = 0
    HISTORY = 2
    RETENTION = 2
    LIMIT = 3
    MaxCount = 2
    MaxSamples = 2
INVARIANTS
    TypeOK
    FigureNeverOverstates
    OneLoopGoesOn
PROPERTY
    SamplerKeepsPassing
