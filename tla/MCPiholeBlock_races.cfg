SPECIFICATION Spec
CONSTANTS
    q1 = q1
    q2 = q2
    q3 = q3
    i1 = i1
    i2 = i2
    Requests = {q1, q2, q3}
    Ips = {i1, i2}
    MAX_ATTEMPTS = 3
    MaxTrouble = 2
    Nothing = Nothing
CHECK_DEADLOCK FALSE
SYMMETRY RequestSymmetry
INVARIANTS
    TypeOK
    FailuresNeedTrouble
    SuccessHolds
PROPERTY
    StepsActAtomically
