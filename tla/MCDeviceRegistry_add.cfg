SPECIFICATION Spec
CONSTANTS
    p1 = p1
    p2 = p2
    n1 = n1
    h1 = h1
    h2 = h2
    a1 = a1
    f1 = f1
    Blank = Blank
    NoRow = NoRow
    Writers <- OneWriter
    Names <- OneName
    Hostnames <- TwoHostnames
    Addresses <- OneAddress
    Fingerprints <- OneFingerprint
PROPERTY
    OnlyStampsMoveTheFlag
