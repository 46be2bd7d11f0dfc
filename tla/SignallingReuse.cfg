SPECIFICATION Spec
CONSTANTS
    h1 = h1
    h2 = h2
    r1 = r1
    r2 = r2
    r3 = r3
    nameA = nameA
    nameB = nameB
    Homes = {h1, h2}
    Remotes = {r1, r2}
    Names = {nameA}
    HomeName <- OneName
    IdModulus = 2
    NoDesktop = NoDesktop
    NoPeer = NoPeer
SYMMETRY ReuseSymmetry
INVARIANTS TypeOK PeerTableSound AtMostOneCopy
CHECK_DEADLOCK FALSE
