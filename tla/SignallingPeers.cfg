SPECIFICATION Spec
CONSTANTS
    h1 = h1
    h2 = h2
    r1 = r1
    r2 = r2
    r3 = r3
    nameA = nameA
    nameB = nameB
    Homes = {h1}
    Remotes = {r1, r2, r3}
    Names = {nameA}
    HomeName <- OneName
    IdModulus = 4
    NoDesktop = NoDesktop
    NoPeer = NoPeer
SYMMETRY RemoteSymmetry
INVARIANTS AnswerReachesOfferer PeerIdsUnique NoPacketIsLost
PROPERTIES HomeDroppedOnlyForGonePeer ImplementsService
CHECK_DEADLOCK FALSE
