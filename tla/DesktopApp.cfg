SPECIFICATION FairSpec
CONSTANTS
    a1 = a1
    a2 = a2
    a3 = a3
    Attempts = {a1, a2, a3}
    None = None
INVARIANTS TypeOK OneConnection ResultsAreReceived ErrorIsLatest WindowFitsScreen
    WakeUpIsNotLost
PROPERTIES StartUpEnds OutcomesShown
CHECK_DEADLOCK FALSE
