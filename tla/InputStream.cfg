SPECIFICATION FairSpec
CONSTANTS
    digit = digit
    keypad = keypad
    shift = shift
    NamedKeys <- MCNamedKeys
    VisibleChars <- MCVisibleChars
    OtherChars <- MCOtherChars
    Keys = {digit, keypad}
    Buttons = {0}
    ShiftKey = shift
    Plain <- MCPlain
    Shifted <- MCShifted
    MaxInFlight = 2
INVARIANT TypeOK
INVARIANT DesktopFollowsHands
PROPERTY ReleasesArrive
