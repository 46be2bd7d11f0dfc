SPECIFICATION Spec
CONSTANTS
    NamedKeys <- NoKeys
    VisibleChars <- NoKeys
    OtherChars <- NoKeys
    Windows <- MCWindows
    Monitors <- MCMonitors
PROPERTY PointerFollowsPicture
