SPECIFICATION HostSpec
CONSTANTS
    Funcs = {1, 2}
    NumFuncs = 2
    NoFunc = NoFunc
    NoEntry = NoEntry
    NoTypes = NoTypes
    Bodies = {"leaves", "overlap"}
    PairOf <- MCPairOf
    Masks = {"m1"}
    Asked = {"dom", "effects"}
    InvalidateSets = {}
    MaxRevision = 3
    Requires <- MCRequires
    Invalidates <- MCInvalidates
    VerifyEachPass = TRUE
    ValidateFinal = FALSE
    RawCleanup = TRUE
    MaxTypes = 2
    MaxNodes = 3
    MaxSlots = 2
    MaxLabels = 1
    MaxSpan = 1
VIEW HostView
INVARIANTS PassStartsOnSoundCache DriverCachesFollowTypes ReferencesAreLive FreeListMatchesBitmap CountsFindForests
PROPERTIES OriginalOnlyIfUntouched EditsStayInTheirSpan
CHECK_DEADLOCK FALSE
