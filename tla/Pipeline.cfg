SPECIFICATION HostSpec
CONSTANTS
    Registry <- MCRegistry
    Queues <- MCQueues
    LateConvergence <- MCLateConvergence
    MaxLarge = 1
    SectionNames <- Ten
    Scanned <- SixScanned
    NoSection = NoSection
    NoCode = NoCode
    Nothing = Nothing
    MaxFuncs = 2
    MaxObjects = 2
    NumLocals = 4
    MaxCopies = 4
    f1 = f1
    f2 = f2
    Funcs = {f1, f2}
    NoFunc = NoFunc
    NoEntry = NoEntry
    Bodies = {"leaves", "sameLocal", "scalar", "overlap", "control"}
    PairOf <- MCPairOf
    Masks = {"m1", "m2"}
    Asked = {"use_def", "effects"}
    InvalidateSets <- MCInvalidateSets
    MaxRevision = 4
INVARIANTS CurrentEntriesAreFresh LateWaveIsWhole CaughtTablesKeepPrepared ContextInUseIsFresh SchedulesAreRight
PROPERTIES AnswersLikeTheOracle PassesTakeEffectInOrder EveryScheduleEnds
CHECK_DEADLOCK FALSE
