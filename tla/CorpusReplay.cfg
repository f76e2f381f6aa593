SPECIFICATION Spec
CONSTANTS
    System = {"corpus"}
    Promoters = {w1, w2}
    Bundles <- MCBundles
    Prints = {print1, print2}
    FamilyOf <- MCFamily
    NoPrint = NoPrint
    NoFile = NoFile
    Torn = Torn
    Budget = 2
    print1 = print1
    print2 = print2
    f1 = f1
    f2 = f2
    full = full
    other = other
    short = short
    Scripts = {"build", "build_fallback", "optimize", "check", "compare", "compare_expected", "component", "node_package"}
    MaxRuns = 2
    Batches <- MCBatches
    SafeName <- MCSafeName
    SpaceBits = 5
    MaxWidth = 3
    Queues <- MCQueues
    MaxAttempts = 64
    MaxInvocations = 2
    SelfPairs <- MCSelfPairs
    SelfPolicies = {"strict", "canonical-nan"}
    PlannedExports = 2
    CallsPerExport = 2
    Wasms = {1, 2, 3}
    Encoders <- MCEncoders
    Absent = Absent
    OutputTries = {1, 3}
    FormRounds = 3
    CaseValidators = {"wasm-tools", "wabt"}
INVARIANTS ReplayRequiresTheFingerprint
SYMMETRY Symmetric
CHECK_DEADLOCK FALSE
