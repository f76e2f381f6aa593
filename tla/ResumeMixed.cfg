SPECIFICATION HostSpec
CONSTANTS
    Systems = {"directory"}
    NumCases = 4
    Jobs = 2
    MaxFailures = 2
    Inputs <- PairInputs
    InputsOf <- PairInputsOf
    NoCase = NoCase
    PersistMayFail = FALSE
    KillPoints = {"case"}
    MaxRuns = 2
    c1 = c1
    c2 = c2
    Gone = Gone
    Torn = Torn
    Configs = {c1, c2}
    CountOf <- RunLengths
    Required = {c1}
    MaxRevision = 3
    MaxStarts = 3
    None = None
    Nothing = Nothing
    p1 = p1
    p2 = p2
    p3 = p3
    Procs = {p1, p2, p3}
    Leader = p1
    Kinds = {"npm", "progress", "plain", "worker"}
    Programs = {"atomic", "racy", "absent", "throws", "hangs"}
    Trials = 2
INVARIANTS OneCampaignPerDirectory
CHECK_DEADLOCK FALSE
