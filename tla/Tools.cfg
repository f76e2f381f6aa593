SPECIFICATION HostSpec
CONSTANTS
    Absent = Absent
    All = All
    Top = Top
    Order <- MCOrder
    Matches <- MCMatches
    CommandLines <- MCCommandLines
    Environments <- MCEnvironments
    Configs <- MCConfigs
    Disks <- MCDisks
    Goals <- MCGoals
    Everies = {0, 1, 2}
    Tries = 3
    PassCounts = {0, 3}
    Nil = Nil
    ch1 = ch1
    ch2 = ch2
    w1 = w1
    w2 = w2
    End = End
    Hosts = {"gc", "wasi", "task"}
    Strings <- MCStrings
    Sentinel <- MCSentinel
    Arrays <- MCArrays
    MaxHandle = 4
    Page = 2
    MaxPages = 6
    Limit = 9
    Lengths = {0, 1, 2, 4, 7}
    MaxCalls = 3
    Word = 2
    Small = 1
    Instances = {w1, w2}
    Descriptors <- MCDescriptors
    JsValues <- MCJsValues
    WasmValues <- MCWasmValues
    Null = Null
    Refused = Refused
    Systems = {"command", "harness", "reduction", "bulk", "handles", "values", "reducers", "wasm_reduce", "options"}
    InputLengths <- MCLengths
    Evidence <- MCEvidence
    Expected = Expected
    Relatives = {near, far}
    Silence = Silence
    near = near
    far = far
    Workers = {w1, w2}
    Original = original
    Reductions = {r1, r2}
    Sound = {r1}
    Earlier = earlier
    Missing = missing
    Lines <- MCLines
    UnitsOf <- MCUnitsOf
    ParserOf <- MCParserOf
    LongestOf <- MCLongestOf
INVARIANTS FilesAreOwn HarnessIsHonest BridgesKeepTheirOwn ReductionsAreReal OptionsMeanOneThing
CHECK_DEADLOCK FALSE
