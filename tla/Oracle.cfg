SPECIFICATION Spec
CONSTANTS
    Behaviours <- SmallBehaviours
    PlanLength = 2
    Results = {"zero", "one", "trap"}
    EventCap = 2
    Modules = {1, 2, 3}
    MaxGenerations = 2
    PlanPasses = 3
    OptionSets <- MostOrFew
    PersistMayFail = TRUE
    MaxRevision = 2
    MaxRoundtrips = 2
    MaxFuncs = 5
    BatchSize = 2
    PassNames = {"inlining", "precompute"}
    MaxTicks = 3
    MaxDepth = 3
    MaxLines = 6
    Sweeps = {s1, s2}
    Warmup = 1
    Samples = 2
    MaxChanges = 1
    MaxSweepRuns = 2
    SweepPasses <- TwoPasses
INVARIANTS VerdictsAreEarned PropertyVerdictsAreReal RecordsTellTheCase ComparisonsAreReal MeasurementsAreReal
PROPERTIES CaseStepsAreCampaignSteps
CHECK_DEADLOCK FALSE
