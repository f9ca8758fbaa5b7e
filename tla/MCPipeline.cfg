SPECIFICATION Spec
CONSTANTS
    p1 = p1
    p2 = p2
    NoPipeline = NoPipeline
    Pipelines <- OnePipeline
    StepLists <- BothLists
    StableTies = TRUE
    MaxRuns = 2
INVARIANTS
    UnfinishedHasJob
PROPERTIES
    LedgerSpec
    EveryRunEnds
