SPECIFICATION Spec
CONSTANTS
    p1 = p1
    p2 = p2
    NoPipeline = NoPipeline
    Pipelines <- OnePipeline
    StepLists <- FullList
    StableTies = TRUE
    MaxRuns = 1
PROPERTY SuccessfulStepsKept
