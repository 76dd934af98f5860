SPECIFICATION Spec
CONSTANTS
    Int64Of <- MCInt64Of
    Programs <- MainProgram
    Configs <- MCConfigs
    MaxRuns = 2
    FirstProgress = 1
    ProgressGaps <- MCProgressGaps
INVARIANTS YesIsOfThisRun
CHECK_DEADLOCK FALSE
