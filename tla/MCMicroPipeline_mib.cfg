CONSTANTS
    Files = {f1}
    NoFile = NoFile
    Zero = Zero
    FsNames <- MCPFsNames
    Ops <- MCOps
    Sizes <- MCMibSizes
    Workloads <- MCWorkloads
    IntOf <- MCIntOf
    LogChoices <- MCMibRuns
    MaxCrashes = 0
SPECIFICATION PSpec
INVARIANT CellsFromOwnRun
CHECK_DEADLOCK FALSE
