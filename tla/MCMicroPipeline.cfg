CONSTANTS
    Files = {f1}
    NoFile = NoFile
    Zero = Zero
    FsNames <- MCPFsNames
    Ops <- MCOps
    Sizes <- MCSizes
    Workloads <- MCWorkloads
    IntOf <- MCIntOf
    LogChoices <- MCPLogChoices
    MaxCrashes = 1
SPECIFICATION PSpec
INVARIANTS PTypeOK CellsFromOwnRun
CHECK_DEADLOCK FALSE
