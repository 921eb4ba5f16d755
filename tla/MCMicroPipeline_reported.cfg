CONSTANTS
    Files = {f1}
    NoFile = NoFile
    Zero = Zero
    FsNames <- MCPFsNames
    Ops <- MCOps
    Sizes <- MCSizes
    Workloads <- MCWorkloads
    IntOf <- MCIntOf
    LogChoices <- MCPLogChoices
    MaxCrashes = 0
SPECIFICATION PSpec
INVARIANT EveryRunReported
CHECK_DEADLOCK FALSE
