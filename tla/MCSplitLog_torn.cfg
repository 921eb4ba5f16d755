CONSTANTS
    Files = {f1, f2}
    NoFile = NoFile
    FsNames <- MCFsNames
    Ops <- MCOps
    Sizes <- MCSizes
    LogChoices <- MCLogChoices
    MaxCrashes = 1
SPECIFICATION Spec
INVARIANT NoTornOutput
CHECK_DEADLOCK FALSE
