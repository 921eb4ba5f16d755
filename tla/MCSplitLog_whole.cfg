CONSTANTS
    Files = {f1, f2}
    NoFile = NoFile
    FsNames <- MCFsNames
    Ops <- MCOps
    Sizes <- MCSizes
    LogChoices <- MCLogChoices
    MaxCrashes = 0
SPECIFICATION Spec
INVARIANT RunsSplitWhole
CHECK_DEADLOCK FALSE
