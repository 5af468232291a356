CONSTANTS
    Sessions <- MCSessions
    FdNums <- MCFdNums
    MaxOpens = 3
    Host = "threads"
SPECIFICATION Spec
VIEW StateView
INVARIANT HandleStable
CHECK_DEADLOCK FALSE
