CONSTANTS
    Sessions <- MCSessions
    FdNums <- MCFdNums
    MaxOpens = 3
    Host = "fork"
SPECIFICATION Spec
VIEW StateView
INVARIANT MalformedRequestRejected
CHECK_DEADLOCK FALSE
