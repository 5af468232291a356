CONSTANTS
    Sessions <- MCSessions
    FdNums <- MCFdNums
    MaxOpens = 3
    Host = "fork"
SPECIFICATION Spec
INVARIANT ResponseTagMatches
CHECK_DEADLOCK FALSE
