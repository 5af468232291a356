CONSTANTS
    Sessions <- MCSessions
    FdNums <- MCFdNums
    MaxOpens = 3
    Host = "serial"
SPECIFICATION Spec
VIEW StateView
INVARIANT TypeOK
INVARIANT TableSound
INVARIANT SessionEndReleasesAll
 
CHECK_DEADLOCK FALSE
