CONSTANTS
    Entries <- MCEntries
    Root = "r"
    Parent <- MCParent
    Kind <- MCKind
    Name <- MCName
    Dev <- MCDev
    Ino <- MCIno
    Size <- MCSize
    Exclusions <- MCExclusions
SPECIFICATION Spec
INVARIANT ExcludedNeverCounted
 
CHECK_DEADLOCK FALSE
