CONSTANTS
    Entries <- MCEntries
    Root = "s"
    Parent <- MCParent
    Kind <- MCKind
    PreTargets <- MCPreTargets
    TargetAts <- MCTargetAts
SPECIFICATION Spec
INVARIANT CopySucceededComplete
INVARIANT DirAttrsOnce
INVARIANT NeverCopiesIntoItself
CHECK_DEADLOCK FALSE
