\* Two runs of any kind, killed or failing anywhere, and an operator who edits,
\* links, deletes and restores files between them.  This CLI knows no content that
\* only the newer bundles have.
CONSTANTS
    compose = compose
    init = init
    c1 = c1
    c2 = c2
    i1 = i1
    i2 = i2
    Files <- BothFiles
    Schema = init
    Bundles <- ThreeBundles
    Known = {c1, i1}
    Edit = {e1}
    Link = Link
    EmptyDir = EmptyDir
    Missing = Missing
    NoEntry = NoEntry
    MaxBackups = 2
    MaxRuns = 2
    Concurrent = FALSE
SPECIFICATION Spec
INVARIANT EditKept OwnIsPristine
PROPERTY EditStays RollbackRestores
CHECK_DEADLOCK FALSE
