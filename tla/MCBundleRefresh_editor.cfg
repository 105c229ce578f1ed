\* The operator saves a file while the run pulls images.
CONSTANTS
    compose = compose
    init = init
    c1 = c1
    c2 = c2
    i1 = i1
    i2 = i2
    Files <- BothFiles
    Schema = init
    Bundles <- ThreeBundles
    Known = {c1, i1}
    Edit = {e1}
    Link = Link
    EmptyDir = EmptyDir
    Missing = Missing
    NoEntry = NoEntry
    MaxBackups = 2
    MaxRuns = 2
    Concurrent = TRUE
SPECIFICATION Spec
PROPERTY BackedUp
CHECK_DEADLOCK FALSE
