\* Four runs: one whose lease is left behind, two that find it stale at once,
\* and one that arrives while the first of them works.
CONSTANTS
    Run = {r1, r2, r3, r4}
    NoRun = NoRun
    MaxTries = 3
    Overrun = FALSE
SPECIFICATION Spec
SYMMETRY Symmetry
INVARIANT HolderHasLease
PROPERTY OnlyStaleReplaced KeepsThePromise
\* Every run is over in the end.
CHECK_DEADLOCK FALSE
