\* A run that works for longer than kubeLeaseStale, and one that takes over.
CONSTANTS
    Run = {r1, r2}
    NoRun = NoRun
    MaxTries = 3
    Overrun = TRUE
SPECIFICATION Spec
PROPERTY WorkingLeaseStays
CHECK_DEADLOCK FALSE
