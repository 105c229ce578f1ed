\* Two runs of one host, who can find a stale file at once, and a run of
\* another host, whose process they cannot see.  The two may be uninstalls, which
\* may also end without having removed anything.  No run is killed inside
\* takeOver, and none is so slow that it is taken for dead.  Three
\* files are enough for what can go wrong: the stale lock, the takeover file, and
\* the lock that is created next; a run creates none while all are remembered.
CONSTANTS
    Run = {r1, r2, r3}
    Remote = {r3}
    Uninstall = {r1, r2}
    File = {f1, f2, f3}
    NoRun = NoRun
    NoFile = NoFile
    MaxTries = 2
    MaxWaits = 1
    DiesInTakeOver = FALSE
SPECIFICATION Spec
SYMMETRY Symmetry
INVARIANT HolderKeepsFile AloneInTakeOver
PROPERTY OnlyStaleRemoved ForeignLockStays KeepsThePromise
