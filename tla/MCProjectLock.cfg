\* Three runs, on Unix and on Windows: one can hold the lock, one have the
\* removed file open, and one arrive; any of them may be an uninstall.  Three
\* inodes are enough: a file is created only when the name is free and the
\* creator has none open, so two at most are in use.
CONSTANTS
    Run = {r1, r2, r3}
    Inode = {i1, i2, i3}
    NoRun = NoRun
    NoFile = NoFile
    MaxTries = 2
SPECIFICATION Spec
SYMMETRY Symmetry
INVARIANT HolderIsFound NoStaleLock
PROPERTY GoneWhenDone KeepsThePromise
