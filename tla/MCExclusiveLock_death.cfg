\* Two runs, one of which dies inside takeOver; none is an uninstall.
CONSTANTS
    Run = {r1, r2}
    Remote = {}
    Uninstall = {}
    File = {f1, f2, f3, f4}
    NoRun = NoRun
    NoFile = NoFile
    MaxTries = 2
    MaxWaits = 2
    DiesInTakeOver = TRUE
SPECIFICATION Spec
PROPERTY OnlyStaleRemoved
