\* Two runs, of which one may be an uninstall, and which may die anywhere: every
\* run comes to an end all the same.
CONSTANTS
    Run = {r1, r2}
    Remote = {}
    Uninstall = {r1}
    File = {f1, f2, f3, f4}
    NoRun = NoRun
    NoFile = NoFile
    MaxTries = 2
    MaxWaits = 2
    DiesInTakeOver = TRUE
SPECIFICATION FairSpec
PROPERTY EveryRunEnds
