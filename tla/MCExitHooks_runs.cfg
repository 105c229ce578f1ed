CONSTANTS
    lock = lock
    close = close
    fetch = fetch
    Hook = {lock, close, fetch}
    Commands <- BothCommands
    NoHook = NoHook
    Nobody = Nobody
SPECIFICATION FairSpec
INVARIANT StepsAreWhole StepsUnderLock FoundHooksFinish NobodyWaitsInVain
PROPERTY CaughtEnds
\* The process ends.
CHECK_DEADLOCK FALSE
