---------------------------- MODULE MCExitHooks ----------------------------
EXTENDS ExitHooks

CONSTANTS lock, close, fetch

\* upgradeDocker registers the lock, then the bundle download; planDocker the
\* lock, close (which calls the two others, and stop), and the download.
Upgrade ==
    [hooks |-> <<lock, fetch>>, calls |-> [h \in Hook |-> <<>>], stopper |-> NoHook]
Deploy ==
    [hooks |-> <<lock, close, fetch>>,
     calls |-> [h \in Hook |-> IF h = close THEN <<fetch, lock>> ELSE <<>>],
     stopper |-> close]

BothCommands == {Upgrade, Deploy}
=============================================================================
