\* Upgrades and in-place deploys across the reset and back.  Three steps may go
\* wrong, somebody else's changes of the events table among them; the operator
\* runs a command until it succeeds.  Six names are never all taken then.
CONSTANTS
    Commands = {"upgrade", "deploy"}
    Targets = {"old", "new", "edge"}
    Served = {"string", "json"}
    AsideName = {n1, n2, n3, n4, n5, n6}
    Meddling = TRUE
    MaxMishaps = 3
SPECIFICATION FairSpec
PROPERTY KeepsThePromise TagFollowsSchema SuccessIsTrue WritersFitTable OnlyOutsideRefuses ResetFinishes
