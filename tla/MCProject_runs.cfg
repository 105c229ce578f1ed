\* Upgrades, deploys and uninstalls of one project across the reset, with the
\* AI engine turned on and off.  Two steps fail, or edits are made; the
\* operator runs an upgrade that did not get through again.
CONSTANTS
    Tags = {"old", "new"}
    Switched = {"agentic"}
    Kinds = {"linked", "readonly"}
    MaxMishaps = 2
SPECIFICATION FairSpec
INVARIANT EnvWhole LinkKept SecretsFit
PROPERTY OwnProfilesKept SuccessFits LaterUpSame LeftoversGo
\* A .env that a lost machine tore is the operator's to mend.
CHECK_DEADLOCK FALSE
