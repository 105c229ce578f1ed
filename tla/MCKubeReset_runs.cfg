\* Two runs at once, any of which may stop at any step.
CONSTANTS
    Run = {r1, r2}
    Commands = {"upgrade", "rollback", "deploy"}
    Targets = {"old", "new"}
    AsideName = {n1, n2}
    NoName = NoName
    Nobody = Nobody
SPECIFICATION Spec
SYMMETRY Symmetry
INVARIANT GoesThrough ConsentSurvives
PROPERTY KeepsThePromise SuccessIsTrue MovesFit
