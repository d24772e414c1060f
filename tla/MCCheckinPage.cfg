SPECIFICATION Spec
CONSTANTS
    s1 = s1
    s2 = s2
    s3 = s3
    Submits <- ThreeSubmits
    None = None
SYMMETRY Symmetry
INVARIANTS
    TypeOK
    CreatedRowsShownOnce
    LastFailureIsTold
    RefusalsAreExplained
