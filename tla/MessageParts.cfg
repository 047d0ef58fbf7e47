CONSTANTS
    MaxParts = 4
SPECIFICATION Spec
INVARIANTS TypeOK BodyIsFirstText CountIsFiles
