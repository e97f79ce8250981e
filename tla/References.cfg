SPECIFICATION Spec
CONSTANTS
    x = x
    y = y
    Null = Null
    Vars <- TwoVars
    Sorts <- SomeSorts
    MaxObjects = 2
    MaxBlocks = 2
    MaxRefs = 3
SYMMETRY VarSymmetry
INVARIANTS TypeOK Counted Alive FreedOnce NoLeaks
