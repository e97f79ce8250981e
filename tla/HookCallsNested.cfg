SPECIFICATION Spec
CONSTANTS
    r = r
    w = w
    C = C
    D = D
    p = p
    q = q
    old = old
    new = new
    NoScope = NoScope
    HookClass = HookClass
    Hooks <- TwoHooks
    Classes <- TwoClasses
    ClassOf <- TwoClassOf
    Targets <- TwoTargets
    Values <- TwoValues
    KindChoices <- Sorts
    CallsSaveScope = FALSE
    MaxDepth = 2
INVARIANTS OwnOperands ScopeKept
PROPERTIES WrittenAsReturned
SYMMETRY HookSymmetry
