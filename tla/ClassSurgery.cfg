SPECIFICATION ClassSpec
CONSTANTS
    C = C
    P = P
    Q = Q
    G = G
    I = I
    J = J
    T = T
    U = U
    m = m
    n = n
    Class = C
    Null = Null
    Undef = Undef
    Unknown = Unknown
    Keys <- TwoMethods
    Vals <- AllClasses
    Interfaces <- TwoInterfaces
    Traits <- TwoTraits
    Parents <- TwoParents
    Ancestors <- TheAncestors
    InterfacesOf <- TheInterfaces
    MethodsOf <- TheMethods
    TableSize = 2
    MaxItems = 2
    MaxUsed = 2
    MaxBlocks = 3
SYMMETRY TraitSymmetry
INVARIANTS ClassTypeOK ArraysMatch FreedAsAllocated NoLeaks KeepsPromise
