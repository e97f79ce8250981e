SPECIFICATION Spec
CONSTANTS
    A = A
    B = B
    a1 = a1
    a2 = a2
    b1 = b1
    Classes <- TwoClasses
    Instances <- TwoObjects
    ClassOf <- TwoOf
    ZTS = FALSE
    Null = Null
    Native = Native
    NoOne = NoOne
    Decls <- PlainDecls
    Scopes <- Temporary
    MaxSapiCalls = 2
    MaxUserFns = 2
    MaxByHand = 0
INVARIANTS HooksRestored RequestCallsMatch HostNeverSkipped DestructorsRunLast
PROPERTIES ModulesEnd
