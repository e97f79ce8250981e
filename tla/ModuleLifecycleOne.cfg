SPECIFICATION Spec
CONSTANTS
    A = A
    B = B
    a1 = a1
    a2 = a2
    b1 = b1
    Classes <- OneClass
    Instances <- OneObjects
    ClassOf <- OneOf
    ZTS = TRUE
    Null = Null
    Native = Native
    NoOne = NoOne
    Decls <- AnyDecl
    Scopes <- AnyScope
    MaxSapiCalls = 1
    MaxUserFns = 1
    MaxByHand = 1
INVARIANTS NoDeadCall SlotsMatchRegistry
