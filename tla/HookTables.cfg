SPECIFICATION Spec
CONSTANTS
    C = C
    D = D
    x = x
    y = y
    Null = Null
    Native = Native
    Classes <- TwoClasses
    Objects <- TwoObjects
    ClassOf <- TwoOf
    Fields <- TwoFields
    Std <- TwoStd
    MaxTables = 3
    MaxHooks = 3
INVARIANTS AllRestored ChainsEnd HandlersApply
