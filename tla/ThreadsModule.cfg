SPECIFICATION Spec
CONSTANTS
    main = main
    w1 = w1
    w2 = w2
    Null = Null
    Native = Native
    Main = main
    Threads <- ThreeThreads
    MaxModules = 1
    MaxMutexes = 3
INVARIANTS OneAtATime Restored LockedInside
PROPERTIES Advances
CHECK_DEADLOCK FALSE
