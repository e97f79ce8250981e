SPECIFICATION Spec
CONSTANTS
    v = v
    w = w
    Main = Main
    NoOne = NoOne
    Workers <- TwoWorkers
    MaxTasks = 2
INVARIANTS TasksInOrder NoUnderflow MutexReleased
PROPERTIES Implements TasksRun AddReturns
CHECK_DEADLOCK FALSE
