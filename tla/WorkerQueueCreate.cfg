SPECIFICATION Spec
CONSTANTS
    v = v
    w = w
    Main = Main
    NoOne = NoOne
    Workers <- OneWorker
    MaxTasks = 1
PROPERTIES PThreadStarts
