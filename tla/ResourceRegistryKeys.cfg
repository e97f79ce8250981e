SPECIFICATION Spec
CONSTANTS
    Fds <- SomeFds
    FirstHandle = 3
    MaxHandles = 3
    MaxObjects = 2
    None = None
INVARIANTS FdOfResource
