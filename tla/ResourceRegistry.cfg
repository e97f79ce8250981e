SPECIFICATION Spec
CONSTANTS
    Fds <- SomeFds
    FirstHandle = 2
    MaxHandles = 3
    MaxObjects = 2
    None = None
INVARIANTS LookupsAnswer BothEnds RightAnswers NothingFreedTwice
