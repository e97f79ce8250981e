SPECIFICATION Spec
CONSTANTS
    cli = cli
    fpm = fpm
    Cli = cli
    Null = Null
    Hosts <- TwoHosts
    MaxDepth = 5
    MaxTrees = 4
INVARIANTS NameKept OwnTreeCompiled CompilationEnds
