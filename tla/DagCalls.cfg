SPECIFICATION FairSpec
CONSTANTS
    Nodes = {n1, n2, n3}
INVARIANTS ReturnsDependents LayersCorrect CycleCorrect
PROPERTIES Terminates
