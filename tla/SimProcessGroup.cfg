SPECIFICATION Spec
CONSTANTS
    World = 3
    Args <- MCArgs
    Calls = 2
    Programs <- MCPrograms
INVARIANT Symmetric
PROPERTIES CollectiveSpec AllReturn
CHECK_DEADLOCK FALSE
