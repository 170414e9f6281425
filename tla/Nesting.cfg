SPECIFICATION Spec
CONSTANTS
    Name = {"a", "b"}
    MaxDepth = 3
    MaxLists = 3
    Path <- MCPath
    Lists <- MCLists
INVARIANTS
    TreeMirrorsPaths
PROPERTIES
    Implements
CHECK_DEADLOCK FALSE
