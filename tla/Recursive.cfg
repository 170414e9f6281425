SPECIFICATION Spec
CONSTANTS
    Node <- MCNode
    KindOf <- MCKindOf
    Policies = {"sou", "group", "owner", "manager"}
    OtherGroups = {"zoe"}
    Foreign <- MCForeign
    Initial <- MCInitial
    Acts = {"create", "move", "change", "remove", "configure", "kill"}
    MaxActs = 3
INVARIANTS RecursionRepairs
PROPERTIES OtherEntriesStay RunsConverge
