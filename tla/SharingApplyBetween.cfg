SPECIFICATION Spec
CONSTANTS
    OrgUnitDir = "org"
    ServiceDir = "srv"
    FacilityOf <- MCFacilityOf
    FacilityDirOf <- MCFacilityDirOf
    Exports <- ExportsOfX
    Name <- MCName
    Node <- MCNode
    DirNode <- MCDirNode
    Group <- MCGroup
    Mode <- MCMode
    Mask = {{"r", "x"}, {"r", "w", "x"}}
    Config <- MCConfig
    InitialAcl <- MCInitialAcl
    InitialMask <- MCInitialMask
    Acts = {"create", "remove", "configure", "chmod"}
    ActsMidRun = {"configure", "chmod"}
    MaxActs = 5
INVARIANTS SharesAreApplied
