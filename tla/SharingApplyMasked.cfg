SPECIFICATION Spec
CONSTANTS
    OrgUnitDir = "org"
    ServiceDir = "srv"
    FacilityOf <- MCFacilityOf
    FacilityDirOf <- MCFacilityDirOf
    Exports <- ExportsWritable
    Name <- MCName
    Node <- MCNode
    DirNode <- MCDirNode
    Group <- MCGroup
    Mode <- MCMode
    Mask = {{"r", "x"}, {"r", "w", "x"}}
    Config <- MCConfig
    InitialAcl <- MCInitialAcl
    InitialMask <- MCInitialMask
    Acts = {}
    ActsMidRun = {}
    MaxActs = 0
PROPERTIES RunsConverge
