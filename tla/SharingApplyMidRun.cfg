SPECIFICATION Spec
CONSTANTS
    OrgUnitDir = "org"
    ServiceDir = "srv"
    FacilityOf <- MCFacilityOf
    FacilityDirOf <- MCFacilityDirOf
    Exports <- ExportsOfBoth
    Name <- MCName
    Node <- MCNode
    DirNode <- MCDirNode
    Group <- MCGroup
    Mode <- MCMode
    Mask = {{"r", "x"}, {"r", "w", "x"}}
    Config <- MCConfig
    InitialAcl <- MCInitialAcl
    InitialMask <- MCInitialMask
    Acts = {"create", "remove", "configure", "kill"}
    ActsMidRun = {"create", "remove", "configure", "kill"}
    MaxActs = 3
INVARIANTS SettledIsFixpoint ManagersKeepAccess
PROPERTIES ManagersUntouched RunsKeepGrants RunsConverge
