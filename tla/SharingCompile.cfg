SPECIFICATION Spec
CONSTANTS
    OrgUnitDir = "org"
    ServiceDir = "srv"
    FacilityOf <- MCFacilityOf
    FacilityDirOf <- MCFacilityDirOf
    ExportPaths <- BothPaths
    ExportAcls <- AllAcls
    MaxExports = 3
    Configs <- MCConfigs
INVARIANTS
    AccessIsGrantedAndImported
    LinksLeadToShares
    SharesAreReachable
    TraversalIsNarrow
    TreesAreTrees
    ManagersOfDirectory
    OwnPathsSpareManagers
    TraversalSparesManagers
CHECK_DEADLOCK FALSE
