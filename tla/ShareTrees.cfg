SPECIFICATION Spec
CONSTANTS
    OrgUnitDir = "org"
    ServiceDir = "srv"
    FacilityOf <- MCFacilityOf
    FacilityDirOf <- MCFacilityDirOf
    Shares <- TwoShares
    Run = {"r", "s"}
    Sorted <- MCSorted
    Dir <- Directory
    UserContent <- UserFiles
    Config <- MCConfig
    Initial <- MCInitial
    Acts = {"put", "drop", "configure", "kill"}
    MaxActs = 1
INVARIANTS
    TypeOK
    TreesAreApplied
PROPERTIES
    RightFilesStay
    TreesConverge
