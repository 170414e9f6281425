SPECIFICATION Spec
CONSTANTS
    OrgUnitDir = "org"
    ServiceDir = "srv"
    NoFacility = ""
    StartsWith <- MCStartsWith
    SharedWith <- MCSharedWith
    Shareable <- MCShareable
    Fillable <- MCFillable
    Config <- MCSameFacilities
    Acts = {"configure", "fill", "share", "kill"}
    MaxActs = 3
INVARIANTS TypeOK CheckAcceptsApplied
PROPERTIES SharedEntriesStay AccessStays ServiceLinksStay RunsConverge
