SPECIFICATION Spec
CONSTANTS
    Syllables <- MCSyllables
    Files <- MCFiles
    Databases <- MCDatabases
    NameOrder <- MCNameOrder
    NoFacility = NoFacility
INVARIANTS DedupIsRight ServicesAreComplete FilterDecidesAsConfigured SharingManagesAsApply ConfigurationIsSound
CHECK_DEADLOCK FALSE
