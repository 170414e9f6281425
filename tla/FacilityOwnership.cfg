SPECIFICATION Spec
CONSTANTS
    Syllables <- MCSyllables
    Files <- MCFilesTwoEm
    Databases <- MCDatabasesTwoEm
    NameOrder <- MCNameOrder
    NoFacility = NoFacility
INVARIANTS FilterDecidesAsConfigured
CHECK_DEADLOCK FALSE
