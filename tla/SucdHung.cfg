SPECIFICATION Spec
CONSTANTS
    Clients <- MCAdmins
    ConnAllow <- MCAdmins
    QuotaAllow <- MCAdmins
    DryRun = FALSE
    Requests = {"limits"}
    Xids = {1, 2, 3}
    Files <- MCFiles
    Hangs = TRUE
    MaxCalls <- MCOneEach
    MaxStops = 1
    alice = alice
    bob = bob
PROPERTIES ShutdownEnds
CHECK_DEADLOCK FALSE
