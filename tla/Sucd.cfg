SPECIFICATION Spec
CONSTANTS
    Clients <- MCAdmins
    ConnAllow <- MCAdmins
    QuotaAllow <- MCAdmins
    DryRun = FALSE
    Requests = {"limits", "wrong fs"}
    Xids = {1, 2, 3}
    Files <- MCFiles
    Hangs = FALSE
    MaxCalls <- MCTwoOfAlice
    MaxStops = 2
    alice = alice
    bob = bob
INVARIANTS OkIsInForce ExitIsGraceful NeverFatal
PROPERTIES Implements StartsAgain ShutdownEnds
CHECK_DEADLOCK FALSE
