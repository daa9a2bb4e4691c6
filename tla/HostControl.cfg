CONSTANTS
    r1 = r1  r2 = r2  b1 = b1  b2 = b2
    Runs = {r1, r2}
    NoRun = NoRun
    Boards = {b1, b2}
    NoBoot = NoBoot
    Invocations <- MCInvocations
    ReadyWait = 1
    ReceiptWait = 1
    ConfigWait = 3
    Window = 2
    TrialTime = 1
    MaxRevision = 2
    MaxBoots = 2
    MaxClock = 6
SPECIFICATION Spec
INVARIANTS SuccessIsReal RefusalIsInert OneEffect
PROPERTIES NoLateCommit
CHECK_DEADLOCK FALSE
