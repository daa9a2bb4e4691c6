SPECIFICATION Spec
CONSTANTS
    Run = {r1, r2}
    Requests <- MCRequests
    Families <- MCFamilies
    Image <- MCImage
    Key = {"k1", "k2"}
    Signer <- MCSigner
    Boot = {"old", "new"}
    BootKey <- MCBootKey
SYMMETRY Symmetry
INVARIANTS
    CandidateIsBacked
    ReceiptIsTrue
    NothingIsLost
    SelectionAgrees
CHECK_DEADLOCK FALSE
