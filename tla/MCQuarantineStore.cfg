SPECIFICATION StoreSpec
CONSTANTS
    image = image
    blob = blob
    p1 = p1
    p2 = p2
    NoVersion = NoVersion
    Keys <- TwoKeys
    Below <- BlobBelowImage
    SignedKeys = {image}
    Versions = {v1}
    Procs = {p1, p2}
    HasHook = TRUE
    MaxId = 3
    MaxAudit = 3
SYMMETRY ProcSymmetry
INVARIANTS
    StoreTypeOK
    IdNamesItsRow
    ApprovalHasSource
    RootHistoryExplainsStatus
    HumanGate
