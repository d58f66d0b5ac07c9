SPECIFICATION FairRegSpec
CONSTANTS
    image = image
    blob = blob
    cve = cve
    c1 = c1
    c2 = c2
    puller = puller
    NoVersion = NoVersion
    Keys = {image, blob}
    Below <- BlobBelowImage
    Pulls <- ImagePullsBlob
    SignedKeys = {image}
    Versions = {v1}
    Procs = {c1, puller}
    Clients = {c1}
    HasHook = TRUE
    MaxId = 2
    MaxAudit = 4
    RuleIds = {1}
    Forms <- LaxForm
    NoRule = NoRule
    RepoOf <- AllDocker
    Vulns <- TwoFindings
    Known <- BlobIsWorse
    Faults = {}
    InitRules <- OnlyLax
    RuleEditors = {}
    Rescans = {}
    MaxRules = 0
    MaxCrashes = 0
    MaxHuman = 0
    Interrupts = {"disconnect"}
    CacheFaults = TRUE
    MaxRequests = 2
PROPERTIES
    PipeSpec
    RequestAnswered
CHECK_DEADLOCK FALSE
