SPECIFICATION RegSpec
CONSTANTS
    image = image
    blob = blob
    cve = cve
    c1 = c1
    c2 = c2
    puller = puller
    NoVersion = NoVersion
    Keys = {image}
    Below <- NoPairs
    Pulls <- NoPairs
    SignedKeys = {}
    Versions = {v1}
    Procs = {c1, c2}
    Clients = {c1, c2}
    HasHook = TRUE
    MaxId = 2
    MaxAudit = 2
    RuleIds = {1}
    Forms <- LaxForm
    NoRule = NoRule
    RepoOf <- AllDocker
    Vulns <- OneFinding
    Known <- AllVulnerable
    Faults = {}
    InitRules <- OnlyLax
    RuleEditors = {}
    Rescans = {}
    MaxRules = 0
    MaxCrashes = 1
    MaxHuman = 1
    Interrupts = {"timeout"}
    CacheFaults = FALSE
    MaxRequests = 2
SYMMETRY ClientSymmetry
INVARIANTS
    RegTypeOK
    ServedWasGranted
    WaiterHasNotifier
    NoLeakedSubscription
CHECK_DEADLOCK FALSE
