SPECIFICATION PipeSpec
CONSTANTS
    image = image
    cve = cve
    NoVersion = NoVersion
    Keys = {image}
    Below <- NoBelow
    SignedKeys = {image}
    Versions = {v1}
    Procs = {p1}
    HasHook = TRUE
    MaxId = 2
    MaxAudit = 4
    RuleIds = {1}
    Forms <- AnyForm
    NoRule = NoRule
    RepoOf <- AllDocker
    Vulns <- OneFinding
    Known <- AllVulnerable
    Faults = {}
    InitRules <- AnyTable
    RuleEditors = {"api", "mcp"}
    Rescans = {r1}
    MaxRules = 1
    MaxCrashes = 1
    MaxHuman = 1
INVARIANTS
    PipeTypeOK
    UnscannedIsOwned
PROPERTIES
    StoreSpec
CHECK_DEADLOCK FALSE
