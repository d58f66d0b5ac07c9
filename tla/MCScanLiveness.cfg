SPECIFICATION FairPipeSpec
CONSTANTS
    image = image
    cve = cve
    NoVersion = NoVersion
    Keys = {image}
    Below <- NoBelow
    SignedKeys = {image}
    Versions = {v1}
    Procs = {p1}
    HasHook = TRUE
    MaxId = 2
    MaxAudit = 6
    RuleIds = {1}
    Forms <- AnyForm
    NoRule = NoRule
    RepoOf <- AllDocker
    Vulns <- OneFinding
    Known <- AllVulnerable
    Faults = {"scanner", "save"}
    InitRules <- AnyTable
    RuleEditors = {"api"}
    Rescans = {r1}
    MaxRules = 1
    MaxCrashes = 2
    MaxHuman = 0
PROPERTIES
    ScanCompletes
    CleanRequestApprovedAlive
