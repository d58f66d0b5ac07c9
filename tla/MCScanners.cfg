SPECIFICATION Spec
CONSTANTS
    cve1 = cve1
    cve2 = cve2
    pkg = pkg
    img = img
    osv1 = osv1
    osv2 = osv2
    RuleIds = {1}
    Forms <- AllTypes
    NoRule = NoRule
    Requests = {r1}
    Packages = {pkg, img}
    NoPackage = NoPackage
    Supported = {pkg}
    Sources = {"OSV", "NVD", "Sonatype"}
    Report <- Reports
    PageSize = 1
    NoCve = NoCve
    Epss <- EpssOfCve
    MaxFaults = 1
    MaxCrashes = 1
INVARIANTS
    FoundIsKnown
    KeptFindingsTrigger
PROPERTIES
    ScanEnds
CHECK_DEADLOCK FALSE
