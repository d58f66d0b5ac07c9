SPECIFICATION FairTrackerSpec
CONSTANTS
    IPs = {a, b}
    Handlers = {h1, h2, h3}
    MaxFailures = 2
    Duration = 2
    NotSet = NotSet
INVARIANTS
    TrackerTypeOK
    BareCountersAreInUse
PROPERTIES
    BlockStands
    EntryGoes
