SPECIFICATION FairDockerSpec
CONSTANTS
    stable = stable  latest = latest
    list = list  platform = platform  layer = layer
    c1 = c1
    Nowhere = Nowhere
    Wrong = Wrong
    Tags = {stable}
    Manifests = {list, platform}
    Layers = {layer}
    Points <- MCPoints
    Platforms <- MCPlatforms
    LayersOf <- MCLayersOf
    Clients = {c1}
    MaxPulls = 2
    MaxDecisions = 1
    MaxFaults = 1
    MaxRestarts = 1
INVARIANTS IndexedHasRow RowIsIndexed
PROPERTIES ImageIsFiled
CHECK_DEADLOCK FALSE
