CONSTANTS
    CrateFeatures <- MCCrateFeatures
    BeforeDefault <- MCBeforeDefault
    Packs <- MCPackNumbers
    Crates <- MCCrates
    FeatureNames <- MCFeatureNames
    Catalog <- MCCatalog
    Workspace = TRUE
    PeerRefs <- MCPeers
    Requests <- FewerRequests
    UserRows <- FewerUserRows
    RootRows <- FewerRootRows
    MaxCommands = 3
    MaxEdits = 1

SPECIFICATION ProjectSpec

CHECK_DEADLOCK FALSE

PROPERTY
    SyncLowersNothing
