CONSTANTS
    CrateFeatures <- MCCrateFeatures
    BeforeDefault <- MCBeforeDefault
    Packs <- MCPackNumbers
    Crates <- MCCrates
    FeatureNames <- MCFeatureNames
    Catalog <- MCCatalog
    Workspace = FALSE
    PeerRefs <- MCPeers
    Requests <- MCRequests
    UserRows <- MCUserRows
    RootRows <- NoRootRows
    MaxCommands = 2
    MaxEdits = 2

SPECIFICATION ProjectSpec

CHECK_DEADLOCK FALSE

INVARIANTS
    RerunConverges

PROPERTIES
    SyncBringsUpToDate
