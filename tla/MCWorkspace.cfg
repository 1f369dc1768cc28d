CONSTANTS
    CrateFeatures <- MCCrateFeatures
    BeforeDefault <- MCBeforeDefault
    Packs <- MCPackNumbers
    Crates <- MCCrates
    FeatureNames <- MCFeatureNames
    Catalog <- WorkspaceCatalog
    Workspace = TRUE
    PeerRefs <- MCPeers
    Requests <- FewerRequests
    UserRows <- FewerUserRows
    RootRows <- FewerRootRows
    MaxCommands = 3
    MaxEdits = 1

SPECIFICATION ProjectSpec

CHECK_DEADLOCK FALSE

INVARIANTS
    TypeOK
    RerunConverges
    AddIdempotent
    SyncIdempotent
    StatusTracksSync

PROPERTIES
    SyncNeverWeakens
    SyncBringsUpToDate
    NoNewDangling
    AddLeavesOthersAlone
    RmKeepsShared
