CONSTANTS
    CrateFeatures <- MCCrateFeatures
    BeforeDefault <- MCBeforeDefault
    ShortName <- MCShortName
    Workspace <- MCWorkspace
    Registry <- MCRegistry
    Crates <- MCCrates
    TemplateNames <- MCTemplateNames
    OwnPack = "ci-battery-pack"
    Commands <- MCCommands
    Typed <- MCTyped
    Foreign <- MCForeign
    MaxCommands = 2
SPECIFICATION Spec
INVARIANTS
    TypeOK
    ValidatedGenerates
    PreviewShows
PROPERTIES
    RecordedWhole
    SparesExisting
    ManagedWhole
    Ends
CHECK_DEADLOCK FALSE
