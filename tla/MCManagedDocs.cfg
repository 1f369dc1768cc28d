CONSTANTS
    CrateFeatures <- MCCrateFeatures
    BeforeDefault <- MCBeforeDefault
    ShortName <- MCShortName
    Workspace <- MCWorkspace
    Registry <- MCRegistry
    Crates <- OneCrate
    TemplateNames <- MCTemplateNames
    OwnPack = "ci-battery-pack"
    Commands <- MCCommands
    Typed <- MCTyped
    Foreign <- MCForeign
    MaxCommands = 2
SPECIFICATION Spec
PROPERTY
    NewestVersion
CHECK_DEADLOCK FALSE
