CONSTANTS
    CrateFeatures <- MCCrateFeatures
    BeforeDefault <- MCBeforeDefault
    Packs <- MCPacks
    FeatureNames <- MCFeatureNames

SPECIFICATION ExpansionSpec

INVARIANTS
    AllDominates
    WalkAgrees
    CycleSearchAgrees

PROPERTIES
    EnablingAdds
