CONSTANTS
    CrateFeatures <- MCCrateFeatures
    BeforeDefault <- MCBeforeDefault
    Manifests <- MCManifests
    Declared <- MCDeclared
    Described <- MCDescribed
    Labels <- MCLabels
    Projects <- MCProjects

SPECIFICATION LintSpec

CHECK_DEADLOCK FALSE

INVARIANT
    OpensWithoutConflict

PROPERTY
    EnterAnswers
