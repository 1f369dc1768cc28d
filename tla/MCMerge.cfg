CONSTANTS
    CrateFeatures <- MCCrateFeatures
    Crates <- MCCrates
    Strategy <- MCStrategy
    Rendered <- MCRendered
    Projects <- MCProjects
    DeepKeys <- MCDeepKeys
    Edits <- MCEdits
    EditorSaves <- MCEditorSaves
    MaxRuns = 2
    MaxEdits = 1
SPECIFICATION Spec
INVARIANTS
    TypeOK
    RerunConverges
PROPERTIES
    NothingLostUnasked
    BatchIsFinal
    Ends
CHECK_DEADLOCK FALSE
