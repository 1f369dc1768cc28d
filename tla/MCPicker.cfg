CONSTANTS
    Inputs <- MCInputs
    Heights <- MCHeights

SPECIFICATION PickerSpec

CHECK_DEADLOCK FALSE

INVARIANTS
    TypeOK
    FocusKept
    CursorShown

PROPERTY
    KeepsContract
