CONSTANTS
    Launches <- MCLaunches
    Lists <- MCLists
    Details <- MCDetails
    Lengths <- MCLengths
    Cwd <- MCCwd
    Chars <- MCChars
    Trail = "'"
    MaxText = 3
    Page = 2
    Leap = 4
    Wide = 8
SPECIFICATION Spec
INVARIANTS
    TypeOK
    InPlace
PROPERTIES
    RunsWhatIsShown
    Responds
CHECK_DEADLOCK FALSE
