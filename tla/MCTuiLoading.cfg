CONSTANTS
    Launches <- MCLaunches
    Lists <- MCLists
    Details <- MCDetails
    Lengths <- MCLengths
    Cwd <- MCCwd
    Chars <- MCChars
    Trail = "'"
    MaxText = 3
    Page = 2
    Leap = 4
    Wide = 8
SPECIFICATION Spec
PROPERTY
    LoadingIsShown
CHECK_DEADLOCK FALSE
