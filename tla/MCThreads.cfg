CONSTANTS
    Pairs <- MCPairs
    Renders <- MCRenders
    Remotes <- MCRemotes
    Chunks = 4
    Pipe = 1
    MaxRenders = 2
SPECIFICATION Spec
PROPERTIES
    OnePin
    Finishes
CHECK_DEADLOCK FALSE
