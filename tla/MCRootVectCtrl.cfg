SPECIFICATION Spec
CONSTANTS
    ENTRYCNT = 2
    FNAMELEN = 2
    FEXTLEN = 1
    NUM_SIZE = 2
    BYTE = 4
    Space = 1
    Dot = 2
    Paths <- MCPaths
    Asked <- MCAsked
    NoFile = NoFile
    Indices = {6}
    Sizes = {0, 7}
    Deletable = {0}
PROPERTIES
    ImplementsDirectory
