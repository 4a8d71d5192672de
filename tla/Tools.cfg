\* One file of up to three lines, two spellings of its path, two chats.
SPECIFICATION ToolsSpec
CONSTANTS
    Chats = {c1, c2}
    Files = {f}
    Paths = {abs, rel}
    FileOf <- MCFileOf
    x = x
    y = y
    Lines = {blank, x, y}
    Blank = blank
    MaxLines = 3
    Pieces <- MCPieces
    Contents <- MCContents
    NoFile = none
SYMMETRY MCSymmetry
INVARIANTS EditExact Serial
