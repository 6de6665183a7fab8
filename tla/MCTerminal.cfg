SPECIFICATION TerminalSpec
CONSTANTS
    VGA_WIDTH = 3
    VGA_HEIGHT = 2
    BYTE = 2
    MaxChars = 12
    MaxKeys = 2
INVARIANTS
    CursorRests
    CursorShown
    ScreenShowsText
