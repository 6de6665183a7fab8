SPECIFICATION KeyboardSpec
CONSTANTS
    KEYBOARD_BUFFER_SIZE = 4
    Chars = {97, 98}
INVARIANTS
    PopUndisturbed
    ClearForward
PROPERTIES
    ImplementsFifo
