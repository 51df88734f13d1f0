SPECIFICATION Spec
CONSTANTS
    NONE = NONE
    VGA_WIDTH = 2
    VGA_HEIGHT = 2
    Width = 32
    Keys <- Keyboard
    Prints <- Output
    MaxDown = 1
    MaxQueue = 2
    MaskedOutput = TRUE
INVARIANTS
    CursorOnScreen
    ScreenIsTail
    ModifiersTrack
