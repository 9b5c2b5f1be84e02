CONSTANTS
    Char = {"tab", "nl"}
    NL = "nl"
    Control = {"tab"}
    TEXT_CAP = 4
    text_rows = 2
    text_cols = 2
    bar_cols = 18
    CMD_CAP = 2
SPECIFICATION Spec
INVARIANTS ScreenCurrent
PROPERTIES ActsAsText SavesAll
