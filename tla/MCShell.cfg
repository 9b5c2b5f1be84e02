CONSTANTS
    rows = 2
    cols = 3
    HISTORY_LINES = 2
    Blank = " "
    BadColor = "bad"
    Char = {"a"}
    Prompt <- MCPrompt
    Outputs <- MCOutputs
    BUF_CAP = 4
    HISTORY_CAP = 2
SPECIFICATION Spec
INVARIANTS
    ScreenShowsView
    LineShown
PROPERTIES
    RecallIsExact
