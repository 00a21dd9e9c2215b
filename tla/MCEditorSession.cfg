CONSTANTS
    w1 = w1
    w2 = w2
    button = button
    hotkey = hotkey
    dialog = dialog
    Workflows <- MCWorkflows
    Savers <- MCSavers
    Dialogs = {dialog}
    HISTORY_LIMIT = 1
    MaxEdits = 2
    MaxRestores = 1
SPECIFICATION Spec
SYMMETRY MCSymmetry
INVARIANTS
    TypeOK
    CleanIsSaved
    UndoReachesLoaded
