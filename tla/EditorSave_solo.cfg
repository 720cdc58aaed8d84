\* One editor with a session longer than its history: undo beyond the limit, edits
\* while a save is on its way, answers that never come, the schema opened again under
\* a save, and deleted under one that is tried again and again.
SPECIFICATION FairSpec
CONSTANTS
    Editors = {e1}
    Fields = {f1, f2}
    Names = {n1, n2, n3}
    f1 = f1
    f2 = f2
    n1 = n1
    n2 = n2
    FirstRevision <- MCFirstRevision
    HistoryLimit = 2
    MaxEdits = 3
    MaxLaterEdits = 1
    MaxSaves = 2
    MaxSessions = 2
    None = None
INVARIANTS HistoryHolds EveryEditOnce RefusalsAreForeign
PROPERTIES SavesResolve
CHECK_DEADLOCK FALSE
