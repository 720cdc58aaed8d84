\* One editor that saves a name already taken, is refused, corrects it and saves
\* again; it stops when its edits and saves are used up.
SPECIFICATION Spec
CONSTANTS
    Editors = {e1}
    Fields = {f1, f2}
    Names = {n1, n2, n3}
    f1 = f1
    f2 = f2
    n1 = n1
    n2 = n2
    FirstRevision <- MCFirstRevision
    HistoryLimit = 2
    MaxEdits = 2
    MaxLaterEdits = 2
    MaxSaves = 2
    MaxSessions = 1
    None = None
INVARIANTS CorrectionsAccepted
CHECK_DEADLOCK FALSE
