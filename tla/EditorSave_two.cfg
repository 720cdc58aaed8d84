\* Two editors of one schema that save on each other's revisions, undo and retry,
\* until the schema is deleted.
SPECIFICATION Spec
CONSTANTS
    Editors = {e1, e2}
    Fields = {f1, f2}
    Names = {n1, n2, n3}
    f1 = f1
    f2 = f2
    n1 = n1
    n2 = n2
    FirstRevision <- MCFirstRevision
    HistoryLimit = 2
    MaxEdits = 2
    MaxLaterEdits = 2
    MaxSaves = 2
    MaxSessions = 1
    None = None
SYMMETRY Symmetry
INVARIANTS BaseIsRevision EveryEditOnce RefusalsAreForeign
CHECK_DEADLOCK FALSE
