\* Two handlers that edit and delete two schemas, with retries and stale bases.
SPECIFICATION Spec
CONSTANTS
    Handlers = {h1, h2}
    Schemas = {s1, s2}
    Analyses = {a1}
    Alternatives = {v1}
    Subjects = {u1}
    Admins = {}
    Keys = {k1}
    Mutations = {m1, m2}
    Operations = {o1, o2}
    Accepts <- MCAccepts
    Found <- MCFound
    MaxRevision = 3
    None = None
    Unborn = Unborn
    Deleted = Deleted
SYMMETRY Symmetry
INVARIANTS TypeOK RevisionChain AckedEditsSurvive
PROPERTIES HistorySpec
CHECK_DEADLOCK FALSE
