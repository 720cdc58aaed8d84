\* Drafts, retries and deletions beside one changeset: two subjects of whom one
\* is an administrator, an analysis that finds one alternative of two.
SPECIFICATION FairSpec
CONSTANTS
    Handlers = {h1, h2}
    Schemas = {s1, s2}
    Analyses = {a1}
    Alternatives = {v1, v2}
    Subjects = {u1, u2}
    Admins = {u2}
    Keys = {k1}
    Mutations = {m1}
    Operations = {o1}
    Accepts <- MCAccepts
    Found <- MCFoundOne
    MaxRevision = 2
    None = None
    Unborn = Unborn
    Deleted = Deleted
INVARIANTS RetryRowsAnswer NoUniqueViolation CheckedRowsHold OutboxMatches
PROPERTIES RequestsEnd
CHECK_DEADLOCK FALSE
