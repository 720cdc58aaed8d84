\* The editor's pages and their cache, the store under it, the board's gestures and its
\* renderer, the workspace page of the client and the mock backends, each on its own.
SPECIFICATION BrowserSpec
CONSTANTS
    None = None
    Readers = {"r1", "r2"}
    Keys = {"p", "q"}
    Records <- RecordsOf
    PageLimit = 1
    MaxRequests = 3
    MaxClears = 1
    Refs = {"a", "b", "c"}
    RefsOf <- LinksOf
    Payloads <- Reads
    Patches <- Optimistic
    Layers = {"l1"}
    Owners = {"o1"}
    RootSets <- Retained
    Vanishing = {"c"}
    Watched = {"a"}
    Tombstone = Tombstone
    MaxVersion = 3
    MaxDepth = 1
INVARIANTS PagesHold PagesShared BoardHolds SubmissionsHold
PROPERTIES StepsHold StoreHolds
CHECK_DEADLOCK FALSE
