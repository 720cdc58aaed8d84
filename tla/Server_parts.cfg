\* The identity cache, uploads, the deployment's set-up, the inference and its drafts,
\* each on its own.
SPECIFICATION ServerSpec
CONSTANTS
    None = None
    Tokens = {"t1"}
    Subject <- SubjectOf
    Requests = {"q1"}
    Flushes = {"f1", "f2"}
    EntryLife = 1
    MarkerLife = 2
    DeadLife = 2
    MaxClock = 3
    MaxLogouts = 1
    MaxFailures = 1
    MaxVersion = 3
    Sessions = {"s1"}
    FileCount = 2
    Sockets = {"k1", "k2"}
    MaxFaults = 1
INVARIANTS RevocationsHold FilesHold SecretsAgree InferenceHolds DraftsHold
PROPERTIES FilesRemoved
CHECK_DEADLOCK FALSE
