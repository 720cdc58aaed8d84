\* Two handlers and two analyses behind each other in the executor's queue,
\* interrupted at will.
SPECIFICATION FairSpec
CONSTANTS
    Handlers = {h1, h2}
    Analyses = {a1, a2}
    Keys = {k1, k2}
    Bodies = {b1}
    MaxAttempts = 2
    None = None
INVARIANTS JobsHold StoredTogether
PROPERTIES LifecycleSpec AnalysesFinish
