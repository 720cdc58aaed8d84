\* A check that overlaps with a deletion and its dispatch.
SPECIFICATION Spec
CONSTANTS
    Resources = {r1}
    Writers = {w1}
    Readers = {g1}
    Batch = 1
    MaxId = 2
    MaxFaults = 0
    None = None
INVARIANTS AccessSeesTruth
