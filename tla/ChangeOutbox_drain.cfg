\* Two writers whose rows may commit out of order, a check that refills the
\* cache of owners, one fault, full batches and short ones.
SPECIFICATION FairSpec
CONSTANTS
    Resources = {r1, r2}
    Writers = {w1, w2}
    Readers = {g1}
    Batch = 2
    MaxId = 2
    MaxFaults = 1
    None = None
PROPERTIES EveryChangeHeard ChangesDispatched KicksSuffice OwnersForgotten
