\* A list and a single read that share a record, two commands, a second session.
SPECIFICATION FairSpec
CONSTANTS
    Refs = {r1, r2}
    Reads = {list, one}
    Commands = {c1, c2}
    Optimistic = {c1}
    MaxEpochs = 1
    r1 = r1
    r2 = r2
    list = list
    one = one
    c1 = c1
    c2 = c2
    Nested <- MCNested
    Tags <- MCTags
    Answers <- MCAnswers
    Target <- MCTarget
    None = None
INVARIANTS OwnWritesStay StoreServesReads SessionsApart
PROPERTIES CommandsEnd

