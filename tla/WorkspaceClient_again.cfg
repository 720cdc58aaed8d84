\* One batch, one title, nothing lost: an analysis that fails is submitted again.
SPECIFICATION Spec
CONSTANTS
    Batches = {"b1"}
    Readable = {"b1"}
    Accepted = {"b1"}
    NameOf <- MCNameOf
    Titles = {"t"}
    MaxEdits = 2
    MaxSubmits = 2
    MaxFaults = 0
    None = None
PROPERTIES StartAgain
CHECK_DEADLOCK FALSE
