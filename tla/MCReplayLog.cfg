SPECIFICATION Spec
CONSTANTS
    Domains = {g, t}
    MaxCount = 2
    MaxBytes = 4
    Ttl = 1
    Sizes = {1, 5}
    MaxSeq = 3
    MaxTime = 2
SYMMETRY Symmetry
INVARIANTS CursorIsServed WithinBudget
PROPERTY AcceptedIsRetained
