CONSTANTS
    p = p
    q = q
    Packs = {p, q}
    MaxRuns = 2
    MaxFaults = 1
SPECIFICATION Spec
INVARIANT CleanupCancelled
