\* The sub-devices of an aggregate device, reported at once or too late.
CONSTANTS
    c1 = c1
    a1 = a1
    h1 = h1
    NoOne = NoOne
    Calls = {c1}
    Kind <- MCSub
    Addresses = {a1}
    HalThreads = {h1}
    MaxNotices = 1
SPECIFICATION Spec
INVARIANTS
    DroppedUnlocked
\* Every call has returned.
CHECK_DEADLOCK FALSE
