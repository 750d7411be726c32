\* Registrations and removals that may fail half-way, changes at any time.
CONSTANTS
    Lists <- MCLists
    NoList = NoList
    Failures = {"add", "remove"}
    MaxChanges = 2
    MaxCalls = 3
SPECIFICATION FairSpec
INVARIANTS
    NoCallAfterRemoval
    NoLostChange
    AllOrNoListeners
PROPERTIES
    ChangesReported
\* A dropped context does nothing any more.
CHECK_DEADLOCK FALSE
