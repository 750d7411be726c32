\* Two builds and a buffer size, addresses reused, callbacks late.
CONSTANTS
    b1 = b1
    b2 = b2
    blank1 = blank1
    blank2 = blank2
    sub1 = sub1
    sub2 = sub2
    buffer = buffer
    a1 = a1
    a2 = a2
    h1 = h1
    h2 = h2
    NoOne = NoOne
    Builds = {b1, b2}
    Calls = {blank1, blank2, sub1, sub2, buffer}
    Kind <- MCKind
    Blank <- MCBlank
    Sub <- MCSub
    Addresses = {a1, a2}
    HalThreads = {h1}
    MaxNotices = 1
SPECIFICATION FairBuildSpec
INVARIANTS
    CallbackFindsPair
    NoLostWakeup
    BuiltMeansReported
    OnlyTimeoutLeaks
PROPERTIES
    BuildsEnd
\* Every build and call has returned, or one is stuck.
CHECK_DEADLOCK FALSE
