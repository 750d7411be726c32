\* A second device change while the first reinit is ending.
CONSTANTS
    Units <- MCOutput
    EventKinds = {"change"}
    CallbackEnds = {}
    Failures = {}
    RestartEarly = TRUE
    MaxStarts = 1
    MaxEvents = 2
SPECIFICATION Spec
INVARIANTS
    SwitchingIsTransient
\* A destroyed stream does nothing any more.
CHECK_DEADLOCK FALSE
