\* Everything that may happen to a duplex stream.
CONSTANTS
    Units <- MCDuplex
    EventKinds = {"change", "dead"}
    CallbackEnds = {"drain", "error", "reinit"}
    Failures = {"setup", "start"}
    RestartEarly = FALSE
    MaxStarts = 2
    MaxEvents = 1
SPECIFICATION FairSpec
INVARIANTS
    NoOrphanRunning
    StartedMeansRunning
    EndsMatchStarts
    OneReinitWhilePending
    NothingAfterRelease
PROPERTIES
    SwitchingLostTwoWays
    ChangeLostFourWays
    UsesCore
    CallsReturn
\* A destroyed stream does nothing any more.
CHECK_DEADLOCK FALSE
