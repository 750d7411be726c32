\* A stream follows its device: a change against starts, stops and ends.
CONSTANTS
    Units <- MCInput
    EventKinds = {"change"}
    CallbackEnds = {"drain", "error"}
    Failures = {"setup", "start"}
    RestartEarly = FALSE
    MaxStarts = 4
    MaxEvents = 1
SPECIFICATION FairSpec
PROPERTIES
    StopTakesEffect
    ChangeFollowed
\* A destroyed stream does nothing any more.
CHECK_DEADLOCK FALSE
