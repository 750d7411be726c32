\* Every kind of stream, with bursts that fill the ring, a late output and one reinit.
CONSTANTS
    Roles = {"input", "output", "duplex"}
    Asked = {"output"}
    Upmixes = {1, 2}
    CallbackFrames = 2
    Slack = 2
    InputRate = 1
    OutputRate = 1
    Outputs = {1, 2}
    Latencies = {0, 1}
    MaxCaptured = 5
    MaxWritten = 4
    MaxSetups = 1
SPECIFICATION Spec
INVARIANTS
    BurstsFit
    NothingStays
    SilenceFillsTheGap
    PositionNotAhead
PROPERTIES
    KeepsFrames
CHECK_DEADLOCK FALSE
