\* One stream: its client mutes it while the default device changes.
CONSTANTS
    s1 = s1
    s2 = s2
    v1 = v1
    v2 = v2
    NoUnit = NoUnit
    Users = {s1}
    VPUnits = {v1}
    Callers <- MCCallers
    Requests <- MCRequests
    MaxTakes = 2
SPECIFICATION VoiceSpec
INVARIANT MuteRemembered
CHECK_DEADLOCK FALSE
