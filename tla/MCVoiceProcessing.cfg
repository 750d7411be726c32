\* Two streams share the pool, change devices, and set their units.
CONSTANTS
    s1 = s1
    s2 = s2
    v1 = v1
    v2 = v2
    NoUnit = NoUnit
    Users <- MCUsers
    VPUnits <- MCUnits
    Callers <- MCCallers
    Requests <- MCRequests
    MaxTakes = 3
SPECIFICATION FairVoiceSpec
INVARIANTS
    OneOwner
    MuteAsRemembered
    ParamsAsRemembered
PROPERTIES
    DisposeAllOrNone
    IdleUnitsReleased
\* A dropped pool does nothing any more.
CHECK_DEADLOCK FALSE
