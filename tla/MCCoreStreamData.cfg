\* Every way to set up, close and destroy a stream; all may fail but the
\* removal of listeners.
CONSTANTS
    u1 = u1
    u2 = u2
    u3 = u3
    Units <- MCUnits
    VoiceUnit = VoiceUnit
    NoUnit = NoUnit
    Failures <- MCFailures
SPECIFICATION Spec
INVARIANTS
    NoLeakedUnit
    VoiceUnitReturned
    CallbacksFindAll
    RunningIsWatched
PROPERTIES
    ImplementsCore
SYMMETRY Symmetry
\* A destroyed stream does nothing any more.
CHECK_DEADLOCK FALSE
