\* Three streams, and requests below, within and above the safe range.
CONSTANTS
    s1 = s1
    s2 = s2
    s3 = s3
    Users <- MCUsers
    Requests <- MCRequests
    NoLatency = NoLatency
SPECIFICATION Spec
INVARIANTS
    CountsStreams
    OneLatency
    BufferFits
SYMMETRY Symmetry
