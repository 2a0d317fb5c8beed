\* A process that polls and is signalled, beside two readers.
SPECIFICATION Spec
CONSTANTS
    p1 = p1
    p2 = p2
    p3 = p3
    a = a
    b = b
    Junk = Junk
    NULL = NULL
    Procs = {p1, p2, p3}
    Pollers = {p1}
    Signallable = {p1}
    buffersize = 3
    Byte = {a}
    OpenFlags <- PollRaceFlags
    SetflFlags = {}
    MaxRequest = 2
    MaxCounted = 3
    MaxDrift = 3
    MaxOffset = 3
INVARIANT OnlyWrittenBytes
CHECK_DEADLOCK FALSE
