\* A process that polls and is signalled beside another: the two get into the
\* critical section together.
SPECIFICATION Spec
CONSTANTS
    p1 = p1
    p2 = p2
    p3 = p3
    a = a
    b = b
    Junk = Junk
    NULL = NULL
    Procs = {p1, p2}
    Pollers = {p1}
    Signallable = {p1}
    buffersize = 2
    Byte = {a}
    OpenFlags <- PollFlags
    SetflFlags = {}
    MaxRequest = 2
    MaxCounted = 2
    MaxDrift = 2
    MaxOffset = 2
PROPERTY OnlyPollUnwedges
\* A poll that keeps the semaphore stops every process.
CHECK_DEADLOCK FALSE
