\* A reader and a writer that is signalled, under fair scheduling; a buffer of
\* three, two byte values.
SPECIFICATION FairSpec
CONSTANTS
    p1 = p1
    p2 = p2
    p3 = p3
    a = a
    b = b
    Junk = Junk
    NULL = NULL
    Procs = {p1, p2}
    Pollers = {}
    Signallable = {p2}
    buffersize = 3
    Byte = {a, b}
    OpenFlags <- PipeFlags
    SetflFlags = {}
    MaxRequest = 2
    MaxCounted = 1
    MaxDrift = 2
    MaxOffset = 3
INVARIANT TypeOK
INVARIANT SemaphoreExact
INVARIANT NoLostReaderWakeup
INVARIANT NoLostWriterWakeup
PROPERTY ImplementsFifo
PROPERTY ReadReturns
PROPERTY WriteReturns
