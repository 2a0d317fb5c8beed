\* Nobody polls: a process that reads, nonblocking or not, and may write, and one
\* that writes or does neither; files change O_NONBLOCK and FASYNC, so that the
\* device itself signals the reader.
SPECIFICATION Spec
CONSTANTS
    p1 = p1
    p2 = p2
    p3 = p3
    a = a
    b = b
    Junk = Junk
    NULL = NULL
    Procs = {p1, p2}
    Pollers = {}
    Signallable = {p2}
    buffersize = 2
    Byte = {a}
    OpenFlags <- FilesFlags
    SetflFlags = {"O_NONBLOCK", "FASYNC"}
    MaxRequest = 2
    MaxCounted = 3
    MaxDrift = 6
    MaxOffset = 2
INVARIANT SemaphoreExact
INVARIANT BufferLive
INVARIANT CountsCover
PROPERTY CountsFollowFiles
