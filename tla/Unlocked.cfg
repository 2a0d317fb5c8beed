\* A reader and a writer that seek and clear; unsigned int has four values, so
\* that the offsets 4 and 7 are truncated.  Or two processes that use every
\* ioctl command; either may have CAP_SYS_ADMIN.
SPECIFICATION UnlockedSpec
CONSTANTS
    p1 = p1
    p2 = p2
    a = a
    b = b
    Procs = {p1, p2}
    Byte = {a, b}
    Zero = a
    GLOBALMEM_SIZE = 3
    UINT = 4
    Offsets <- MCOffsets
    MaxRequest = 3
    Admins = {p1, p2}
    Values = {1, 2}
    QUANTUM_SIZE = 4
    QSET_SIZE = 5
INVARIANT InMemory
PROPERTY FileBetweenCalls
PROPERTY LostOnlyByRace
PROPERTY OnlyAdminsTune
