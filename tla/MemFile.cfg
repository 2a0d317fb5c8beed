\* Two processes read and write, allocations and copies fail; one changes the
\* geometry and truncates when it is alone, the other reads the files in /proc
\* and is signalled.
SPECIFICATION Spec
CONSTANTS
    p1 = p1
    p2 = p2
    a = a
    b = b
    Zero = Zero
    Junk = Junk
    NULL = NULL
    Procs = {p1, p2}
    Tuners = {p1}
    Truncaters = {p1}
    TrimAlone = TRUE
    Signallable = {p2}
    Reporters = {p2}
    Types = {"basic", "c", "p"}
    PAGE = 4
    Byte = {a}
    QUANTUM_SIZE = 2
    QSET_SIZE = 2
    Sizes = {1}
    MaxRequest = 2
    MaxPos = 3
    MaxSize = 2
INVARIANT SemaphoreExact
INVARIANT InBounds
INVARIANT GeometryUniform
PROPERTY ImplementsFile
