\* A process that truncates beside one that reads and writes.
SPECIFICATION Spec
CONSTANTS
    p1 = p1
    p2 = p2
    a = a
    b = b
    Zero = Zero
    Junk = Junk
    NULL = NULL
    Procs = {p1, p2}
    Tuners = {}
    Truncaters = {p1}
    TrimAlone = FALSE
    Signallable = {}
    Reporters = {}
    Types = {"basic"}
    PAGE = 4
    Byte = {a}
    QUANTUM_SIZE = 2
    QSET_SIZE = 2
    Sizes = {2}
    MaxRequest = 2
    MaxPos = 3
    MaxSize = 3
INVARIANT InBounds
