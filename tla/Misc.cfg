\* Three processes that use one of the drivers; two of them are signalled.
SPECIFICATION FairSpec
CONSTANTS
    p1 = p1
    p2 = p2
    p3 = p3
    Procs = {p1, p2, p3}
    Signallable = {p1, p2}
    MaxWrites = 3
    Loops = 3
    ReadsApart = TRUE
INVARIANT NoLostWakeup
INVARIANT OneReadPerWrite
INVARIANT CompleteReport
PROPERTY OneGetsThrough
PROPERTY WritesLetReadsThrough
PROPERTY ReportReturns
\* All may sleep when nobody writes.
CHECK_DEADLOCK FALSE
