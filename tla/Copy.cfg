\* Two processes on one terminal, one on another, one on none; the module is
\* unloaded and loaded again until three items are allocated.
SPECIFICATION Spec
CONSTANTS
    p1 = p1
    p2 = p2
    p3 = p3
    p4 = p4
    tty1 = tty1
    tty2 = tty2
    Nothing = Nothing
    Procs = {p1, p2, p3, p4}
    Ttys = {tty1, tty2}
    tty <- MCtty
    MaxItems = 3
INVARIANT OneDevicePerTty
INVARIANT PrivateCopy
PROPERTY Persistent
