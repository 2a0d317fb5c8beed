\* Every module, two of each kind of device, every call of init failing or not.
SPECIFICATION Spec
CONSTANTS
    Mods = {"scull", "scullc", "scullp", "globalmem", "completion", "sleepy", "jiq", "jit"}
    nr_devs = 2
    p_nr_devs = 2
    a_nr_devs = 2
    nr_files = 2
INVARIANT GivesBack
PROPERTY StaysInside
\* A module that was unloaded or refused is not loaded again.
CHECK_DEADLOCK FALSE
