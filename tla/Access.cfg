\* Two users under fair scheduling: a privileged process of one, and two
\* processes of the other, of which one acts for the first.
SPECIFICATION AccessSpec
CONSTANTS
    p1 = p1
    p2 = p2
    p3 = p3
    alice = alice
    bob = bob
    Root = Root
    Nobody = Nobody
    Procs = {p1, p2, p3}
    Privileged = {p1}
    Signallable = {p2, p3}
    Users = {alice, bob, Root}
    uid <- MCuid
    euid <- MCeuid
    OpenFlags = {{}, {"O_WRONLY", "O_NONBLOCK"}}
INVARIANT CountExact
INVARIANT Exclusive
INVARIANT NoLostWakeup
INVARIANT UidCountExact
PROPERTY TruncatesOwn
PROPERTY ImplementsOwned
PROPERTY OpenReturns
PROPERTY TrimsOwn
PROPERTY UidImplementsOwned
